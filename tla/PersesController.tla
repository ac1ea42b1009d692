-------------------------- MODULE PersesController --------------------------
(***************************************************************************)
(* The Perses controller: it turns one Perses object into a Service, a     *)
(* ConfigMap and a Deployment or StatefulSet, records the versions of the  *)
(* provisioning secrets in the status and their hash in the pod template,  *)
(* strips the legacy finalizer and reports conditions.                     *)
(*                                                                         *)
(* Modelled: the sub-reconcilers in their order, one step per call to the  *)
(* API server, with what each reads from the informer cache (the Perses    *)
(* object, the children) and what it reads live (the secrets); optimistic  *)
(* locking by resourceVersion; the watches; the work queue; the garbage    *)
(* collector; edits, deletions and re-creations of the object, secrets     *)
(* that change, children edited by hand, failing calls and restarts.       *)
(*                                                                         *)
(* Abstracted: config, port, image, args, volumes and probes are one       *)
(* content value; a provisioning hash is the versions it is computed from; *)
(* a condition is its status (its reason and message follow from it).      *)
(***************************************************************************)
EXTENDS Naturals

CONSTANTS
    Specs,          \* the specs users write
    LegacySpecs,    \* specs of objects an earlier version of the operator left
    Contents,       \* what of a spec ends up in the children
    LabelSets,      \* values of spec.metadata.labels
    Annotations,    \* annotation keys
    ServiceNames,   \* names of the Service
    Secrets,        \* provisioning secrets, all with the watch label
    NoMap,          \* spec.metadata.annotations is nil
    Absent,         \* no such child
    Budgets         \* how often the environment may do each thing, one entry per scenario

Spec_ == [content : Contents, database : SUBSET {"sql", "file"}, emptyDir : BOOLEAN,
          mountsDefined : BOOLEAN, tagged : BOOLEAN, labels : LabelSets,
          service : ServiceNames, refs : SUBSET Secrets,
          annotations : (SUBSET Annotations) \cup {NoMap},
          serviceAnnotations : SUBSET Annotations]
Workloads == {"Deployment", "StatefulSet"}
Children == Workloads \cup {"ConfigMap"} \cup ServiceNames
EnvironmentMoves == {"edit", "secret", "tamper", "unlabel", "fault", "restart"}

ASSUME SpecsAssumption == Specs \subseteq Spec_ /\ Specs # {} /\ LegacySpecs \subseteq Specs
ASSUME BudgetsAssumption == Budgets \subseteq [EnvironmentMoves -> Nat]
ASSUME NoMapAssumption == \A a \in SUBSET Annotations : a # NoMap
ASSUME NamesAssumption == ServiceNames \cap (Workloads \cup {"ConfigMap"}) = {}

VARIABLES
    live,           \* the Perses object of the API server
    kids,           \* the children of the API server
    version,        \* resourceVersion of each secret; 0: missing
    cache,          \* the Perses object of the informer cache
    pdirty,         \* the object has an undelivered event: the cached
                    \* resourceVersion is not the current one
    kcache,         \* the children of the informer cache
    kdirty,         \* children with an undelivered event
    sdirty,         \* secrets with an undelivered event
    queued,         \* the key is in the work queue
    work,           \* the reconcile worker
    current,        \* the resourceVersion of the worker's copy is the current one
    tracked,        \* ReconciliationTracker and Metrics: state of the key
    gauge,          \* Metrics: the instance is counted
    budget          \* what is left of the scenario's moves

clusterVars == <<live, kids, version>>
watchVars == <<cache, pdirty, kcache, kdirty, sdirty>>
objectVars == <<live, pdirty, current>>
workVars == <<queued, work, current, tracked, gauge>>
vars == <<clusterVars, watchVars, workVars, budget>>

NoVersions == [s \in Secrets |-> 0]
NoStatus == [available |-> "none", degraded |-> "none", provisioning |-> NoVersions]
NoPerses == [exists |-> FALSE, uid |-> 0, deleting |-> FALSE, finalizer |-> FALSE,
             spec |-> CHOOSE s \in Specs : TRUE, status |-> NoStatus]

\* The worker's locals: the object of its context and the versions read.
IdleWork == [pc |-> "idle", perses |-> NoPerses, versions |-> NoVersions]

-----------------------------------------------------------------------------
(***************************************************************************)
(* What the children are made of.                                          *)
(***************************************************************************)
RequiresDeployment(s) ==
    "sql" \in s.database \/ ("file" \in s.database /\ s.emptyDir)
RequiresStatefulSet(s) ==
    "file" \in s.database /\ ~ s.emptyDir

MapOf(annotations) == IF annotations = NoMap THEN {} ELSE annotations

Child(p, annotations, versions) ==
    [owner |-> p.uid, managed |-> TRUE, content |-> p.spec.content, labels |-> p.spec.labels,
     annotations |-> annotations, provisioning |-> versions]

\* Faulty variant: the Service gets the annotations every child gets.
createPersesServicePlain(p) == Child(p, MapOf(p.spec.annotations), NoVersions)

createPersesService(p) ==
    Child(p, MapOf(p.spec.annotations) \cup p.spec.serviceAnnotations, NoVersions)
createPersesConfigMap(p) == Child(p, MapOf(p.spec.annotations), NoVersions)
\* With the hash of the versions in the status of the context's object.
createPersesDeployment(p) ==
    Child(p, MapOf(p.spec.annotations), p.status.provisioning)
createPersesStatefulSet(p) ==
    Child(p, MapOf(p.spec.annotations), p.status.provisioning)

\* createPersesService copies the annotations of the service into the map of
\* spec.metadata.annotations itself, if there is one.
AfterService(p) ==
    IF p.spec.annotations = NoMap
       THEN p
       ELSE [p EXCEPT !.spec.annotations = @ \cup p.spec.serviceAnnotations]

\* serviceNeedsUpdate, configMapNeedsUpdate and the comparison of specs: the
\* owner is no part of it.
SameChild(found, desired) == [found EXCEPT !.owner = desired.owner] = desired

-----------------------------------------------------------------------------
(***************************************************************************)
(* The environment.                                                        *)
(***************************************************************************)
Spend(move) ==
    /\ budget[move] > 0
    /\ budget' = [budget EXCEPT ![move] = @ - 1]

\* Every write of the object is an event and outdates the copies of it.
PutPerses(p) ==
    /\ live' = p
    /\ pdirty' = TRUE
    /\ current' = FALSE

CreatePerses(s) ==
    /\ Spend("edit")
    /\ ~ live.exists
    /\ PutPerses([NoPerses EXCEPT !.exists = TRUE, !.uid = live.uid + 1, !.spec = s])
    /\ UNCHANGED <<kids, version, cache, kcache, kdirty, sdirty, queued, work, tracked, gauge>>

EditPerses(s) ==
    /\ Spend("edit")
    /\ live.exists
    /\ live.spec # s
    /\ PutPerses([live EXCEPT !.spec = s])
    /\ UNCHANGED <<kids, version, cache, kcache, kdirty, sdirty, queued, work, tracked, gauge>>

\* In the foreground, or with the legacy finalizer, the object stays a while.
DeletePerses ==
    /\ Spend("edit")
    /\ live.exists
    /\ ~ live.deleting
    /\ \/ PutPerses([live EXCEPT !.deleting = TRUE])
       \/ ~ live.finalizer /\ PutPerses([NoPerses EXCEPT !.uid = live.uid])
    /\ UNCHANGED <<kids, version, cache, kcache, kdirty, sdirty, queued, work, tracked, gauge>>

FinishDeletion ==
    /\ live.exists
    /\ live.deleting
    /\ ~ live.finalizer
    /\ PutPerses([NoPerses EXCEPT !.uid = live.uid])
    /\ UNCHANGED <<kids, version, cache, kcache, kdirty, sdirty, queued, work, tracked, gauge, budget>>

Garbage(c) ==
    kids[c] # Absent /\ (~ live.exists \/ kids[c].owner # live.uid)

\* A child changes behind the controller's back.
ChangeChild(c, child) ==
    /\ kids' = [kids EXCEPT ![c] = child]
    /\ kdirty' = kdirty \cup {c}
    /\ UNCHANGED <<live, version, cache, pdirty, kcache, sdirty, workVars>>

GarbageCollect(c) ==
    /\ Garbage(c)
    /\ ChangeChild(c, Absent)
    /\ UNCHANGED budget

TamperChild(c) ==
    /\ Spend("tamper")
    /\ kids[c] # Absent
    /\ \/ ChangeChild(c, Absent)
       \/ \E v \in Contents : ChangeChild(c, [kids[c] EXCEPT !.content = v])

UnlabelChild(c) ==
    /\ Spend("unlabel")
    /\ kids[c] # Absent
    /\ kids[c].managed
    /\ ChangeChild(c, [kids[c] EXCEPT !.managed = FALSE])

ChangeSecret(s) ==
    /\ Spend("secret")
    /\ version' = [version EXCEPT ![s] = @ + 1]
    /\ sdirty' = sdirty \cup {s}
    /\ UNCHANGED <<live, kids, cache, pdirty, kcache, kdirty, workVars>>

-----------------------------------------------------------------------------
(***************************************************************************)
(* Watches: of the object, of what it owns, and of labelled secrets.       *)
(***************************************************************************)

\* Faulty variant: a status change is no event (GenerationChangedPredicate).
ObservePersesSpec ==
    /\ pdirty
    /\ pdirty' = FALSE
    /\ cache' = live
    /\ queued' = (queued \/ [cache EXCEPT !.status = live.status] # live)
    /\ UNCHANGED <<clusterVars, kcache, kdirty, sdirty, work, current, tracked, gauge, budget>>

ObservePerses ==
    /\ pdirty
    /\ pdirty' = FALSE
    /\ cache' = live
    /\ queued' = TRUE
    /\ UNCHANGED <<clusterVars, kcache, kdirty, sdirty, work, current, tracked, gauge, budget>>

\* The cache holds the children with the managed-by label only; one that loses
\* the label is deleted as far as the controller can tell.
Cached(c) == IF kids[c] # Absent /\ kids[c].managed THEN kids[c] ELSE Absent

\* Faulty variant: the children are cached but not owned.
ObserveChildUnowned(c) ==
    /\ c \in kdirty
    /\ kcache' = [kcache EXCEPT ![c] = Cached(c)]
    /\ kdirty' = kdirty \ {c}
    /\ UNCHANGED <<clusterVars, cache, pdirty, sdirty, workVars, budget>>

ObserveChild(c) ==
    /\ c \in kdirty
    /\ kcache' = [kcache EXCEPT ![c] = Cached(c)]
    /\ kdirty' = kdirty \ {c}
    /\ queued' = TRUE
    /\ UNCHANGED <<clusterVars, cache, pdirty, sdirty, work, current, tracked, gauge, budget>>

\* The Perses objects of the cache that refer to the secret.
findPersesForSecret(s) == cache.exists /\ s \in cache.spec.refs

ObserveSecret(s) ==
    /\ s \in sdirty
    /\ sdirty' = sdirty \ {s}
    /\ queued' = (queued \/ findPersesForSecret(s))
    /\ UNCHANGED <<clusterVars, cache, pdirty, kcache, kdirty, work, current, tracked, gauge, budget>>

Restart ==
    /\ Spend("restart")
    /\ cache' = live
    /\ pdirty' = FALSE
    /\ kcache' = [c \in Children |-> Cached(c)]
    /\ kdirty' = {}
    /\ sdirty' = {}
    /\ queued' = live.exists
    /\ work' = IdleWork
    /\ current' = FALSE
    /\ tracked' = "none"
    /\ gauge' = FALSE
    /\ UNCHANGED clusterVars

-----------------------------------------------------------------------------
(***************************************************************************)
(* The reconcile worker.                                                   *)
(***************************************************************************)
Goto(pc) == work' = [work EXCEPT !.pc = pc] /\ UNCHANGED <<queued, tracked>>

\* Faulty variant: the error is reported but not returned.
EndFailedQuietly == work' = IdleWork /\ tracked' = "failed" /\ UNCHANGED queued

\* An error brings the request back.
EndFailed == work' = IdleWork /\ tracked' = "failed" /\ queued' = TRUE

\* Anything else does not: Reconcile drops the RequeueAfter of a sub-reconciler.
EndOK == work' = IdleWork /\ tracked' = "ok" /\ UNCHANGED queued

\* Faulty variant: ends the request of a deleted object like any other.
ReconcileNeverForgets ==
    /\ work.pc = "idle"
    /\ queued
    /\ queued' = FALSE
    /\ work' = IF cache.exists
                  THEN [IdleWork EXCEPT !.pc = "handleDelete", !.perses = cache]
                  ELSE IdleWork
    /\ current' = ~ pdirty
    /\ gauge' = (gauge \/ (cache.exists /\ ~ cache.deleting))
    /\ UNCHANGED <<clusterVars, watchVars, tracked, budget>>

Reconcile ==
    /\ work.pc = "idle"
    /\ queued
    /\ queued' = FALSE
    /\ IF cache.exists
          THEN /\ work' = [IdleWork EXCEPT !.pc = "handleDelete", !.perses = cache]
               /\ current' = ~ pdirty
               /\ gauge' = (gauge \/ ~ cache.deleting)
               /\ UNCHANGED tracked
          ELSE /\ tracked' = "none"
               /\ gauge' = FALSE
               /\ UNCHANGED <<work, current>>
    /\ UNCHANGED <<clusterVars, watchVars, budget>>

\* An update of the object from a copy of it: written if the resourceVersion
\* of the copy is the current one (what changes nothing is no event), else a
\* conflict; a deleted object is not found.
WritePerses(upToDate, p) ==
    /\ live.exists
    /\ upToDate
    /\ IF p = live THEN UNCHANGED objectVars ELSE PutPerses(p)
    /\ UNCHANGED budget
WriteFindsNone == ~ live.exists /\ UNCHANGED <<objectVars, budget>>
WriteFails(upToDate) ==
    /\ (live.exists /\ ~ upToDate /\ UNCHANGED budget) \/ Spend("fault")
    /\ UNCHANGED objectVars

\* Faulty variant: an update that does not mind the resourceVersion.
StatusWrittenBlindly(status) ==
    /\ cache.exists
    /\ status # cache.status
    /\ WritePerses(TRUE, [live EXCEPT !.status = status])

\* updatePersesStatus: every attempt starts from a copy of the cache, so
\* conflicts end once the cache has caught up; a status that would not change
\* is not sent, whether the copy is current or not.
StatusWritten(status) ==
    /\ cache.exists
    /\ status # cache.status
    /\ WritePerses(~ pdirty, [live EXCEPT !.status = status])
StatusUnchanged(status) ==
    cache.exists /\ status = cache.status /\ UNCHANGED <<objectVars, budget>>
StatusGone(status) ==
    /\ ~ cache.exists \/ (status # cache.status /\ ~ live.exists)
    /\ UNCHANGED <<objectVars, budget>>
StatusFails(status) ==
    cache.exists /\ status # cache.status /\ WriteFails(~ pdirty)

\* Faulty variant: leaves the finalizer to somebody else.
handleDeleteKeepingFinalizer ==
    /\ work.pc = "handleDelete"
    /\ IF work.perses.deleting THEN EndOK ELSE Goto("setStatusToUnknown")
    /\ UNCHANGED <<objectVars, budget>>
    /\ UNCHANGED <<kids, version, cache, kcache, kdirty, sdirty, gauge>>

handleDelete ==
    LET p == work.perses IN
    /\ work.pc = "handleDelete"
    /\ \/ ~ p.deleting /\ Goto("setStatusToUnknown") /\ UNCHANGED <<objectVars, budget>>
       \/ p.deleting /\ ~ p.finalizer /\ EndOK /\ UNCHANGED <<objectVars, budget>>
       \/ /\ p.deleting /\ p.finalizer /\ cache.exists
          /\ WritePerses(~ pdirty, [live EXCEPT !.finalizer = FALSE])
          /\ EndOK
       \/ /\ p.deleting /\ p.finalizer
          /\ \/ ~ cache.exists /\ UNCHANGED <<objectVars, budget>>
             \/ cache.exists /\ (WriteFindsNone \/ WriteFails(~ pdirty))
          /\ EndFailed
    /\ UNCHANGED <<kids, version, cache, kcache, kdirty, sdirty, gauge>>

HasNoConditions(status) == status.available = "none" /\ status.degraded = "none"

\* Faulty variant: both conditions are set, to a state Degraded does not have.
BothUnknownIfNew(status) ==
    IF HasNoConditions(status)
       THEN [status EXCEPT !.available = "Unknown", !.degraded = "Unknown"]
       ELSE status

\* An object without conditions gets its first one.
UnknownIfNew(status) ==
    IF HasNoConditions(status) THEN [status EXCEPT !.available = "Unknown"] ELSE status

\* Nothing was written: the pass goes on, or halts if an attempt before this one
\* met a conflict with a copy that had no conditions, for needsRequeue stays set.
NothingSet ==
    \/ Goto("removeFinalizer")
    \/ HasNoConditions(work.perses.status) /\ EndOK

\* Halts once it has written; goes on when the cache has lost the object,
\* for it looks at the error of updatePersesStatus only.
setStatusToUnknown ==
    LET status == UnknownIfNew(cache.status) IN
    /\ work.pc = "setStatusToUnknown"
    /\ \/ StatusWritten(status) /\ EndOK
       \/ StatusUnchanged(status) /\ NothingSet
       \/ StatusGone(status) /\ IF cache.exists THEN EndOK ELSE NothingSet
       \/ StatusFails(status) /\ EndFailed
    /\ UNCHANGED <<kids, version, cache, kcache, kdirty, sdirty, gauge>>

\* The object of the context becomes the one that was written.
removeFinalizer ==
    /\ work.pc = "removeFinalizer"
    /\ \/ ~ work.perses.finalizer /\ Goto("validateVolumes") /\ UNCHANGED <<objectVars, budget>>
       \/ /\ work.perses.finalizer /\ cache.exists /\ cache.finalizer
          /\ live.exists /\ ~ pdirty
          /\ live' = [live EXCEPT !.finalizer = FALSE]
          /\ pdirty' = TRUE
          /\ current' = TRUE
          /\ work' = [work EXCEPT !.pc = "validateVolumes", !.perses = live']
          /\ UNCHANGED <<queued, tracked, budget>>
       \/ /\ work.perses.finalizer
          /\ \/ ~ cache.exists /\ UNCHANGED <<objectVars, budget>>
             \/ cache.exists /\ cache.finalizer /\ WriteFindsNone
          /\ EndOK
       \/ /\ work.perses.finalizer /\ cache.exists
          /\ \/ ~ cache.finalizer /\ UNCHANGED <<objectVars, budget>>
             \/ cache.finalizer /\ WriteFails(~ pdirty)
          /\ EndFailed
    /\ UNCHANGED <<kids, version, cache, kcache, kdirty, sdirty, gauge>>

validateVolumes ==
    LET status == [cache.status EXCEPT !.degraded = "True"] IN
    /\ work.pc = "validateVolumes"
    /\ \/ /\ work.perses.spec.mountsDefined
          /\ Goto("reconcileProvisioning")
          /\ UNCHANGED <<objectVars, budget>>
       \/ /\ ~ work.perses.spec.mountsDefined
          /\ \/ StatusWritten(status)
             \/ StatusUnchanged(status)
             \/ StatusGone(status)
             \/ StatusFails(status)
          /\ EndFailed
    /\ UNCHANGED <<kids, version, cache, kcache, kdirty, sdirty, gauge>>

\* reconcileProvisioning reads each secret once, from the API server ...
readSecret(s) ==
    /\ work.pc = "reconcileProvisioning"
    /\ s \in work.perses.spec.refs
    /\ work.versions[s] = 0
    /\ \/ /\ version[s] # 0
          /\ work' = [work EXCEPT !.versions[s] = version[s]]
          /\ UNCHANGED <<queued, tracked, budget>>
       \/ /\ (version[s] = 0 /\ UNCHANGED budget) \/ Spend("fault")
          /\ EndFailed
    /\ UNCHANGED <<clusterVars, watchVars, current, gauge>>

\* ... and records the versions.  The object of the context keeps the old
\* ones, and so does the workload this pass writes.
reconcileProvisioning ==
    LET status == [cache.status EXCEPT !.provisioning = work.versions]
        refs == work.perses.spec.refs IN
    /\ work.pc = "reconcileProvisioning"
    /\ \A s \in refs : work.versions[s] # 0
    /\ \/ /\ refs # {} /\ work.versions = work.perses.status.provisioning
          /\ Goto("reconcileService")
          /\ UNCHANGED <<objectVars, budget>>
       \/ /\ refs = {} \/ work.versions # work.perses.status.provisioning
          /\ \/ (StatusWritten(status) \/ StatusUnchanged(status)) /\ Goto("reconcileService")
             \/ StatusGone(status) /\ EndOK
             \/ StatusFails(status) /\ EndFailed
    /\ UNCHANGED <<kids, version, cache, kcache, kdirty, sdirty, gauge>>

-----------------------------------------------------------------------------
(***************************************************************************)
(* The children: looked for in the cache, created when not found there,    *)
(* else updated when different.  The dry run before the update is refused  *)
(* when the update would be; a change of the child between the two is a    *)
(* conflict, one of the failures of ApplyFails.                            *)
(***************************************************************************)
CreateChild(c, child) ==
    /\ kcache[c] = Absent
    /\ kids[c] = Absent
    /\ kids' = [kids EXCEPT ![c] = child]
    /\ kdirty' = kdirty \cup {c}
    /\ UNCHANGED budget

\* The selector of a workload, made of the labels, cannot be changed.
Refused(c, child) == c \in Workloads /\ kids[c].labels # child.labels

UpdateChild(c, child) ==
    /\ kcache[c] # Absent
    /\ kids[c] # Absent
    /\ ~ Refused(c, child)
    /\ IF SameChild(kcache[c], child)
          THEN UNCHANGED <<kids, kdirty>>
          ELSE /\ kids' = [kids EXCEPT ![c] = child]
               /\ kdirty' = kdirty \cup {c}
    /\ UNCHANGED budget

\* AlreadyExists, NotFound, Invalid, or any other failure.
ApplyFails(c, child) ==
    /\ \/ (kcache[c] = Absent) # (kids[c] = Absent) /\ UNCHANGED budget
       \/ kcache[c] # Absent /\ kids[c] # Absent /\ Refused(c, child) /\ UNCHANGED budget
       \/ Spend("fault")
    /\ UNCHANGED <<kids, kdirty>>

reconcileService ==
    LET p == work.perses
        child == createPersesService(p) IN
    /\ work.pc = "reconcileService"
    /\ \/ /\ CreateChild(p.spec.service, child) \/ UpdateChild(p.spec.service, child)
          /\ work' = [work EXCEPT !.pc = "reconcileConfigMap", !.perses = AfterService(p)]
          /\ UNCHANGED <<queued, tracked>>
       \/ ApplyFails(p.spec.service, child) /\ EndFailed
    /\ UNCHANGED <<objectVars, version, cache, kcache, sdirty, gauge>>

reconcileConfigMap ==
    LET child == createPersesConfigMap(work.perses) IN
    /\ work.pc = "reconcileConfigMap"
    /\ \/ /\ CreateChild("ConfigMap", child) \/ UpdateChild("ConfigMap", child)
          /\ Goto("reconcileDeployment")
       \/ ApplyFails("ConfigMap", child) /\ EndFailed
    /\ UNCHANGED <<objectVars, version, cache, kcache, sdirty, gauge>>

\* A workload the spec does not call for is deleted where the cache has one.
Unneeded(w) ==
    \/ kcache[w] = Absent /\ UNCHANGED <<kids, kdirty, budget>>
    \/ /\ kcache[w] # Absent
       /\ kids[w] # Absent
       /\ kids' = [kids EXCEPT ![w] = Absent]
       /\ kdirty' = kdirty \cup {w}
       /\ UNCHANGED budget
UnneededFails(w) ==
    /\ kcache[w] # Absent
    /\ (kids[w] = Absent /\ UNCHANGED budget) \/ Spend("fault")
    /\ UNCHANGED <<kids, kdirty>>

\* The image has no tag: the workload cannot be made.  When there is none yet
\* the status says so, from the copy of the context.
Unmakeable(w) ==
    LET p == work.perses IN
    /\ IF kcache[w] = Absent
          THEN \/ WritePerses(current, [live EXCEPT !.status = [p.status EXCEPT !.available = "False"]])
               \/ WriteFindsNone
               \/ WriteFails(current)
          ELSE UNCHANGED <<objectVars, budget>>
    /\ UNCHANGED <<kids, kdirty>>

\* Faulty variant: leaves the Deployment of an earlier spec alone.
reconcileDeploymentOnly ==
    LET s == work.perses.spec
        child == createPersesDeployment(work.perses) IN
    /\ work.pc = "reconcileDeployment"
    /\ \/ /\ RequiresDeployment(s)
          /\ CreateChild("Deployment", child) \/ UpdateChild("Deployment", child)
       \/ ~ RequiresDeployment(s) /\ UNCHANGED <<kids, kdirty, budget>>
    /\ Goto("reconcileStatefulSet")
    /\ UNCHANGED <<objectVars, version, cache, kcache, sdirty, gauge>>

reconcileDeployment ==
    LET s == work.perses.spec
        child == createPersesDeployment(work.perses) IN
    /\ work.pc = "reconcileDeployment"
    /\ \/ ~ RequiresDeployment(s) /\ Unneeded("Deployment") /\ Goto("reconcileStatefulSet")
                                  /\ UNCHANGED objectVars
       \/ ~ RequiresDeployment(s) /\ UnneededFails("Deployment") /\ EndFailed /\ UNCHANGED objectVars
       \/ RequiresDeployment(s) /\ ~ s.tagged /\ Unmakeable("Deployment") /\ EndFailed
       \/ /\ RequiresDeployment(s) /\ s.tagged
          /\ CreateChild("Deployment", child) \/ UpdateChild("Deployment", child)
          /\ Goto("reconcileStatefulSet")
          /\ UNCHANGED objectVars
       \/ /\ RequiresDeployment(s) /\ s.tagged
          /\ ApplyFails("Deployment", child) /\ EndFailed
          /\ UNCHANGED objectVars
    /\ UNCHANGED <<version, cache, kcache, sdirty, gauge>>

\* A StatefulSet that has just been created ends the pass.
reconcileStatefulSet ==
    LET s == work.perses.spec
        child == createPersesStatefulSet(work.perses) IN
    /\ work.pc = "reconcileStatefulSet"
    /\ \/ ~ RequiresStatefulSet(s) /\ Unneeded("StatefulSet") /\ Goto("setStatusToComplete")
                                   /\ UNCHANGED objectVars
       \/ ~ RequiresStatefulSet(s) /\ UnneededFails("StatefulSet") /\ EndFailed /\ UNCHANGED objectVars
       \/ RequiresStatefulSet(s) /\ ~ s.tagged /\ Unmakeable("StatefulSet") /\ EndFailed
       \/ /\ RequiresStatefulSet(s) /\ s.tagged
          /\ \/ CreateChild("StatefulSet", child) /\ EndOK
             \/ UpdateChild("StatefulSet", child) /\ Goto("setStatusToComplete")
             \/ ApplyFails("StatefulSet", child) /\ EndFailed
          /\ UNCHANGED objectVars
    /\ UNCHANGED <<version, cache, kcache, sdirty, gauge>>

setStatusToComplete ==
    LET status == [cache.status EXCEPT !.available = "True", !.degraded = "False"] IN
    /\ work.pc = "setStatusToComplete"
    /\ \/ (StatusWritten(status) \/ StatusUnchanged(status) \/ StatusGone(status)) /\ EndOK
       \/ StatusFails(status) /\ EndFailed
    /\ UNCHANGED <<kids, version, cache, kcache, kdirty, sdirty, gauge>>

-----------------------------------------------------------------------------
\* An object an earlier version of the operator left has the finalizer.
Init ==
    /\ live \in {NoPerses} \cup
                {[NoPerses EXCEPT !.exists = TRUE, !.uid = 1, !.finalizer = TRUE, !.spec = s]
                    : s \in LegacySpecs}
    /\ kids = [c \in Children |-> Absent]
    /\ version \in [Secrets -> {0, 1}]
    /\ cache = live
    /\ pdirty = FALSE
    /\ kcache = kids
    /\ kdirty = {}
    /\ sdirty = {}
    /\ queued = live.exists
    /\ work = IdleWork
    /\ current = FALSE
    /\ tracked = "none"
    /\ gauge = FALSE
    /\ budget \in Budgets

UserStep ==
    \/ \E s \in Specs : CreatePerses(s) \/ EditPerses(s)
    \/ DeletePerses
    \/ \E c \in Children : TamperChild(c) \/ UnlabelChild(c)
    \/ \E s \in Secrets : ChangeSecret(s)

ClusterStep == FinishDeletion \/ \E c \in Children : GarbageCollect(c)

WatchStep ==
    \/ ObservePerses
    \/ \E c \in Children : ObserveChild(c)
    \/ \E s \in Secrets : ObserveSecret(s)

WorkerStep ==
    \/ Reconcile
    \/ handleDelete
    \/ setStatusToUnknown
    \/ removeFinalizer
    \/ validateVolumes
    \/ \E s \in Secrets : readSecret(s)
    \/ reconcileProvisioning
    \/ reconcileService
    \/ reconcileConfigMap
    \/ reconcileDeployment
    \/ reconcileStatefulSet
    \/ setStatusToComplete

Next == UserStep \/ ClusterStep \/ WatchStep \/ Restart \/ WorkerStep

Spec == Init /\ [][Next]_vars

\* The worker runs, watches deliver, the API server and its garbage collector
\* do their work.  Nobody has to edit, fail or restart anything.
Fairness ==
    /\ WF_vars(WorkerStep)
    /\ WF_vars(ClusterStep)
    /\ WF_vars(ObservePerses)
    /\ WF_vars(\E c \in Children : ObserveChild(c))
    /\ WF_vars(\E s \in Secrets : ObserveSecret(s))
FairSpec == Spec /\ Fairness

-----------------------------------------------------------------------------
(***************************************************************************)
(* Properties.                                                             *)
(***************************************************************************)
Versions == [Secrets -> Nat]
Status == [available : {"none", "Unknown", "True", "False"},
           degraded : {"none", "True", "False"}, provisioning : Versions]
Perses == [exists : BOOLEAN, uid : Nat, deleting : BOOLEAN, finalizer : BOOLEAN,
           spec : Spec_, status : Status]
ChildRecord == [owner : Nat, managed : BOOLEAN, content : Contents, labels : LabelSets,
                annotations : SUBSET Annotations, provisioning : Versions]
Phases == {"idle", "handleDelete", "setStatusToUnknown", "removeFinalizer", "validateVolumes",
           "reconcileProvisioning", "reconcileService", "reconcileConfigMap",
           "reconcileDeployment", "reconcileStatefulSet", "setStatusToComplete"}
Work == [pc : Phases, perses : Perses, versions : Versions]

\* Type invariant of the API server's objects, the caches and the worker.
TypeOK ==
    /\ live \in Perses /\ cache \in Perses
    /\ kids \in [Children -> ChildRecord \cup {Absent}]
    /\ kcache \in [Children -> ChildRecord \cup {Absent}]
    /\ version \in [Secrets -> Nat]
    /\ kdirty \subseteq Children /\ sdirty \subseteq Secrets
    /\ pdirty \in BOOLEAN /\ queued \in BOOLEAN /\ current \in BOOLEAN
    /\ work \in Work
    /\ tracked \in {"none", "ok", "failed"}
    /\ gauge \in BOOLEAN
    /\ budget \in [EnvironmentMoves -> Nat]

\* Nothing is under way in the cluster or in the operator.
Quiet ==
    /\ work.pc = "idle" /\ ~ queued
    /\ ~ pdirty /\ kdirty = {} /\ sdirty = {}
    /\ ~ (live.exists /\ live.deleting)
    /\ \A c \in Children : ~ Garbage(c)
Settled == Quiet /\ live.exists

Required == {w \in Workloads : \/ w = "Deployment" /\ RequiresDeployment(live.spec)
                               \/ w = "StatefulSet" /\ RequiresStatefulSet(live.spec)}

\* The versions of the secrets the spec refers to.
InUse == [s \in Secrets |-> IF s \in live.spec.refs THEN version[s] ELSE 0]

\* The child in the API server is made from the current spec, is owned by the
\* current incarnation of the object and has the label of the operator.
Current(c) ==
    /\ kids[c] # Absent
    /\ kids[c].managed
    /\ kids[c].owner = live.uid
    /\ kids[c].content = live.spec.content
    /\ kids[c].labels = live.spec.labels

\* The controller never comes to rest with a child that is missing, outdated,
\* edited by hand, stripped of the label that keeps it in the cache or owned by
\* a deleted incarnation of the object, although it compares with cached children,
\* never compares owners, and its passes may run on old copies of the object.
SettledMeansDeployed ==
    Settled => \A c \in {live.spec.service, "ConfigMap"} \cup Required : Current(c)

\* Nor with the workload of an earlier storage configuration still running
\* beside the one the spec calls for, unless somebody hid it from the controller
\* by taking its label.
SettledMeansOneWorkload ==
    Settled => \A w \in Workloads \ Required : kids[w] # Absent => ~ kids[w].managed

\* Nor with pods that were started with other versions of the provisioning
\* secrets: the pass that records a version writes the hash of the one before,
\* so this takes the event of its own status write.
SettledMeansProvisioned ==
    Settled => \A w \in Required :
        kids[w] # Absent /\ kids[w].provisioning = InUse

\* Nor with annotations that are missing or come from anywhere but the spec: the
\* Service has its own beside those of spec.metadata, and what the map shared by
\* the builders carries over to the other children is never more than that.
SettledMeansAnnotated ==
    Settled =>
        LET common == MapOf(live.spec.annotations)
            own == common \cup live.spec.serviceAnnotations
        IN  /\ kids[live.spec.service].annotations = own
            /\ \A c \in {"ConfigMap"} \cup Required :
                  common \subseteq kids[c].annotations /\ kids[c].annotations \subseteq own

\* Nor without having said so, although the pass that sets the first
\* condition and the one that creates a StatefulSet stop early and their
\* RequeueAfter is dropped.
SettledMeansAvailable ==
    Settled => live.status.available = "True" /\ live.status.degraded = "False"

\* A deleted object leaves nothing: no child, no tracked state, no gauge; also
\* when a pass was still creating children for it.
SettledMeansGone ==
    (Quiet /\ ~ live.exists) =>
        /\ \A c \in Children : kids[c] = Absent
        /\ tracked = "none" /\ ~ gauge

\* Conditions written from an old copy never replace newer ones: once an
\* object has been Available it is never Unknown again.
ConditionsNeverReset ==
    [][(live.uid = live'.uid /\ live.status.available \in {"True", "False"})
          => live'.status.available # "Unknown"]_vars

Reconcilable(s) ==
    s.mountsDefined /\ s.tagged /\ \A r \in s.refs : version[r] # 0

\* Nobody took the label from a child: the creation of one that is there but not
\* in the cache fails for ever.
Labelled == \A c \in Children : kids[c] # Absent => kids[c].managed

\* With finitely many edits, faults, restarts and changes of the children, an
\* object that can be reconciled ends up deployed, provisioned and Available for
\* good.
Converges ==
    <>[]((live.exists /\ ~ live.deleting /\ Reconcilable(live.spec) /\ Labelled) =>
            /\ \A c \in {live.spec.service, "ConfigMap"} \cup Required : Current(c)
            /\ \A w \in Required : kids[w].provisioning = InUse
            /\ live.status.available = "True")

\* An object with the legacy finalizer does not get stuck in its deletion.
DeletionFinishes == (live.exists /\ live.deleting) ~> ~ (live.exists /\ live.deleting)

-----------------------------------------------------------------------------
(***************************************************************************)
(* The inductive invariant.  Whatever a pass has to write makes another    *)
(* pass due.  So it is enough to say what the steps of a pass that finds   *)
(* nothing to write, and has none due after it, have found so far.         *)
(***************************************************************************)

\* An event or a request is waiting that brings another pass.
Due ==
    \/ queued \/ pdirty \/ kdirty # {}
    \/ live.exists /\ sdirty \cap live.spec.refs # {}

\* What the informer caches hold.
CachesFollow ==
    /\ ~ pdirty => cache = live
    /\ \A c \in Children \ kdirty : kcache[c] = Cached(c)

\* The phases after each sub-reconciler, and rest.
StatefulSetDone == {"setStatusToComplete", "idle"}
DeploymentDone == {"reconcileStatefulSet"} \cup StatefulSetDone
ConfigMapDone == {"reconcileDeployment"} \cup DeploymentDone
ServiceDone == {"reconcileConfigMap"} \cup ConfigMapDone
ProvisioningDone == {"reconcileService"} \cup ServiceDone

\* The pass works with the object as it is, but for its annotations.
PassIsCurrent ==
    ~ Due /\ work.pc # "idle" =>
        /\ live.exists
        /\ work.perses = IF work.pc \in ServiceDone THEN AfterService(live) ELSE live
        /\ work.pc # "handleDelete" => ~ live.deleting

\* The versions it has read, if any, are those of the secrets.
VersionsAreCurrent ==
    ~ Due /\ work.pc \notin ProvisioningDone =>
        \A s \in Secrets : \/ work.versions[s] = 0
                           \/ s \in live.spec.refs /\ work.versions[s] = version[s]

\* The child is as it should be, but perhaps for its owner.
Holds(c, child) == kids[c] # Absent /\ kids[c].managed /\ SameChild(kids[c], child)

\* The workload the spec calls for is, any other one is gone or out of sight.
WorkloadHolds(w, required, child) ==
    IF required THEN Holds(w, child) ELSE kids[w] # Absent => ~ kids[w].managed

\* What the sub-reconcilers have seen to before this phase.
Behind(pc) ==
    LET p == AfterService(live) IN
    /\ pc \in ProvisioningDone => live.status.provisioning = InUse
    /\ pc \in ServiceDone => Holds(live.spec.service, createPersesService(live))
    /\ pc \in ConfigMapDone => Holds("ConfigMap", createPersesConfigMap(p))
    /\ pc \in DeploymentDone =>
          WorkloadHolds("Deployment", RequiresDeployment(p.spec), createPersesDeployment(p))
    /\ pc \in StatefulSetDone =>
          WorkloadHolds("StatefulSet", RequiresStatefulSet(p.spec), createPersesStatefulSet(p))
    /\ pc = "idle" => live.status.available = "True" /\ live.status.degraded = "False"

\* The pass has what it has behind it, and so has an object at rest.
DoneSoFar == ~ Due /\ live.exists /\ ~ live.deleting => Behind(work.pc)

\* An object that is gone is forgotten.
GoneIsForgotten ==
    ~ Due /\ work.pc = "idle" /\ ~ live.exists => tracked = "none" /\ ~ gauge

\* The invariant the proofs rest on.
RolloutInv ==
    /\ TypeOK
    /\ CachesFollow
    /\ PassIsCurrent
    /\ VersionsAreCurrent
    /\ DoneSoFar
    /\ GoneIsForgotten

-----------------------------------------------------------------------------
(***************************************************************************)
(* What the API documentation says and the code does not do.               *)
(***************************************************************************)

\* api/v1alpha2/perses_types.go: "labels are key/value pairs attached to
\* pods", so the pods of createPersesDeployment and createPersesStatefulSet
\* end up with the labels of the spec, after an edit, too.
LabelsReachPods ==
    <>[]((live.exists /\ ~ live.deleting /\ Reconcilable(live.spec)) =>
            \A w \in Required : kids[w] # Absent /\ kids[w].labels = live.spec.labels)
=============================================================================
