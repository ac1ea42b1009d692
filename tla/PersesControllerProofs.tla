----------------------- MODULE PersesControllerProofs -----------------------
(***************************************************************************)
(* Proofs about the Perses controller: for any specs, labels, annotations, *)
(* names and secrets, and any number of edits, faults and restarts.        *)
(***************************************************************************)
EXTENDS PersesController, TLAPS

-----------------------------------------------------------------------------
(***************************************************************************)
(* Facts about the operators of the model.                                 *)
(***************************************************************************)

\* Nothing has a type, too.
LEMMA NoneFacts ==
    /\ NoVersions \in Versions /\ NoStatus \in Status
    /\ NoPerses \in Perses /\ ~ NoPerses.exists /\ NoPerses.status = NoStatus
    /\ IdleWork \in Work /\ IdleWork.pc = "idle" /\ IdleWork.perses = NoPerses
    /\ IdleWork.versions = NoVersions
<1>1. NoVersions \in Versions
  BY DEF NoVersions, Versions
<1>2. NoStatus \in Status
  BY <1>1 DEF NoStatus, Status
<1>3. PICK s \in Specs : s = CHOOSE x \in Specs : TRUE
  BY SpecsAssumption
<1>4. s \in Spec_
  BY SpecsAssumption
<1>5. NoPerses \in Perses /\ ~ NoPerses.exists /\ NoPerses.status = NoStatus
  BY <1>2, <1>3, <1>4 DEF NoPerses, Perses
<1>6. IdleWork \in Work /\ IdleWork.pc = "idle" /\ IdleWork.perses = NoPerses
      /\ IdleWork.versions = NoVersions
  BY <1>1, <1>5 DEF IdleWork, Work, Phases
<1> QED
  BY <1>1, <1>2, <1>5, <1>6

\* Spending a move keeps the type of the budget.
LEMMA SpendType ==
    ASSUME budget \in [EnvironmentMoves -> Nat], NEW move \in EnvironmentMoves, Spend(move)
    PROVE  budget' \in [EnvironmentMoves -> Nat]
  BY DEF Spend

\* The fields of the objects.
LEMMA PersesFacts ==
    ASSUME NEW p \in Perses
    PROVE  /\ p.exists \in BOOLEAN /\ p.deleting \in BOOLEAN /\ p.finalizer \in BOOLEAN
           /\ p.uid \in Nat /\ p.spec \in Spec_ /\ p.status \in Status
           /\ p.status.provisioning \in Versions
           /\ p.spec.service \in ServiceNames /\ p.spec.refs \subseteq Secrets
           /\ p.spec.annotations = NoMap \/ p.spec.annotations \subseteq Annotations
           /\ p.spec.serviceAnnotations \subseteq Annotations
           /\ p.spec.content \in Contents /\ p.spec.labels \in LabelSets
  BY DEF Perses, Spec_, Status

\* Changes of an object that are objects.
LEMMA PersesUpdates ==
    ASSUME NEW p \in Perses
    PROVE  /\ \A s \in Spec_ : [p EXCEPT !.spec = s] \in Perses
           /\ \A n \in Nat : [p EXCEPT !.uid = n] \in Perses
           /\ \A n \in Nat, s \in Spec_ : [p EXCEPT !.exists = TRUE, !.uid = n, !.spec = s] \in Perses
           /\ [p EXCEPT !.deleting = TRUE] \in Perses
           /\ [p EXCEPT !.finalizer = FALSE] \in Perses
           /\ \A s \in Status : [p EXCEPT !.status = s] \in Perses
           /\ \A n, s : [p EXCEPT !.exists = TRUE, !.uid = n, !.spec = s].uid = n
           /\ \A n : [p EXCEPT !.uid = n].status = p.status
           /\ [p EXCEPT !.deleting = TRUE].status = p.status
  BY DEF Perses

\* Changes of a status that are statuses.
LEMMA StatusUpdates ==
    ASSUME NEW s \in Status
    PROVE  /\ UnknownIfNew(s) \in Status
           /\ [s EXCEPT !.degraded = "True"] \in Status
           /\ [s EXCEPT !.available = "False"] \in Status
           /\ [s EXCEPT !.available = "True", !.degraded = "False"] \in Status
           /\ \A v \in Versions : [s EXCEPT !.provisioning = v] \in Status
           /\ [s EXCEPT !.degraded = "True"].available = s.available
           /\ [s EXCEPT !.available = "False"].available = "False"
           /\ [s EXCEPT !.available = "True", !.degraded = "False"].available = "True"
           /\ \A v \in Versions : [s EXCEPT !.provisioning = v].available = s.available
  BY DEF Status, UnknownIfNew

\* The annotations a pass carries over are those of the spec and the service.
LEMMA AfterServiceFacts ==
    ASSUME NEW p \in Perses
    PROVE  /\ AfterService(p) \in Perses
           /\ AfterService(p).exists = p.exists /\ AfterService(p).uid = p.uid
           /\ AfterService(p).deleting = p.deleting /\ AfterService(p).finalizer = p.finalizer
           /\ AfterService(p).status = p.status
           /\ AfterService(p).spec.content = p.spec.content
           /\ AfterService(p).spec.labels = p.spec.labels
           /\ AfterService(p).spec.database = p.spec.database
           /\ AfterService(p).spec.emptyDir = p.spec.emptyDir
           /\ AfterService(p).spec.tagged = p.spec.tagged
           /\ MapOf(AfterService(p).spec.annotations) =
                IF p.spec.annotations = NoMap THEN {}
                ELSE MapOf(p.spec.annotations) \cup p.spec.serviceAnnotations
<1>1. CASE p.spec.annotations = NoMap
  BY <1>1 DEF AfterService, MapOf
<1>2. CASE p.spec.annotations # NoMap
  <2>1. p.spec.annotations \subseteq Annotations /\ p.spec.serviceAnnotations \subseteq Annotations
    BY <1>2, PersesFacts
  <2> DEFINE a == p.spec.annotations \cup p.spec.serviceAnnotations
  <2>2. a \in SUBSET Annotations /\ a # NoMap
    BY <2>1, NoMapAssumption
  <2>3. AfterService(p) = [p EXCEPT !.spec.annotations = a]
    BY <1>2 DEF AfterService
  <2>4. MapOf(p.spec.annotations) = p.spec.annotations
    BY <1>2 DEF MapOf
  <2> HIDE DEF a
  <2>5. AfterService(p) \in Perses /\ AfterService(p).spec.annotations = a
    BY <2>2, <2>3 DEF Perses, Spec_
  <2>6. MapOf(AfterService(p).spec.annotations) = a
    BY <2>2, <2>5 DEF MapOf
  <2>7. /\ AfterService(p).exists = p.exists /\ AfterService(p).uid = p.uid
        /\ AfterService(p).deleting = p.deleting /\ AfterService(p).finalizer = p.finalizer
        /\ AfterService(p).status = p.status
        /\ AfterService(p).spec.content = p.spec.content
        /\ AfterService(p).spec.labels = p.spec.labels
        /\ AfterService(p).spec.database = p.spec.database
        /\ AfterService(p).spec.emptyDir = p.spec.emptyDir
        /\ AfterService(p).spec.tagged = p.spec.tagged
    BY <2>3 DEF Perses, Spec_
  <2> QED
    BY <1>2, <2>4, <2>5, <2>6, <2>7 DEF a
<1> QED
  BY <1>1, <1>2

\* What the builders make are children.
LEMMA ChildFacts ==
    ASSUME NEW p \in Perses
    PROVE  /\ createPersesService(p) \in ChildRecord
           /\ createPersesConfigMap(p) \in ChildRecord
           /\ createPersesDeployment(p) \in ChildRecord
           /\ createPersesStatefulSet(p) \in ChildRecord
<1>1. MapOf(p.spec.annotations) \subseteq Annotations
  BY PersesFacts DEF MapOf
<1>2. ASSUME NEW a \in SUBSET Annotations, NEW v \in Versions
      PROVE  Child(p, a, v) \in ChildRecord
  BY PersesFacts DEF Child, ChildRecord
<1> QED
  BY <1>1, <1>2, PersesFacts, NoneFacts DEF createPersesService, createPersesConfigMap,
     createPersesDeployment, createPersesStatefulSet

\* The names of the children.
LEMMA ChildNames ==
    /\ "Deployment" \in Children /\ "StatefulSet" \in Children /\ "ConfigMap" \in Children
    /\ ServiceNames \subseteq Children
  BY DEF Children, Workloads

-----------------------------------------------------------------------------
(***************************************************************************)
(* What the parts of a step do.                                            *)
(***************************************************************************)

\* The object is left alone, or written: that is an event, the object stays the
\* same incarnation, and a condition it has had does not become Unknown.
ObjectStep ==
    \/ UNCHANGED objectVars
    \/ /\ live' \in Perses /\ pdirty' = TRUE /\ current' \in BOOLEAN
       /\ live.status.available \in {"True", "False"} => live'.status.available # "Unknown"

\* The children are left alone, or one is written: that is an event, too.
ChildStep ==
    \/ UNCHANGED <<kids, kdirty>>
    \/ \E c \in Children, child \in ChildRecord \cup {Absent} :
          kids' = [kids EXCEPT ![c] = child] /\ kdirty' = kdirty \cup {c}

\* The pass ends, and is repeated if it failed, or goes on.
Ends == work' = IdleWork /\ tracked' \in {"ok", "failed"} /\ (queued' = TRUE \/ UNCHANGED queued)
Proceeds == work' \in Work /\ UNCHANGED <<queued, tracked>>

BudgetOK == budget \in [EnvironmentMoves -> Nat]

\* How passes end and go on.
LEMMA EndFacts ==
    /\ EndFailed => Ends /\ queued'
    /\ EndOK => Ends
    /\ \A pc \in Phases : work \in Work /\ Goto(pc) =>
          Proceeds /\ work'.pc = pc /\ work'.perses = work.perses /\ work'.versions = work.versions
  BY DEF EndFailed, EndOK, Ends, Goto, Proceeds, Work

\* The phases a pass can go to.
LEMMA PhaseFacts ==
    /\ "setStatusToUnknown" \in Phases /\ "removeFinalizer" \in Phases /\ "validateVolumes" \in Phases
    /\ "reconcileProvisioning" \in Phases /\ "reconcileService" \in Phases
    /\ "reconcileConfigMap" \in Phases /\ "reconcileDeployment" \in Phases
    /\ "reconcileStatefulSet" \in Phases /\ "setStatusToComplete" \in Phases
    /\ "handleDelete" \in Phases
  BY DEF Phases

\* The moves of the environment.
LEMMA MoveFacts ==
    /\ "edit" \in EnvironmentMoves /\ "secret" \in EnvironmentMoves /\ "tamper" \in EnvironmentMoves
    /\ "unlabel" \in EnvironmentMoves /\ "fault" \in EnvironmentMoves /\ "restart" \in EnvironmentMoves
  BY DEF EnvironmentMoves

\* An update of the object.
LEMMA WriteFacts ==
    ASSUME TypeOK, NEW upToDate, NEW p \in Perses,
           live.status.available \in {"True", "False"} => p.status.available # "Unknown",
           WritePerses(upToDate, p) \/ WriteFindsNone \/ WriteFails(upToDate)
    PROVE  ObjectStep /\ BudgetOK'
<1>1. CASE WritePerses(upToDate, p)
  BY <1>1 DEF WritePerses, PutPerses, ObjectStep, BudgetOK, TypeOK
<1>2. CASE WriteFindsNone
  BY <1>2 DEF WriteFindsNone, ObjectStep, BudgetOK, TypeOK
<1>3. CASE WriteFails(upToDate)
  BY <1>3, SpendType, MoveFacts DEF WriteFails, ObjectStep, BudgetOK, TypeOK
<1> QED
  BY <1>1, <1>2, <1>3

\* An update of the status, which starts from the cached copy: what it has read
\* is what is there, or it writes nothing.
LEMMA StatusFacts ==
    ASSUME TypeOK, CachesFollow, NEW status \in Status,
           cache.status.available \in {"True", "False"} => status.available # "Unknown",
           StatusWritten(status) \/ StatusUnchanged(status) \/ StatusGone(status) \/ StatusFails(status)
    PROVE  ObjectStep /\ BudgetOK'
<1>1. CASE StatusWritten(status)
  <2> DEFINE p == [live EXCEPT !.status = status]
  <2>1. p \in Perses /\ p.status = status
    BY PersesUpdates DEF TypeOK, Perses
  <2>2. ~ pdirty /\ WritePerses(~ pdirty, p)
    BY <1>1 DEF StatusWritten, WritePerses
  <2>3. cache = live
    BY <2>2 DEF CachesFollow
  <2> HIDE DEF p
  <2> QED
    BY <2>1, <2>2, <2>3, WriteFacts
<1>2. CASE StatusUnchanged(status) \/ StatusGone(status)
  BY <1>2 DEF StatusUnchanged, StatusGone, ObjectStep, BudgetOK, TypeOK
<1>3. CASE StatusFails(status)
  BY <1>3, SpendType, MoveFacts DEF StatusFails, WriteFails, ObjectStep, BudgetOK, TypeOK
<1> QED
  BY <1>1, <1>2, <1>3

\* A child is applied.
LEMMA ApplyFacts ==
    ASSUME TypeOK, NEW c \in Children, NEW child \in ChildRecord,
           CreateChild(c, child) \/ UpdateChild(c, child) \/ ApplyFails(c, child)
    PROVE  ChildStep /\ BudgetOK'
<1>1. CASE CreateChild(c, child)
  BY <1>1 DEF CreateChild, ChildStep, BudgetOK, TypeOK
<1>2. CASE UpdateChild(c, child)
  BY <1>2 DEF UpdateChild, ChildStep, BudgetOK, TypeOK
<1>3. CASE ApplyFails(c, child)
  BY <1>3, SpendType, MoveFacts DEF ApplyFails, ChildStep, BudgetOK, TypeOK
<1> QED
  BY <1>1, <1>2, <1>3

\* A workload that is not called for is deleted.
LEMMA UnneededFacts ==
    ASSUME TypeOK, NEW w \in Children, Unneeded(w) \/ UnneededFails(w)
    PROVE  ChildStep /\ BudgetOK'
<1>1. CASE Unneeded(w)
  <2>1. BudgetOK'
    BY <1>1 DEF Unneeded, BudgetOK, TypeOK
  <2>2. CASE UNCHANGED <<kids, kdirty>>
    BY <2>1, <2>2 DEF ChildStep
  <2>3. CASE kids' = [kids EXCEPT ![w] = Absent] /\ kdirty' = kdirty \cup {w}
    <3>1. Absent \in ChildRecord \cup {Absent}
      OBVIOUS
    <3> QED
      BY <2>1, <2>3, <3>1 DEF ChildStep
  <2> QED
    BY <1>1, <2>2, <2>3 DEF Unneeded
<1>2. CASE UnneededFails(w)
  BY <1>2, SpendType, MoveFacts DEF UnneededFails, ChildStep, BudgetOK, TypeOK
<1> QED
  BY <1>1, <1>2

\* One that cannot be made is reported.
LEMMA UnmakeableFacts ==
    ASSUME TypeOK, NEW w \in Children, Unmakeable(w)
    PROVE  ObjectStep /\ ChildStep /\ BudgetOK'
<1> DEFINE s == [work.perses.status EXCEPT !.available = "False"]
<1> DEFINE p == [live EXCEPT !.status = s]
<1>1. s \in Status /\ s.available = "False"
  <2>1. work.perses.status \in Status
    BY PersesFacts DEF TypeOK, Work
  <2> QED
    BY <2>1, StatusUpdates
<1>2. p \in Perses /\ p.status = s
  BY <1>1, PersesUpdates DEF TypeOK, Perses
<1>3. UNCHANGED <<kids, kdirty>>
  BY DEF Unmakeable
<1>4. \/ WritePerses(current, p) \/ WriteFindsNone \/ WriteFails(current)
      \/ UNCHANGED <<objectVars, budget>>
  BY DEF Unmakeable
<1> HIDE DEF s, p
<1>5. CASE UNCHANGED <<objectVars, budget>>
  BY <1>3, <1>5 DEF ObjectStep, ChildStep, BudgetOK, TypeOK
<1> QED
  BY <1>1, <1>2, <1>3, <1>4, <1>5, WriteFacts DEF ChildStep

-----------------------------------------------------------------------------
(***************************************************************************)
(* What a step of the worker does, after Reconcile has taken the request.  *)
(***************************************************************************)
PassStep ==
    /\ work.pc # "idle"
    /\ ObjectStep /\ ChildStep /\ BudgetOK'
    /\ Ends \/ Proceeds
    /\ UNCHANGED <<version, cache, kcache, sdirty, gauge>>

\* A request is only ever taken by Reconcile.
Passing ==
    \/ handleDelete \/ setStatusToUnknown \/ removeFinalizer \/ validateVolumes
    \/ \E s \in Secrets : readSecret(s)
    \/ reconcileProvisioning \/ reconcileService \/ reconcileConfigMap
    \/ reconcileDeployment \/ reconcileStatefulSet \/ setStatusToComplete

\* The sub-reconcilers that deal with the object only.
LEMMA ObjectPhases ==
    ASSUME TypeOK, CachesFollow,
           handleDelete \/ setStatusToUnknown \/ removeFinalizer \/ validateVolumes \/ setStatusToComplete
    PROVE  PassStep
<1>a. work \in Work /\ live \in Perses /\ cache \in Perses /\ work.perses \in Perses /\ BudgetOK
  BY DEF TypeOK, BudgetOK, Work
<1>b. /\ work.pc # "idle" /\ UNCHANGED <<version, cache, kcache, sdirty, gauge>> /\ ChildStep
  BY DEF handleDelete, setStatusToUnknown, removeFinalizer, validateVolumes, setStatusToComplete, ChildStep
<1>c. [live EXCEPT !.finalizer = FALSE] \in Perses
      /\ [live EXCEPT !.finalizer = FALSE].status = live.status
  BY <1>a, PersesUpdates DEF Perses
<1>d. UNCHANGED <<objectVars, budget>> => ObjectStep /\ BudgetOK'
  BY <1>a DEF ObjectStep, BudgetOK
<1>e. cache.status \in Status
  BY <1>a, PersesFacts
<1>1. CASE handleDelete
  <2>1. Ends \/ Proceeds
    BY <1>1, <1>a, EndFacts, PhaseFacts DEF handleDelete
  <2>2. /\ \/ UNCHANGED <<objectVars, budget>>
           \/ WritePerses(~ pdirty, [live EXCEPT !.finalizer = FALSE])
           \/ WriteFindsNone \/ WriteFails(~ pdirty)
    BY <1>1 DEF handleDelete
  <2>3. ObjectStep /\ BudgetOK'
    BY <1>c, <1>d, <2>2, WriteFacts
  <2> QED
    BY <1>b, <2>1, <2>3 DEF PassStep
<1>2. CASE setStatusToUnknown
  <2>1. Ends \/ Proceeds
    BY <1>2, <1>a, EndFacts, PhaseFacts DEF setStatusToUnknown, NothingSet
  <2>2. PICK status : status = UnknownIfNew(cache.status)
    OBVIOUS
  <2>3. status \in Status /\ (cache.status.available \in {"True", "False"} => status.available # "Unknown")
    BY <1>a, <2>2, StatusUpdates, PersesFacts DEF UnknownIfNew, HasNoConditions, Status
  <2>4. StatusWritten(status) \/ StatusUnchanged(status) \/ StatusGone(status) \/ StatusFails(status)
    BY <1>2, <2>2 DEF setStatusToUnknown
  <2> QED
    BY <1>b, <2>1, <2>3, <2>4, StatusFacts DEF PassStep
<1>3. CASE removeFinalizer
  <2>1. CASE ~ work.perses.finalizer /\ Goto("validateVolumes") /\ UNCHANGED <<objectVars, budget>>
    BY <1>a, <1>b, <1>d, <2>1, EndFacts, PhaseFacts DEF PassStep
  <2>2. CASE /\ live' = [live EXCEPT !.finalizer = FALSE] /\ pdirty' = TRUE /\ current' = TRUE
             /\ work' = [work EXCEPT !.pc = "validateVolumes", !.perses = live']
             /\ UNCHANGED <<queued, tracked, budget>>
    <3>1. ObjectStep /\ BudgetOK'
      BY <1>a, <1>c, <2>2 DEF ObjectStep, BudgetOK
    <3>2. Proceeds
      BY <1>a, <1>c, <2>2, PhaseFacts DEF Proceeds, Work
    <3> QED
      BY <1>b, <3>1, <3>2 DEF PassStep
  <2>3. CASE EndOK \/ EndFailed
    <3>1. UNCHANGED <<objectVars, budget>> \/ WriteFindsNone \/ WriteFails(~ pdirty)
      BY <1>3, <2>3, <1>a, NoneFacts, PhaseFacts DEF removeFinalizer, EndOK, EndFailed, Goto, Work
    <3>2. ObjectStep /\ BudgetOK'
      BY <1>a, <1>d, <3>1, WriteFacts
    <3> QED
      BY <1>b, <2>3, <3>2, EndFacts DEF PassStep
  <2> QED
    BY <1>3, <2>1, <2>2, <2>3 DEF removeFinalizer
<1>4. CASE validateVolumes
  <2>1. Ends \/ Proceeds
    BY <1>4, <1>a, EndFacts, PhaseFacts DEF validateVolumes
  <2>2. PICK status : status = [cache.status EXCEPT !.degraded = "True"]
    OBVIOUS
  <2>3. status \in Status /\ status.available = cache.status.available
    BY <1>a, <1>e, <2>2, StatusUpdates
  <2>4. \/ UNCHANGED <<objectVars, budget>>
        \/ StatusWritten(status) \/ StatusUnchanged(status) \/ StatusGone(status) \/ StatusFails(status)
    BY <1>4, <2>2 DEF validateVolumes
  <2> QED
    BY <1>b, <1>d, <2>1, <2>3, <2>4, StatusFacts DEF PassStep
<1>5. CASE setStatusToComplete
  <2>1. Ends \/ Proceeds
    BY <1>5, <1>a, EndFacts, PhaseFacts DEF setStatusToComplete
  <2>2. PICK status : status = [cache.status EXCEPT !.available = "True", !.degraded = "False"]
    OBVIOUS
  <2>3. status \in Status /\ status.available = "True"
    BY <1>a, <1>e, <2>2, StatusUpdates
  <2>4. StatusWritten(status) \/ StatusUnchanged(status) \/ StatusGone(status) \/ StatusFails(status)
    BY <1>5, <2>2 DEF setStatusToComplete
  <2> QED
    BY <1>b, <2>1, <2>3, <2>4, StatusFacts DEF PassStep
<1> QED
  BY <1>1, <1>2, <1>3, <1>4, <1>5

\* The sub-reconciler of the provisioning secrets.
LEMMA ProvisioningPhases ==
    ASSUME TypeOK, CachesFollow, (\E s \in Secrets : readSecret(s)) \/ reconcileProvisioning
    PROVE  PassStep
<1>a. work \in Work /\ live \in Perses /\ cache \in Perses /\ work.perses \in Perses /\ BudgetOK
      /\ work.versions \in Versions /\ version \in Versions
  BY DEF TypeOK, BudgetOK, Work, Versions
<1>e. cache.status \in Status
  BY <1>a, PersesFacts
<1>1. ASSUME NEW s \in Secrets, readSecret(s)
      PROVE  PassStep
  <2>1. /\ work.pc # "idle" /\ UNCHANGED <<version, cache, kcache, sdirty, gauge>>
        /\ ChildStep /\ ObjectStep
    BY <1>1 DEF readSecret, clusterVars, watchVars, ChildStep, ObjectStep, objectVars
  <2>2. CASE work' = [work EXCEPT !.versions[s] = version[s]] /\ UNCHANGED <<queued, tracked, budget>>
    <3>1. [work.versions EXCEPT ![s] = version[s]] \in Versions
      BY <1>a DEF Versions
    <3>2. Proceeds
      BY <1>a, <2>2, <3>1 DEF Proceeds, Work
    <3> QED
      BY <1>a, <2>1, <2>2, <3>2 DEF PassStep, BudgetOK
  <2>3. CASE (UNCHANGED budget \/ Spend("fault")) /\ EndFailed
    <3>1. BudgetOK'
      BY <1>a, <2>3, SpendType, MoveFacts DEF BudgetOK
    <3> QED
      BY <2>1, <2>3, <3>1, EndFacts DEF PassStep
  <2> QED
    BY <1>1, <2>2, <2>3 DEF readSecret
<1>2. CASE reconcileProvisioning
  <2>1. Ends \/ Proceeds
    BY <1>2, <1>a, EndFacts, PhaseFacts DEF reconcileProvisioning
  <2>2. PICK status : status = [cache.status EXCEPT !.provisioning = work.versions]
    OBVIOUS
  <2>3. status \in Status /\ status.available = cache.status.available
    BY <1>a, <1>e, <2>2, StatusUpdates
  <2>4. \/ UNCHANGED <<objectVars, budget>>
        \/ StatusWritten(status) \/ StatusUnchanged(status) \/ StatusGone(status) \/ StatusFails(status)
    BY <1>2, <2>2 DEF reconcileProvisioning
  <2>5. work.pc # "idle" /\ UNCHANGED <<version, cache, kcache, sdirty, gauge>> /\ ChildStep
    BY <1>2 DEF reconcileProvisioning, ChildStep
  <2>6. UNCHANGED <<objectVars, budget>> => ObjectStep /\ BudgetOK'
    BY <1>a DEF ObjectStep, BudgetOK
  <2> QED
    BY <2>1, <2>3, <2>4, <2>5, <2>6, StatusFacts DEF PassStep
<1> QED
  BY <1>1, <1>2

\* The sub-reconcilers of the children.
LEMMA ChildPhases ==
    ASSUME TypeOK, CachesFollow,
           reconcileService \/ reconcileConfigMap \/ reconcileDeployment \/ reconcileStatefulSet
    PROVE  PassStep
<1>a. work \in Work /\ work.perses \in Perses /\ work.perses.spec.service \in Children
  BY PersesFacts, ChildNames DEF TypeOK, Work
<1>b. /\ createPersesService(work.perses) \in ChildRecord
      /\ createPersesConfigMap(work.perses) \in ChildRecord
      /\ createPersesDeployment(work.perses) \in ChildRecord
      /\ createPersesStatefulSet(work.perses) \in ChildRecord
  BY <1>a, ChildFacts
<1>c. /\ work.pc # "idle" /\ UNCHANGED <<version, cache, kcache, sdirty, gauge>>
  BY DEF reconcileService, reconcileConfigMap, reconcileDeployment, reconcileStatefulSet
<1>1. CASE reconcileService
  <2>1. PICK c, child : c = work.perses.spec.service /\ child = createPersesService(work.perses)
    OBVIOUS
  <2>2. CreateChild(c, child) \/ UpdateChild(c, child) \/ ApplyFails(c, child)
    BY <1>1, <2>1 DEF reconcileService
  <2>3. ObjectStep
    BY <1>1 DEF reconcileService, ObjectStep
  <2>4. Ends \/ Proceeds
    <3>1. CASE /\ work' = [work EXCEPT !.pc = "reconcileConfigMap", !.perses = AfterService(work.perses)]
               /\ UNCHANGED <<queued, tracked>>
      BY <3>1, <1>a, PhaseFacts, AfterServiceFacts DEF Proceeds, Work
    <3> QED
      BY <1>1, <3>1, EndFacts DEF reconcileService
  <2> QED
    BY <1>a, <1>b, <1>c, <2>1, <2>2, <2>3, <2>4, ApplyFacts DEF PassStep
<1>2. CASE reconcileConfigMap
  <2>1. PICK child : child = createPersesConfigMap(work.perses)
    OBVIOUS
  <2>2. CreateChild("ConfigMap", child) \/ UpdateChild("ConfigMap", child) \/ ApplyFails("ConfigMap", child)
    BY <1>2, <2>1 DEF reconcileConfigMap
  <2>3. ObjectStep
    BY <1>2 DEF reconcileConfigMap, ObjectStep
  <2>4. Ends \/ Proceeds
    BY <1>a, <1>2, EndFacts, PhaseFacts DEF reconcileConfigMap
  <2> QED
    BY <1>b, <1>c, <2>1, <2>2, <2>3, <2>4, ApplyFacts, ChildNames DEF PassStep
<1>3. CASE reconcileDeployment
  <2>1. PICK child : child = createPersesDeployment(work.perses)
    OBVIOUS
  <2>2. \/ Unmakeable("Deployment")
        \/ UNCHANGED objectVars /\ (Unneeded("Deployment") \/ UnneededFails("Deployment"))
        \/ /\ UNCHANGED objectVars
           /\ CreateChild("Deployment", child) \/ UpdateChild("Deployment", child) \/ ApplyFails("Deployment", child)
    BY <1>3, <2>1 DEF reconcileDeployment
  <2>3. ObjectStep /\ ChildStep /\ BudgetOK'
    <3>1. CASE Unmakeable("Deployment")
      BY <3>1, UnmakeableFacts, ChildNames
    <3>2. UNCHANGED objectVars => ObjectStep
      BY DEF ObjectStep
    <3> QED
      BY <1>b, <2>1, <2>2, <3>1, <3>2, UnneededFacts, ApplyFacts, ChildNames
  <2>4. Ends \/ Proceeds
    BY <1>a, <1>3, EndFacts, PhaseFacts DEF reconcileDeployment
  <2> QED
    BY <1>c, <2>3, <2>4 DEF PassStep
<1>4. CASE reconcileStatefulSet
  <2>1. PICK child : child = createPersesStatefulSet(work.perses)
    OBVIOUS
  <2>2. \/ Unmakeable("StatefulSet")
        \/ UNCHANGED objectVars /\ (Unneeded("StatefulSet") \/ UnneededFails("StatefulSet"))
        \/ /\ UNCHANGED objectVars
           /\ CreateChild("StatefulSet", child) \/ UpdateChild("StatefulSet", child) \/ ApplyFails("StatefulSet", child)
    BY <1>4, <2>1 DEF reconcileStatefulSet
  <2>3. ObjectStep /\ ChildStep /\ BudgetOK'
    <3>1. CASE Unmakeable("StatefulSet")
      BY <3>1, UnmakeableFacts, ChildNames
    <3>2. UNCHANGED objectVars => ObjectStep
      BY DEF ObjectStep
    <3> QED
      BY <1>b, <2>1, <2>2, <3>1, <3>2, UnneededFacts, ApplyFacts, ChildNames
  <2>4. Ends \/ Proceeds
    BY <1>a, <1>4, EndFacts, PhaseFacts DEF reconcileStatefulSet
  <2> QED
    BY <1>c, <2>3, <2>4 DEF PassStep
<1> QED
  BY <1>1, <1>2, <1>3, <1>4

\* Every step of a pass.
LEMMA PassSteps ==
    ASSUME TypeOK, CachesFollow, Passing
    PROVE  PassStep
  BY ObjectPhases, ProvisioningPhases, ChildPhases DEF Passing

-----------------------------------------------------------------------------
(***************************************************************************)
(* Types and caches.                                                       *)
(***************************************************************************)

\* Writes by others: of the object ...
UserWrites ==
    /\ \E p \in Perses : PutPerses(p) /\ (live.uid = p.uid => p.status = live.status \/ p.status = NoStatus)
    /\ BudgetOK'
    /\ UNCHANGED <<kids, version, cache, kcache, kdirty, sdirty, queued, work, tracked, gauge>>

\* ... of a child ...
ChildWrites ==
    /\ \E c \in Children, child \in ChildRecord \cup {Absent} : ChangeChild(c, child)
    /\ BudgetOK'

\* ... and of a secret.
SecretWrites ==
    /\ BudgetOK'
    /\ \E s \in Secrets : /\ version' = [version EXCEPT ![s] = @ + 1]
                          /\ sdirty' = sdirty \cup {s}
    /\ UNCHANGED <<live, kids, cache, pdirty, kcache, kdirty, workVars>>

\* Every step of somebody else is one of these.
LEMMA OtherSteps ==
    ASSUME TypeOK, UserStep \/ ClusterStep
    PROVE  UserWrites \/ ChildWrites \/ SecretWrites
<1>a. live \in Perses /\ live.uid \in Nat /\ BudgetOK /\ kids \in [Children -> ChildRecord \cup {Absent}]
  BY PersesFacts DEF TypeOK, BudgetOK
<1>b. \A move \in EnvironmentMoves : Spend(move) => BudgetOK'
  BY <1>a, SpendType DEF BudgetOK
<1>1. ASSUME NEW s \in Specs, CreatePerses(s)
      PROVE  UserWrites
  <2> DEFINE p == [NoPerses EXCEPT !.exists = TRUE, !.uid = live.uid + 1, !.spec = s]
  <2>1. p \in Perses /\ p.uid = live.uid + 1
    <3>1. live.uid + 1 \in Nat /\ s \in Spec_
      BY <1>a, SpecsAssumption
    <3> QED
      BY <3>1, NoneFacts, PersesUpdates
  <2>2. PutPerses(p) /\ BudgetOK'
    BY <1>1, <1>b, MoveFacts DEF CreatePerses
  <2>3. UNCHANGED <<kids, version, cache, kcache, kdirty, sdirty, queued, work, tracked, gauge>>
    BY <1>1 DEF CreatePerses
  <2> HIDE DEF p
  <2> QED
    BY <1>a, <2>1, <2>2, <2>3 DEF UserWrites
<1>2. ASSUME NEW s \in Specs, EditPerses(s)
      PROVE  UserWrites
  <2> DEFINE p == [live EXCEPT !.spec = s]
  <2>1. p \in Perses /\ p.status = live.status
    BY <1>a, PersesUpdates, SpecsAssumption DEF Perses
  <2>2. PutPerses(p) /\ BudgetOK'
    BY <1>2, <1>b, MoveFacts DEF EditPerses
  <2>3. UNCHANGED <<kids, version, cache, kcache, kdirty, sdirty, queued, work, tracked, gauge>>
    BY <1>2 DEF EditPerses
  <2> HIDE DEF p
  <2> QED
    BY <2>1, <2>2, <2>3 DEF UserWrites
<1>3. CASE DeletePerses \/ FinishDeletion
  <2> DEFINE p == [live EXCEPT !.deleting = TRUE]
  <2> DEFINE q == [NoPerses EXCEPT !.uid = live.uid]
  <2>1. p \in Perses /\ p.status = live.status
    BY <1>a, PersesUpdates
  <2>a. PICK none \in Perses : none = NoPerses /\ none.status = NoStatus
    BY NoneFacts
  <2>b. q \in Perses /\ q.status = NoStatus
    BY <1>a, <2>a DEF Perses
  <2>2. PutPerses(p) \/ PutPerses(q)
    BY <1>3 DEF DeletePerses, FinishDeletion
  <2>3. UNCHANGED <<kids, version, cache, kcache, kdirty, sdirty, queued, work, tracked, gauge>>
    BY <1>3 DEF DeletePerses, FinishDeletion
  <2>4. BudgetOK'
    BY <1>3, <1>a, <1>b, MoveFacts DEF DeletePerses, FinishDeletion, BudgetOK
  <2> HIDE DEF p, q
  <2> QED
    BY <2>1, <2>b, <2>2, <2>3, <2>4 DEF UserWrites
<1>4. ASSUME NEW c \in Children, TamperChild(c) \/ UnlabelChild(c) \/ GarbageCollect(c)
      PROVE  ChildWrites
  <2>1. BudgetOK'
    BY <1>4, <1>a, <1>b, MoveFacts DEF TamperChild, UnlabelChild, GarbageCollect, BudgetOK
  <2>2. ChangeChild(c, Absent) \/ kids[c] # Absent
    BY <1>4 DEF TamperChild, UnlabelChild, GarbageCollect
  <2>3. kids[c] # Absent => /\ \A v \in Contents : [kids[c] EXCEPT !.content = v] \in ChildRecord
                            /\ [kids[c] EXCEPT !.managed = FALSE] \in ChildRecord
    <3>1. kids[c] # Absent => kids[c] \in ChildRecord
      BY <1>a
    <3> QED
      BY <3>1 DEF ChildRecord
  <2>4. \E child \in ChildRecord \cup {Absent} : ChangeChild(c, child)
    BY <1>4, <2>2, <2>3 DEF TamperChild, UnlabelChild, GarbageCollect
  <2> QED
    BY <2>1, <2>4 DEF ChildWrites
<1>5. ASSUME NEW s \in Secrets, ChangeSecret(s)
      PROVE  SecretWrites
  BY <1>5, <1>b, MoveFacts DEF ChangeSecret, SecretWrites
<1> QED
  BY <1>1, <1>2, <1>3, <1>4, <1>5 DEF UserStep, ClusterStep

\* What can happen in a step.
LEMMA StepCases ==
    ASSUME TypeOK, CachesFollow, [Next]_vars
    PROVE  \/ UserWrites \/ ChildWrites \/ SecretWrites
           \/ ObservePerses \/ (\E c \in Children : ObserveChild(c)) \/ (\E s \in Secrets : ObserveSecret(s))
           \/ Restart \/ Reconcile \/ Passing \/ UNCHANGED vars
  BY OtherSteps DEF Next, WatchStep, WorkerStep, Passing

\* What the informer caches of a child.
LEMMA CachedType ==
    ASSUME TypeOK
    PROVE  \A c \in Children : Cached(c) \in ChildRecord \cup {Absent}
  BY DEF TypeOK, Cached

\* The parts of the type invariant and of the caches a pass can disturb.
LEMMA PassType ==
    ASSUME TypeOK, CachesFollow, PassStep
    PROVE  TypeOK' /\ CachesFollow'
<1>a. /\ UNCHANGED <<version, cache, kcache, sdirty, gauge>>
      /\ BudgetOK'
  BY DEF PassStep
<1>1. live' \in Perses /\ pdirty' \in BOOLEAN /\ current' \in BOOLEAN /\ (~ pdirty' => cache' = live')
  <2>1. CASE UNCHANGED objectVars
    BY <1>a, <2>1 DEF objectVars, TypeOK, CachesFollow
  <2>2. CASE live' \in Perses /\ pdirty' = TRUE /\ current' \in BOOLEAN
    BY <2>2
  <2> QED
    BY <2>1, <2>2 DEF PassStep, ObjectStep
<1>2. /\ kids' \in [Children -> ChildRecord \cup {Absent}] /\ kdirty' \subseteq Children
      /\ \A c \in Children \ kdirty' : kcache'[c] = Cached(c)'
  <2>1. CASE UNCHANGED <<kids, kdirty>>
    BY <1>a, <2>1 DEF TypeOK, CachesFollow, Cached
  <2>2. ASSUME NEW c \in Children, NEW child \in ChildRecord \cup {Absent},
               kids' = [kids EXCEPT ![c] = child], kdirty' = kdirty \cup {c}
        PROVE  /\ kids' \in [Children -> ChildRecord \cup {Absent}] /\ kdirty' \subseteq Children
               /\ \A d \in Children \ kdirty' : kcache'[d] = Cached(d)'
    <3>1. kids' \in [Children -> ChildRecord \cup {Absent}] /\ kdirty' \subseteq Children
      BY <2>2 DEF TypeOK
    <3>2. \A d \in Children \ {c} : kids'[d] = kids[d]
      BY <2>2 DEF TypeOK
    <3> QED
      BY <1>a, <2>2, <3>1, <3>2 DEF CachesFollow, Cached
  <2> QED
    BY <2>1, <2>2 DEF PassStep, ChildStep
<1>3. work' \in Work /\ queued' \in BOOLEAN /\ tracked' \in {"none", "ok", "failed"}
  BY NoneFacts DEF PassStep, Ends, Proceeds, TypeOK
<1> QED
  BY <1>a, <1>1, <1>2, <1>3 DEF TypeOK, CachesFollow, BudgetOK

\* Types are kept, and the caches miss only what an event is under way for.
LEMMA TypeNext ==
    ASSUME TypeOK, CachesFollow, [Next]_vars
    PROVE  TypeOK' /\ CachesFollow'
<1>1. CASE UserWrites
  <2>1. PICK p \in Perses : PutPerses(p)
    BY <1>1 DEF UserWrites
  <2> QED
    BY <1>1, <2>1 DEF UserWrites, PutPerses, TypeOK, CachesFollow, BudgetOK, Cached
<1>2. CASE ChildWrites
  <2>1. PICK c \in Children, child \in ChildRecord \cup {Absent} : ChangeChild(c, child)
    BY <1>2 DEF ChildWrites
  <2>2. /\ kids' = [kids EXCEPT ![c] = child] /\ kdirty' = kdirty \cup {c} /\ BudgetOK'
        /\ UNCHANGED <<live, version, cache, pdirty, kcache, sdirty, queued, work, current, tracked, gauge>>
    BY <1>2, <2>1 DEF ChangeChild, workVars, ChildWrites
  <2>3. kids' \in [Children -> ChildRecord \cup {Absent}] /\ kdirty' \subseteq Children
    BY <2>2 DEF TypeOK
  <2>4. \A d \in Children \ {c} : kids'[d] = kids[d]
    BY <2>2 DEF TypeOK
  <2> QED
    BY <2>2, <2>3, <2>4 DEF TypeOK, CachesFollow, BudgetOK, Cached
<1>3. CASE SecretWrites
  <2>1. version' \in [Secrets -> Nat] /\ sdirty' \subseteq Secrets
    BY <1>3 DEF SecretWrites, TypeOK
  <2> QED
    BY <1>3, <2>1 DEF SecretWrites, workVars, TypeOK, CachesFollow, BudgetOK, Cached
<1>4. CASE ObservePerses
  BY <1>4 DEF ObservePerses, clusterVars, TypeOK, CachesFollow, Cached
<1>5. ASSUME NEW c \in Children, ObserveChild(c)
      PROVE  TypeOK' /\ CachesFollow'
  <2>1. /\ kcache' = [kcache EXCEPT ![c] = Cached(c)] /\ kdirty' = kdirty \ {c} /\ queued' = TRUE
        /\ UNCHANGED <<live, kids, version, cache, pdirty, sdirty, work, current, tracked, gauge, budget>>
    BY <1>5 DEF ObserveChild, clusterVars
  <2>2. /\ kcache' \in [Children -> ChildRecord \cup {Absent}]
        /\ kcache'[c] = Cached(c) /\ \A d \in Children \ {c} : kcache'[d] = kcache[d]
    BY <2>1, CachedType DEF TypeOK
  <2>3. \A d \in Children : Cached(d)' = Cached(d)
    BY <2>1 DEF Cached
  <2> QED
    BY <2>1, <2>2, <2>3 DEF TypeOK, CachesFollow
<1>6. ASSUME NEW s \in Secrets, ObserveSecret(s)
      PROVE  TypeOK' /\ CachesFollow'
  <2>1. queued' \in BOOLEAN
    BY <1>6, PersesFacts DEF ObserveSecret, findPersesForSecret, TypeOK
  <2> QED
    BY <1>6, <2>1 DEF ObserveSecret, clusterVars, TypeOK, CachesFollow, Cached
<1>7. CASE Restart
  <2>1. BudgetOK'
    BY <1>7, SpendType, MoveFacts DEF Restart, TypeOK, BudgetOK
  <2>2. kcache' = [c \in Children |-> Cached(c)] /\ UNCHANGED <<live, kids, version>>
    BY <1>7 DEF Restart, clusterVars
  <2>3. /\ kcache' \in [Children -> ChildRecord \cup {Absent}]
        /\ \A c \in Children : kcache'[c] = Cached(c) /\ Cached(c)' = Cached(c)
    BY <2>2, CachedType DEF Cached
  <2>4. queued' \in BOOLEAN
    BY <1>7, PersesFacts DEF Restart, TypeOK
  <2> QED
    BY <1>7, <2>1, <2>2, <2>3, <2>4, NoneFacts DEF Restart, TypeOK, CachesFollow, BudgetOK
<1>8. CASE Reconcile
  <2>1. /\ queued' = FALSE
        /\ UNCHANGED <<live, kids, version, cache, pdirty, kcache, kdirty, sdirty, budget>>
    BY <1>8 DEF Reconcile, clusterVars, watchVars
  <2>2. work' \in Work
    <3>1. [IdleWork EXCEPT !.pc = "handleDelete", !.perses = cache] \in Work
      BY NoneFacts, PhaseFacts DEF TypeOK, Work
    <3> QED
      BY <1>8, <3>1 DEF Reconcile, TypeOK
  <2>3. current' \in BOOLEAN /\ gauge' \in BOOLEAN /\ tracked' \in {"none", "ok", "failed"}
    BY <1>8, PersesFacts DEF Reconcile, TypeOK
  <2> QED
    BY <2>1, <2>2, <2>3 DEF TypeOK, CachesFollow, Cached
<1>9. CASE Passing
  BY <1>9, PassSteps, PassType
<1>10. CASE UNCHANGED vars
  BY <1>10 DEF vars, clusterVars, watchVars, workVars, TypeOK, CachesFollow, Cached
<1> QED
  BY <1>1, <1>2, <1>3, <1>4, <1>5, <1>6, <1>7, <1>8, <1>9, <1>10, StepCases

-----------------------------------------------------------------------------
(***************************************************************************)
(* What makes a pass due.                                                  *)
(***************************************************************************)

\* The parts of the invariant that speak of a state with no pass due.
Findings == PassIsCurrent /\ VersionsAreCurrent /\ DoneSoFar /\ GoneIsForgotten

\* They say nothing while a pass is due.
LEMMA NothingToShow ==
    ASSUME Due
    PROVE  Findings
  BY DEF Findings, PassIsCurrent, VersionsAreCurrent, DoneSoFar, GoneIsForgotten

\* A due pass stays due until the request is taken: what a watch delivers is
\* put in the queue.
LEMMA StaysDue ==
    ASSUME TypeOK, CachesFollow, Due, [Next]_vars, ~ Reconcile, ~ Restart
    PROVE  Due'
<1>1. CASE UserWrites
  BY <1>1 DEF UserWrites, PutPerses, Due
<1>2. CASE ChildWrites
  BY <1>2 DEF ChildWrites, ChangeChild, Due
<1>3. CASE SecretWrites
  BY <1>3 DEF SecretWrites, workVars, Due
<1>4. CASE ObservePerses \/ \E c \in Children : ObserveChild(c)
  BY <1>4 DEF ObservePerses, ObserveChild, Due
<1>5. ASSUME NEW s \in Secrets, ObserveSecret(s)
      PROVE  Due'
  <2>1. /\ sdirty' = sdirty \ {s} /\ queued' = (queued \/ findPersesForSecret(s))
        /\ UNCHANGED <<live, pdirty, kdirty>>
    BY <1>5 DEF ObserveSecret, clusterVars
  <2>2. CASE queued \/ pdirty \/ kdirty # {}
    BY <2>1, <2>2 DEF Due
  <2>3. CASE ~ pdirty /\ live.exists /\ sdirty \cap live.spec.refs # {}
    <3>1. cache = live
      BY <2>3 DEF CachesFollow
    <3>2. CASE s \in live.spec.refs
      BY <2>1, <2>3, <3>1, <3>2 DEF Due, findPersesForSecret
    <3>3. CASE s \notin live.spec.refs
      BY <2>1, <2>3, <3>3 DEF Due
    <3> QED
      BY <3>2, <3>3
  <2> QED
    BY <2>2, <2>3 DEF Due
<1>6. CASE Passing
  <2>1. PassStep
    BY <1>6, PassSteps
  <2>2. queued => queued'
    BY <2>1 DEF PassStep, Ends, Proceeds
  <2>3. kdirty # {} => kdirty' # {}
    BY <2>1 DEF PassStep, ChildStep
  <2>4. UNCHANGED <<live, pdirty>> \/ pdirty'
    BY <2>1 DEF PassStep, ObjectStep, objectVars
  <2>5. UNCHANGED sdirty
    BY <2>1 DEF PassStep
  <2> QED
    BY <2>2, <2>3, <2>4, <2>5 DEF Due
<1>7. CASE UNCHANGED vars
  BY <1>7 DEF vars, clusterVars, watchVars, workVars, Due
<1> QED
  BY <1>1, <1>2, <1>3, <1>4, <1>5, <1>6, <1>7, StepCases

-----------------------------------------------------------------------------
(***************************************************************************)
(* A step of a pass after which no other is due.                           *)
(***************************************************************************)

\* It has written nothing, and works with what is there.
QuietStep ==
    /\ ~ Due
    /\ UNCHANGED <<live, kids, version, pdirty, kdirty>>
    /\ cache = live /\ live.exists /\ ~ queued' /\ ~ pdirty /\ kdirty = {}
    /\ \A c \in Children : kcache[c] = Cached(c)
    /\ work.perses = IF work.pc \in ServiceDone THEN AfterService(live) ELSE live
    /\ work.pc # "handleDelete" => ~ live.deleting

\* Whatever a step writes makes a pass due, and so does a failure.
LEMMA QuietSteps ==
    ASSUME RolloutInv, Passing, ~ Due'
    PROVE  QuietStep
<1>1. PassStep
  BY PassSteps DEF RolloutInv
<1>2. Next /\ ~ Due' /\ ~ queued' /\ ~ pdirty' /\ kdirty' = {}
  BY DEF Next, WorkerStep, Passing, Due
<1>3. UNCHANGED <<live, pdirty>>
  BY <1>1, <1>2 DEF PassStep, ObjectStep, objectVars
<1>4. UNCHANGED <<kids, kdirty>>
  BY <1>1, <1>2 DEF PassStep, ChildStep
<1>5. UNCHANGED <<version, sdirty>> /\ work.pc # "idle"
  BY <1>1 DEF PassStep
<1>6. queued => queued'
  BY <1>1 DEF PassStep, Ends, Proceeds
<1>7. ~ Due
  BY <1>2, <1>3, <1>4, <1>5, <1>6 DEF Due
<1>8. ~ pdirty /\ kdirty = {}
  BY <1>7 DEF Due
<1> QED
  BY <1>2, <1>3, <1>4, <1>5, <1>7, <1>8 DEF RolloutInv, CachesFollow, PassIsCurrent, QuietStep

\* What was seen to stays so while object, children and versions in use are left alone.
LEMMA BehindStays ==
    ASSUME NEW pc, Behind(pc), UNCHANGED <<live, kids>>,
           \A s \in live.spec.refs : version'[s] = version[s]
    PROVE  Behind(pc)'
<1>1. InUse' = InUse
  BY DEF InUse
<1>2. \A c, child : Holds(c, child)' <=> Holds(c, child)
  BY DEF Holds
<1>3. \A c, required, child : WorkloadHolds(c, required, child)' <=> WorkloadHolds(c, required, child)
  BY <1>2 DEF WorkloadHolds
<1> QED
  BY <1>1, <1>2, <1>3 DEF Behind

\* What is left to show of such a step, by where it goes and with what.
LEMMA Advance ==
    ASSUME RolloutInv, Passing, ~ Due', NEW pc, work'.pc = pc,
           pc # "idle" =>
              /\ work'.perses = IF pc \in ServiceDone THEN AfterService(live) ELSE live
              /\ pc # "handleDelete" /\ ~ live.deleting,
           pc \notin ProvisioningDone =>
              \A s \in Secrets : \/ work'.versions[s] = 0
                                 \/ s \in live.spec.refs /\ work'.versions[s] = version[s],
           ~ live.deleting => Behind(pc)
    PROVE  Findings'
<1>1. QuietStep
  BY QuietSteps
<1>2. UNCHANGED <<live, kids, version>> /\ live.exists
  BY <1>1 DEF QuietStep
<1>3. PassIsCurrent'
  BY <1>2 DEF PassIsCurrent, AfterService
<1>4. VersionsAreCurrent'
  BY <1>2 DEF VersionsAreCurrent
<1>5. Behind(pc) => Behind(pc)'
  BY <1>2, BehindStays
<1>6. DoneSoFar'
  BY <1>2, <1>5 DEF DoneSoFar
<1>7. GoneIsForgotten'
  BY <1>2 DEF GoneIsForgotten
<1> QED
  BY <1>3, <1>4, <1>6, <1>7 DEF Findings

\* The phases up to the one of the provisioning secrets have nothing behind them.
Early == {"handleDelete", "setStatusToUnknown", "removeFinalizer", "validateVolumes",
          "reconcileProvisioning"}

\* The phases by what they come after.
LEMMA PhaseOrder ==
    /\ \A pc \in Early : pc \notin ProvisioningDone /\ pc \notin ServiceDone /\ Behind(pc)
    /\ "idle" \in ProvisioningDone /\ Early \subseteq Phases
  BY DEF StatefulSetDone, DeploymentDone, ConfigMapDone, ServiceDone, ProvisioningDone, Behind,
         Early, Phases

\* A status such a step leaves as it is is the right one.
LEMMA QuietStatus ==
    ASSUME RolloutInv, QuietStep, ~ Due', NEW status \in Status,
           StatusWritten(status) \/ StatusUnchanged(status) \/ StatusGone(status)
    PROVE  status = live.status
<1>1. CASE StatusWritten(status)
  <2> DEFINE p == [live EXCEPT !.status = status]
  <2>1. PutPerses(p) \/ p = live
    BY <1>1 DEF StatusWritten, WritePerses
  <2>2. ~ PutPerses(p)
    BY DEF PutPerses, Due
  <2>3. p.status = status
    BY DEF RolloutInv, TypeOK, Perses
  <2> QED
    BY <2>1, <2>2, <2>3
<1>2. CASE StatusUnchanged(status)
  BY <1>2 DEF StatusUnchanged, QuietStep
<1>3. CASE StatusGone(status)
  BY <1>3 DEF StatusGone, QuietStep
<1> QED
  BY <1>1, <1>2, <1>3

\* A child such a step leaves as it is is as it should be.
LEMMA QuietApply ==
    ASSUME QuietStep, ~ Due', NEW c \in Children, NEW child,
           CreateChild(c, child) \/ UpdateChild(c, child)
    PROVE  Holds(c, child)
<1>1. kdirty' = {}
  BY DEF Due
<1>2. UpdateChild(c, child) /\ SameChild(kcache[c], child)
  BY <1>1 DEF CreateChild, UpdateChild
<1>3. kcache[c] # Absent /\ kcache[c] = Cached(c)
  BY <1>2 DEF UpdateChild, QuietStep
<1> QED
  BY <1>2, <1>3 DEF Cached, Holds

\* A workload such a step leaves without need is gone or out of sight.
LEMMA QuietUnneeded ==
    ASSUME QuietStep, ~ Due', NEW w \in Children, Unneeded(w)
    PROVE  kids[w] # Absent => ~ kids[w].managed
<1>1. kdirty' = {}
  BY DEF Due
<1>2. kcache[w] = Absent
  BY <1>1 DEF Unneeded
<1>3. Cached(w) = Absent
  BY <1>2 DEF QuietStep
<1> QED
  BY <1>3 DEF Cached

\* A failure makes a pass due.
LEMMA NoFailure ==
    ASSUME ~ Due'
    PROVE  ~ EndFailed
  BY DEF EndFailed, Due

-----------------------------------------------------------------------------
(***************************************************************************)
(* The sub-reconcilers, one by one.                                        *)
(***************************************************************************)

\* From one of the early phases to another.
LEMMA AdvanceEarly ==
    ASSUME RolloutInv, Passing, ~ Due', work.pc \in Early,
           NEW pc \in Early, pc # "handleDelete", Goto(pc), ~ live.deleting
    PROVE  Findings'
<1>1. QuietStep /\ work \in Work
  BY QuietSteps DEF RolloutInv, TypeOK
<1>2. work'.pc = pc /\ work'.perses = work.perses /\ work'.versions = work.versions
  BY <1>1, EndFacts, PhaseOrder
<1>3. work.perses = live
  BY <1>1, PhaseOrder DEF QuietStep
<1>4. \A s \in Secrets : \/ work.versions[s] = 0
                         \/ s \in live.spec.refs /\ work.versions[s] = version[s]
  BY <1>1, PhaseOrder DEF QuietStep, RolloutInv, VersionsAreCurrent
<1> QED
  BY <1>2, <1>3, <1>4, PhaseOrder, Advance

\* An object that is deleted is left to its finalizer and the API server.
LEMMA handleDeleteFinds ==
    ASSUME RolloutInv, handleDelete, ~ Due'
    PROVE  Findings'
<1>1. Passing /\ work.pc = "handleDelete" /\ work.pc \in Early /\ "setStatusToUnknown" \in Early
  BY DEF Passing, handleDelete, Early
<1>2. QuietStep /\ work.perses = live
  BY <1>1, QuietSteps, PhaseOrder DEF QuietStep
<1>3. CASE live.deleting
  <2>1. EndOK
    BY <1>2, <1>3, NoFailure DEF handleDelete
  <2>2. work'.pc = "idle"
    BY <2>1, NoneFacts DEF EndOK
  <2> QED
    BY <1>1, <1>3, <2>2, PhaseOrder, Advance
<1>4. CASE ~ live.deleting
  <2>1. Goto("setStatusToUnknown")
    BY <1>2, <1>4 DEF handleDelete
  <2> QED
    BY <1>1, <1>4, <2>1, AdvanceEarly
<1> QED
  BY <1>3, <1>4

\* An object that has its conditions goes on.
LEMMA setStatusToUnknownFinds ==
    ASSUME RolloutInv, setStatusToUnknown, ~ Due'
    PROVE  Findings'
<1>1. Passing /\ work.pc = "setStatusToUnknown" /\ work.pc \in Early /\ "removeFinalizer" \in Early
  BY DEF Passing, setStatusToUnknown, Early
<1>2. QuietStep
  BY <1>1, QuietSteps
<1>3. PICK status : status = UnknownIfNew(cache.status)
  OBVIOUS
<1>4. status \in Status
  <2>1. cache.status \in Status
    BY PersesFacts DEF RolloutInv, TypeOK
  <2> QED
    BY <1>3, <2>1 DEF UnknownIfNew, Status
<1>5. \/ StatusWritten(status) /\ EndOK
      \/ StatusUnchanged(status) /\ NothingSet
      \/ StatusGone(status) /\ IF cache.exists THEN EndOK ELSE NothingSet
  BY <1>3, NoFailure DEF setStatusToUnknown
<1>6. status = cache.status /\ cache.exists
  BY <1>2, <1>4, <1>5, QuietStatus DEF QuietStep
<1>7. ~ HasNoConditions(work.perses.status)
  <2>1. work.perses = cache
    BY <1>1, <1>2, PhaseOrder DEF QuietStep
  <2>2. cache.status \in Status
    BY PersesFacts DEF RolloutInv, TypeOK
  <2>3. [cache.status EXCEPT !.available = "Unknown"] # cache.status \/ cache.status.available # "none"
    BY <2>2 DEF Status
  <2> QED
    BY <1>3, <1>6, <2>1, <2>3 DEF UnknownIfNew, HasNoConditions
<1>8. Goto("removeFinalizer") /\ ~ live.deleting
  BY <1>1, <1>2, <1>5, <1>6, <1>7 DEF StatusWritten, StatusGone, NothingSet, QuietStep
<1> QED
  BY <1>1, <1>8, AdvanceEarly

\* One without the finalizer goes on.
LEMMA removeFinalizerFinds ==
    ASSUME RolloutInv, removeFinalizer, ~ Due'
    PROVE  Findings'
<1>1. Passing /\ work.pc = "removeFinalizer" /\ work.pc \in Early /\ "validateVolumes" \in Early
  BY DEF Passing, removeFinalizer, Early
<1>2. QuietStep
  BY <1>1, QuietSteps
<1>3. cache.exists /\ live.exists /\ ~ pdirty'
  BY <1>2 DEF QuietStep
<1>4. Goto("validateVolumes")
  BY <1>3, NoFailure DEF removeFinalizer, WriteFindsNone
<1>5. ~ live.deleting
  BY <1>1, <1>2 DEF QuietStep
<1> QED
  BY <1>1, <1>4, <1>5, AdvanceEarly

\* So does one whose mounts are defined.
LEMMA validateVolumesFinds ==
    ASSUME RolloutInv, validateVolumes, ~ Due'
    PROVE  Findings'
<1>1. Passing /\ work.pc = "validateVolumes" /\ work.pc \in Early /\ "reconcileProvisioning" \in Early
  BY DEF Passing, validateVolumes, Early
<1>2. QuietStep
  BY <1>1, QuietSteps
<1>3. Goto("reconcileProvisioning")
  BY NoFailure DEF validateVolumes
<1>4. ~ live.deleting
  BY <1>1, <1>2 DEF QuietStep
<1> QED
  BY <1>1, <1>3, <1>4, AdvanceEarly

\* A version that is read is the current one.
LEMMA readSecretFinds ==
    ASSUME RolloutInv, NEW s \in Secrets, readSecret(s), ~ Due'
    PROVE  Findings'
<1>1. Passing /\ work.pc = "reconcileProvisioning" /\ work.pc \in Early
  BY DEF Passing, readSecret, Early
<1>2. QuietStep /\ work \in Work /\ work.perses = live /\ ~ live.deleting
  BY <1>1, QuietSteps, PhaseOrder DEF RolloutInv, TypeOK, QuietStep
<1>3. work' = [work EXCEPT !.versions[s] = version[s]] /\ s \in live.spec.refs
  BY <1>2, NoFailure DEF readSecret
<1>4. work'.pc = "reconcileProvisioning" /\ work'.perses = live
  BY <1>1, <1>2, <1>3 DEF Work
<1>5. /\ \A r \in Secrets \ {s} : work'.versions[r] = work.versions[r]
      /\ work'.versions[s] = version[s]
  BY <1>2, <1>3 DEF Work, Versions
<1>6. \A r \in Secrets : \/ work.versions[r] = 0
                         \/ r \in live.spec.refs /\ work.versions[r] = version[r]
  BY <1>1, <1>2, PhaseOrder DEF QuietStep, RolloutInv, VersionsAreCurrent
<1>7. \A r \in Secrets : \/ work'.versions[r] = 0
                         \/ r \in live.spec.refs /\ work'.versions[r] = version[r]
  BY <1>3, <1>5, <1>6
<1> QED
  BY <1>1, <1>2, <1>4, <1>7, PhaseOrder, Advance

\* The versions in the status are those of the secrets the spec refers to.
LEMMA reconcileProvisioningFinds ==
    ASSUME RolloutInv, reconcileProvisioning, ~ Due'
    PROVE  Findings'
<1>1. Passing /\ work.pc = "reconcileProvisioning" /\ work.pc \in Early
  BY DEF Passing, reconcileProvisioning, Early
<1>2. QuietStep /\ work \in Work /\ work.perses = live /\ ~ live.deleting /\ cache = live
  BY <1>1, QuietSteps, PhaseOrder DEF RolloutInv, TypeOK, QuietStep
<1>3. \A s \in Secrets : \/ work.versions[s] = 0
                         \/ s \in live.spec.refs /\ work.versions[s] = version[s]
  BY <1>1, <1>2, PhaseOrder DEF QuietStep, RolloutInv, VersionsAreCurrent
<1>4. \A s \in live.spec.refs : work.versions[s] # 0
  BY <1>2 DEF reconcileProvisioning
<1>5. work.versions \in Versions /\ live.status \in Status /\ live.spec.refs \subseteq Secrets
  BY <1>2, PersesFacts DEF Work, RolloutInv, TypeOK
<1>6. work.versions = InUse
  BY <1>3, <1>4, <1>5 DEF Versions, InUse
<1>7. PICK status : status = [live.status EXCEPT !.provisioning = work.versions]
  OBVIOUS
<1>8. status \in Status /\ status.provisioning = work.versions
  BY <1>5, <1>7 DEF Status
<1>9. \/ work.versions = live.status.provisioning /\ Goto("reconcileService")
      \/ (StatusWritten(status) \/ StatusUnchanged(status)) /\ Goto("reconcileService")
      \/ StatusGone(status) /\ EndOK
  BY <1>2, <1>7, NoFailure DEF reconcileProvisioning
<1>10. CASE StatusGone(status) /\ EndOK
  <2>1. status # cache.status
    BY <1>2, <1>10 DEF StatusGone, QuietStep
  <2> QED
    BY <1>2, <1>8, <1>10, <2>1, QuietStatus
<1>11. CASE Goto("reconcileService")
  <2>1. live.status.provisioning = work.versions
    BY <1>2, <1>8, <1>9, <1>10, QuietStatus
  <2>2. work'.pc = "reconcileService" /\ work'.perses = live
    BY <1>2, <1>11, EndFacts, PhaseFacts
  <2>3. Behind("reconcileService")
    BY <1>6, <2>1 DEF Behind, StatefulSetDone, DeploymentDone, ConfigMapDone, ServiceDone, ProvisioningDone
  <2>4. "reconcileService" \in ProvisioningDone /\ "reconcileService" \notin ServiceDone
    BY DEF StatefulSetDone, DeploymentDone, ConfigMapDone, ServiceDone, ProvisioningDone
  <2> QED
    BY <1>1, <1>2, <2>2, <2>3, <2>4, Advance
<1> QED
  BY <1>9, <1>10, <1>11

\* The Service is made from the spec.
LEMMA reconcileServiceFinds ==
    ASSUME RolloutInv, reconcileService, ~ Due'
    PROVE  Findings'
<1>1. Passing /\ work.pc = "reconcileService"
  BY DEF Passing, reconcileService
<1>2. /\ "reconcileService" \notin ServiceDone /\ "reconcileConfigMap" \in ServiceDone
      /\ "reconcileConfigMap" \in ProvisioningDone /\ "reconcileService" # "handleDelete"
  BY DEF StatefulSetDone, DeploymentDone, ConfigMapDone, ServiceDone, ProvisioningDone
<1>3. QuietStep /\ work \in Work /\ work.perses = live /\ ~ live.deleting /\ live \in Perses
  BY <1>1, <1>2, QuietSteps DEF RolloutInv, TypeOK, QuietStep
<1>4. PICK c, child : c = live.spec.service /\ child = createPersesService(live)
  OBVIOUS
<1>5. /\ CreateChild(c, child) \/ UpdateChild(c, child)
      /\ work' = [work EXCEPT !.pc = "reconcileConfigMap", !.perses = AfterService(live)]
  BY <1>3, <1>4, NoFailure DEF reconcileService
<1>6. Holds(c, child)
  BY <1>3, <1>4, <1>5, QuietApply, PersesFacts, ChildNames
<1>7. work'.pc = "reconcileConfigMap" /\ work'.perses = AfterService(live)
  BY <1>3, <1>5 DEF Work
<1>8. Behind(work.pc)
  BY <1>3 DEF RolloutInv, DoneSoFar, QuietStep
<1>9. Behind("reconcileConfigMap")
  BY <1>1, <1>4, <1>6, <1>8 DEF Behind, StatefulSetDone, DeploymentDone, ConfigMapDone, ServiceDone, ProvisioningDone
<1> QED
  BY <1>1, <1>2, <1>3, <1>7, <1>9, Advance

\* What the phases after the Service have in common.
LEMMA LateStep ==
    ASSUME RolloutInv, Passing, ~ Due',
           work.pc \in {"reconcileConfigMap", "reconcileDeployment", "reconcileStatefulSet",
                        "setStatusToComplete"}
    PROVE  /\ QuietStep /\ work \in Work /\ live \in Perses
           /\ work.perses = AfterService(live) /\ ~ live.deleting /\ Behind(work.pc)
<1>1. work.pc \in ServiceDone /\ work.pc # "handleDelete"
  BY DEF StatefulSetDone, DeploymentDone, ConfigMapDone, ServiceDone
<1>2. QuietStep /\ work.perses = AfterService(live) /\ ~ live.deleting
  BY <1>1, QuietSteps DEF QuietStep
<1> QED
  BY <1>2 DEF QuietStep, RolloutInv, DoneSoFar, TypeOK

\* They go on to one another, or to rest.
LEMMA AdvanceLate ==
    ASSUME RolloutInv, Passing, ~ Due',
           work.pc \in {"reconcileConfigMap", "reconcileDeployment", "reconcileStatefulSet",
                        "setStatusToComplete"},
           NEW pc \in {"reconcileDeployment", "reconcileStatefulSet", "setStatusToComplete"},
           Goto(pc), Behind(pc)
    PROVE  Findings'
<1>1. work \in Work /\ work.perses = AfterService(live) /\ ~ live.deleting
  BY LateStep
<1>2. work'.pc = pc /\ work'.perses = AfterService(live)
  BY <1>1, EndFacts, PhaseFacts
<1>3. pc \in ServiceDone /\ pc \in ProvisioningDone /\ pc # "handleDelete"
  BY DEF StatefulSetDone, DeploymentDone, ConfigMapDone, ServiceDone, ProvisioningDone
<1> QED
  BY <1>1, <1>2, <1>3, Advance

\* The ConfigMap is made from the spec, with the annotations of the service.
LEMMA reconcileConfigMapFinds ==
    ASSUME RolloutInv, reconcileConfigMap, ~ Due'
    PROVE  Findings'
<1>1. Passing /\ work.pc = "reconcileConfigMap"
  BY DEF Passing, reconcileConfigMap
<1>2. QuietStep /\ work.perses = AfterService(live) /\ Behind("reconcileConfigMap")
  BY <1>1, LateStep
<1>3. PICK child : child = createPersesConfigMap(AfterService(live))
  OBVIOUS
<1>4. (CreateChild("ConfigMap", child) \/ UpdateChild("ConfigMap", child)) /\ Goto("reconcileDeployment")
  BY <1>2, <1>3, NoFailure DEF reconcileConfigMap
<1>5. Holds("ConfigMap", child)
  BY <1>2, <1>4, QuietApply, ChildNames
<1>6. Behind("reconcileDeployment")
  BY <1>2, <1>3, <1>5 DEF Behind, StatefulSetDone, DeploymentDone, ConfigMapDone, ServiceDone, ProvisioningDone
<1> QED
  BY <1>1, <1>4, <1>6, AdvanceLate

\* The Deployment is the one the spec calls for.
LEMMA reconcileDeploymentFinds ==
    ASSUME RolloutInv, reconcileDeployment, ~ Due'
    PROVE  Findings'
<1>1. Passing /\ work.pc = "reconcileDeployment"
  BY DEF Passing, reconcileDeployment
<1>2. QuietStep /\ work.perses = AfterService(live) /\ Behind("reconcileDeployment")
  BY <1>1, LateStep
<1>3. PICK p, child : p = AfterService(live) /\ child = createPersesDeployment(p)
  OBVIOUS
<1>4. /\ \/ ~ RequiresDeployment(p.spec) /\ Unneeded("Deployment")
         \/ RequiresDeployment(p.spec) /\ (CreateChild("Deployment", child) \/ UpdateChild("Deployment", child))
      /\ Goto("reconcileStatefulSet")
  BY <1>2, <1>3, NoFailure DEF reconcileDeployment
<1>5. WorkloadHolds("Deployment", RequiresDeployment(p.spec), child)
  BY <1>2, <1>4, QuietApply, QuietUnneeded, ChildNames DEF WorkloadHolds
<1>6. Behind("reconcileStatefulSet")
  BY <1>2, <1>3, <1>5 DEF Behind, StatefulSetDone, DeploymentDone, ConfigMapDone, ServiceDone, ProvisioningDone
<1> QED
  BY <1>1, <1>4, <1>6, AdvanceLate

\* So is the StatefulSet.
LEMMA reconcileStatefulSetFinds ==
    ASSUME RolloutInv, reconcileStatefulSet, ~ Due'
    PROVE  Findings'
<1>1. Passing /\ work.pc = "reconcileStatefulSet"
  BY DEF Passing, reconcileStatefulSet
<1>2. QuietStep /\ work.perses = AfterService(live) /\ Behind("reconcileStatefulSet")
  BY <1>1, LateStep
<1>3. PICK p, child : p = AfterService(live) /\ child = createPersesStatefulSet(p)
  OBVIOUS
<1>4. ~ CreateChild("StatefulSet", child)
  BY DEF CreateChild, Due
<1>5. /\ \/ ~ RequiresStatefulSet(p.spec) /\ Unneeded("StatefulSet")
         \/ RequiresStatefulSet(p.spec) /\ UpdateChild("StatefulSet", child)
      /\ Goto("setStatusToComplete")
  BY <1>2, <1>3, <1>4, NoFailure DEF reconcileStatefulSet
<1>6. WorkloadHolds("StatefulSet", RequiresStatefulSet(p.spec), child)
  BY <1>2, <1>5, QuietApply, QuietUnneeded, ChildNames DEF WorkloadHolds
<1>7. Behind("setStatusToComplete")
  BY <1>2, <1>3, <1>6 DEF Behind, StatefulSetDone, DeploymentDone, ConfigMapDone, ServiceDone, ProvisioningDone
<1> QED
  BY <1>1, <1>5, <1>7, AdvanceLate

\* The status says that the object is Available.
LEMMA setStatusToCompleteFinds ==
    ASSUME RolloutInv, setStatusToComplete, ~ Due'
    PROVE  Findings'
<1>1. Passing /\ work.pc = "setStatusToComplete"
  BY DEF Passing, setStatusToComplete
<1>2. QuietStep /\ Behind("setStatusToComplete") /\ live.status \in Status /\ cache = live
  BY <1>1, LateStep, PersesFacts DEF QuietStep
<1>3. PICK status : status = [live.status EXCEPT !.available = "True", !.degraded = "False"]
  OBVIOUS
<1>4. status \in Status /\ status.available = "True" /\ status.degraded = "False"
  BY <1>2, <1>3 DEF Status
<1>5. (StatusWritten(status) \/ StatusUnchanged(status) \/ StatusGone(status)) /\ EndOK
  BY <1>2, <1>3, NoFailure DEF setStatusToComplete
<1>6. live.status = status /\ work'.pc = "idle"
  BY <1>2, <1>4, <1>5, QuietStatus, NoneFacts DEF EndOK
<1>7. Behind("idle")
  BY <1>2, <1>4, <1>6 DEF Behind, StatefulSetDone, DeploymentDone, ConfigMapDone, ServiceDone, ProvisioningDone
<1> QED
  BY <1>1, <1>6, <1>7, PhaseOrder, Advance

-----------------------------------------------------------------------------
(***************************************************************************)
(* The invariant.                                                          *)
(***************************************************************************)

\* A pass leaves what it should.
LEMMA PassFinds ==
    ASSUME RolloutInv, Passing
    PROVE  Findings'
<1>1. CASE Due'
  BY <1>1, NothingToShow, PTL
<1>2. CASE ~ Due'
  BY <1>2, handleDeleteFinds, setStatusToUnknownFinds, removeFinalizerFinds, validateVolumesFinds,
     readSecretFinds, reconcileProvisioningFinds, reconcileServiceFinds, reconcileConfigMapFinds,
     reconcileDeploymentFinds, reconcileStatefulSetFinds, setStatusToCompleteFinds DEF Passing
<1> QED
  BY <1>1, <1>2

\* Nobody else disturbs what a pass has found without making another due: the
\* versions that change then are of secrets the spec does not refer to.
LEMMA OthersKeepFindings ==
    ASSUME RolloutInv, ~ Due', UNCHANGED <<live, kids, work, tracked, gauge>>, ~ Due,
           version \in [Secrets -> Nat],
           \A s \in live.spec.refs : version'[s] = version[s]
    PROVE  Findings'
<1>1. PassIsCurrent'
  BY DEF RolloutInv, PassIsCurrent, AfterService
<1>2. VersionsAreCurrent'
  BY DEF RolloutInv, VersionsAreCurrent
<1>3. DoneSoFar'
  <2>1. PICK pc : pc = work.pc
    OBVIOUS
  <2>2. Behind(pc) => Behind(pc)'
    BY BehindStays
  <2> QED
    BY <2>1, <2>2 DEF RolloutInv, DoneSoFar
<1>4. GoneIsForgotten'
  BY DEF RolloutInv, GoneIsForgotten
<1> QED
  BY <1>1, <1>2, <1>3, <1>4 DEF Findings

\* Every step leaves what it should.
LEMMA FindingsNext ==
    ASSUME RolloutInv, [Next]_vars
    PROVE  Findings'
<1>a. TypeOK /\ CachesFollow /\ live \in Perses /\ live.spec.refs \subseteq Secrets
  BY PersesFacts DEF RolloutInv, TypeOK
<1>b. SUFFICES ASSUME ~ Due'
               PROVE  Findings'
  BY NothingToShow, PTL
<1>1. CASE Reconcile
  <2>1. /\ ~ pdirty' /\ kdirty' = {}
        /\ UNCHANGED <<live, kids, version, cache, pdirty, kdirty>>
    BY <1>1, <1>b DEF Reconcile, clusterVars, watchVars, Due
  <2>2. cache = live
    BY <1>a, <2>1 DEF CachesFollow
  <2>3. CASE live.exists
    <3>1. work' = [IdleWork EXCEPT !.pc = "handleDelete", !.perses = live]
      BY <1>1, <2>2, <2>3 DEF Reconcile
    <3>2. work'.pc = "handleDelete" /\ work'.perses = live /\ work'.versions = NoVersions
      BY <3>1, NoneFacts DEF Work
    <3>3. "handleDelete" \in Early
      BY DEF Early
    <3>4. Behind("handleDelete")'
      BY DEF Behind, StatefulSetDone, DeploymentDone, ConfigMapDone, ServiceDone, ProvisioningDone
    <3>5. PassIsCurrent'
      BY <2>1, <2>3, <3>2, <3>3, PhaseOrder DEF PassIsCurrent
    <3>6. VersionsAreCurrent'
      BY <3>2 DEF VersionsAreCurrent, NoVersions
    <3>7. DoneSoFar'
      BY <3>2, <3>4 DEF DoneSoFar
    <3>8. GoneIsForgotten'
      BY <3>2 DEF GoneIsForgotten
    <3> QED
      BY <3>5, <3>6, <3>7, <3>8 DEF Findings
  <2>4. CASE ~ live.exists
    <3>1. work'.pc = "idle" /\ tracked' = "none" /\ gauge' = FALSE /\ ~ live'.exists
      BY <1>1, <2>1, <2>2, <2>4 DEF Reconcile
    <3> QED
      BY <3>1, PhaseOrder DEF Findings, PassIsCurrent, VersionsAreCurrent, DoneSoFar, GoneIsForgotten
  <2> QED
    BY <2>3, <2>4
<1>2. CASE Restart
  <2>1. ~ live'.exists /\ work' = IdleWork /\ tracked' = "none" /\ gauge' = FALSE
    BY <1>2, <1>b DEF Restart, clusterVars, Due
  <2>2. work'.pc = "idle"
    BY <2>1, NoneFacts
  <2> QED
    BY <2>1, <2>2, PhaseOrder DEF Findings, PassIsCurrent, VersionsAreCurrent, DoneSoFar, GoneIsForgotten
<1>3. CASE ~ Reconcile /\ ~ Restart
  <2>a. ~ Due
    BY <1>3, <1>a, <1>b, StaysDue
  <2>1. ~ UserWrites /\ ~ ChildWrites /\ ~ ObservePerses /\ ~ \E c \in Children : ObserveChild(c)
    BY <1>b DEF UserWrites, PutPerses, ChildWrites, ChangeChild, ObservePerses, ObserveChild, Due
  <2>2. CASE SecretWrites
    <3>1. PICK s \in Secrets : version' = [version EXCEPT ![s] = @ + 1] /\ sdirty' = sdirty \cup {s}
      BY <2>2 DEF SecretWrites
    <3>2. UNCHANGED <<live, kids, work, tracked, gauge>>
      BY <2>2 DEF SecretWrites, workVars
    <3>3. version \in [Secrets -> Nat]
      BY <1>a DEF TypeOK
    <3>4. CASE live.exists
      <4>1. s \notin live.spec.refs
        BY <1>b, <3>1, <3>2, <3>4 DEF Due
      <4>2. \A r \in live.spec.refs : version'[r] = version[r]
        BY <1>a, <3>1, <3>3, <4>1
      <4> QED
        BY <1>b, <2>a, <3>2, <3>3, <4>2, OthersKeepFindings
    <3>5. CASE ~ live.exists
      <4>1. work.pc = "idle"
        BY <2>a, <3>5 DEF RolloutInv, PassIsCurrent
      <4>2. tracked = "none" /\ ~ gauge
        BY <2>a, <3>5, <4>1 DEF RolloutInv, GoneIsForgotten
      <4> QED
        BY <3>2, <3>5, <4>1, <4>2, PhaseOrder
           DEF Findings, PassIsCurrent, VersionsAreCurrent, DoneSoFar, GoneIsForgotten
    <3> QED
      BY <3>4, <3>5
  <2>3. ASSUME NEW s \in Secrets, ObserveSecret(s)
        PROVE  Findings'
    <3>1. UNCHANGED <<live, kids, version, work, tracked, gauge>> /\ version \in [Secrets -> Nat]
      BY <1>a, <2>3 DEF ObserveSecret, clusterVars, TypeOK
    <3> QED
      BY <1>b, <2>a, <3>1, OthersKeepFindings
  <2>4. CASE UNCHANGED vars
    <3>1. UNCHANGED <<live, kids, version, work, tracked, gauge>> /\ version \in [Secrets -> Nat]
      BY <1>a, <2>4 DEF vars, clusterVars, watchVars, workVars, TypeOK
    <3> QED
      BY <1>b, <2>a, <3>1, OthersKeepFindings
  <2> QED
    BY <1>3, <1>a, <2>1, <2>2, <2>3, <2>4, StepCases, PassFinds
<1> QED
  BY <1>1, <1>2, <1>3

\* Where the controller starts, an object it finds is queued.
LEMMA RolloutInit ==
    ASSUME Init
    PROVE  RolloutInv
<1>a. /\ kids = [c \in Children |-> Absent] /\ version \in [Secrets -> {0, 1}]
      /\ cache = live /\ pdirty = FALSE /\ kcache = kids /\ kdirty = {} /\ sdirty = {}
      /\ queued = live.exists /\ work = IdleWork /\ current = FALSE /\ tracked = "none"
      /\ gauge = FALSE /\ budget \in Budgets
  BY Zenon DEF Init
<1>1. live \in Perses
  <2>1. CASE live = NoPerses
    BY <2>1, NoneFacts
  <2>2. ASSUME NEW s \in LegacySpecs,
               live = [NoPerses EXCEPT !.exists = TRUE, !.uid = 1, !.finalizer = TRUE, !.spec = s]
        PROVE  live \in Perses
    <3>1. s \in Spec_
      BY SpecsAssumption
    <3>2. PICK none \in Perses : none = NoPerses
      BY NoneFacts
    <3> QED
      BY <2>2, <3>1, <3>2 DEF Perses
  <2> QED
    BY <2>1, <2>2, Zenon DEF Init
<1>2. /\ kids \in [Children -> ChildRecord \cup {Absent}] /\ kcache = kids
      /\ \A c \in Children : kids[c] = Absent
  BY <1>a
<1>3. version \in [Secrets -> Nat]
  BY <1>a
<1>4. work \in Work /\ work.pc = "idle"
  BY <1>a, NoneFacts
<1>5. budget \in [EnvironmentMoves -> Nat]
  BY <1>a, BudgetsAssumption
<1>6. queued \in BOOLEAN /\ queued = live.exists
  BY <1>a, <1>1, PersesFacts
<1>7. TypeOK
  BY <1>a, <1>1, <1>2, <1>3, <1>4, <1>5, <1>6 DEF TypeOK
<1>8. CachesFollow
  BY <1>a, <1>2 DEF CachesFollow, Cached
<1>9. Findings
  <2>1. CASE queued
    BY <2>1, NothingToShow DEF Due
  <2>2. CASE ~ queued
    <3>1. ~ live.exists /\ tracked = "none" /\ ~ gauge
      BY <1>a, <2>2
    <3> QED
      BY <1>4, <3>1, PhaseOrder DEF Findings, PassIsCurrent, VersionsAreCurrent, DoneSoFar, GoneIsForgotten
  <2> QED
    BY <2>1, <2>2
<1> QED
  BY <1>7, <1>8, <1>9 DEF RolloutInv, Findings

\* The invariant holds: in every state with no pass due, the worker works with
\* the object as it is, everything the sub-reconcilers before its phase look at
\* is as they would have it, and an object that is gone is forgotten.
THEOREM RolloutInvariant == Spec => []RolloutInv
<1>1. Init => RolloutInv
  BY RolloutInit
<1>2. RolloutInv /\ [Next]_vars => RolloutInv'
  <2> SUFFICES ASSUME RolloutInv, [Next]_vars
               PROVE  RolloutInv'
    OBVIOUS
  <2>1. TypeOK' /\ CachesFollow'
    BY TypeNext DEF RolloutInv
  <2>2. Findings'
    BY FindingsNext
  <2> QED
    BY <2>1, <2>2 DEF RolloutInv, Findings
<1> QED
  BY <1>1, <1>2, PTL DEF Spec

\* Objects, children, caches and worker have their types.
THEOREM TypeCorrect == Spec => []TypeOK
<1>1. RolloutInv => TypeOK
  BY DEF RolloutInv
<1> QED
  BY <1>1, RolloutInvariant, PTL

-----------------------------------------------------------------------------
(***************************************************************************)
(* What an object at rest is like.                                         *)
(***************************************************************************)

\* Nothing is due at rest, so everything was seen to.
LEMMA AtRest ==
    ASSUME RolloutInv, Settled
    PROVE  /\ live \in Perses /\ Behind("idle")
           /\ live.status.provisioning = InUse
           /\ Holds(live.spec.service, createPersesService(live))
           /\ Holds("ConfigMap", createPersesConfigMap(AfterService(live)))
           /\ WorkloadHolds("Deployment", RequiresDeployment(live.spec),
                            createPersesDeployment(AfterService(live)))
           /\ WorkloadHolds("StatefulSet", RequiresStatefulSet(live.spec),
                            createPersesStatefulSet(AfterService(live)))
<1>1. ~ Due /\ work.pc = "idle" /\ live.exists /\ ~ live.deleting
  BY DEF Settled, Quiet, Due
<1>2. live \in Perses /\ Behind("idle")
  BY <1>1 DEF RolloutInv, DoneSoFar, TypeOK
<1>3. /\ RequiresDeployment(AfterService(live).spec) <=> RequiresDeployment(live.spec)
      /\ RequiresStatefulSet(AfterService(live).spec) <=> RequiresStatefulSet(live.spec)
  BY <1>2, AfterServiceFacts DEF RequiresDeployment, RequiresStatefulSet
<1> QED
  BY <1>2, <1>3 DEF Behind, WorkloadHolds, StatefulSetDone, DeploymentDone, ConfigMapDone, ServiceDone,
     ProvisioningDone

\* What a child that is as it should be has.
LEMMA HoldsFacts ==
    ASSUME TypeOK, NEW c \in Children, NEW child \in ChildRecord, Holds(c, child)
    PROVE  /\ kids[c] # Absent /\ kids[c].managed /\ kids[c].content = child.content
           /\ kids[c].labels = child.labels /\ kids[c].annotations = child.annotations
           /\ kids[c].provisioning = child.provisioning
<1>1. kids[c] # Absent /\ kids[c].managed /\ kids[c] \in ChildRecord
      /\ [kids[c] EXCEPT !.owner = child.owner] = child
  BY DEF Holds, TypeOK, SameChild
<1> QED
  BY <1>1 DEF ChildRecord

\* The fields of the children the builders make of the object.
LEMMA BuilderFacts ==
    ASSUME NEW p \in Perses
    PROVE  LET q == AfterService(p)
               own == MapOf(p.spec.annotations) \cup p.spec.serviceAnnotations IN
           /\ createPersesService(p).content = p.spec.content
           /\ createPersesService(p).labels = p.spec.labels
           /\ createPersesService(p).annotations = own
           /\ \A child \in {createPersesConfigMap(q), createPersesDeployment(q), createPersesStatefulSet(q)} :
                 /\ child \in ChildRecord
                 /\ child.content = p.spec.content /\ child.labels = p.spec.labels
                 /\ MapOf(p.spec.annotations) \subseteq child.annotations /\ child.annotations \subseteq own
           /\ createPersesDeployment(q).provisioning = p.status.provisioning
           /\ createPersesStatefulSet(q).provisioning = p.status.provisioning
<1> DEFINE q == AfterService(p)
<1> DEFINE own == MapOf(p.spec.annotations) \cup p.spec.serviceAnnotations
<1>1. /\ q \in Perses /\ q.spec.content = p.spec.content /\ q.spec.labels = p.spec.labels
      /\ q.status = p.status
  BY AfterServiceFacts
<1>2. MapOf(p.spec.annotations) \subseteq MapOf(q.spec.annotations) /\ MapOf(q.spec.annotations) \subseteq own
  BY AfterServiceFacts DEF MapOf
<1>3. /\ createPersesService(p).content = p.spec.content
      /\ createPersesService(p).labels = p.spec.labels
      /\ createPersesService(p).annotations = own
  BY DEF createPersesService, Child
<1>4. ASSUME NEW child \in {createPersesConfigMap(q), createPersesDeployment(q), createPersesStatefulSet(q)}
      PROVE  /\ child \in ChildRecord
             /\ child.content = q.spec.content /\ child.labels = q.spec.labels
             /\ child.annotations = MapOf(q.spec.annotations)
  <2>1. child \in ChildRecord
    BY <1>1, ChildFacts
  <2>2. \E v : child = Child(q, MapOf(q.spec.annotations), v)
    BY DEF createPersesConfigMap, createPersesDeployment, createPersesStatefulSet
  <2> QED
    BY <2>1, <2>2 DEF Child
<1>5. /\ createPersesDeployment(q).provisioning = q.status.provisioning
      /\ createPersesStatefulSet(q).provisioning = q.status.provisioning
  BY DEF createPersesDeployment, createPersesStatefulSet, Child
<1> HIDE DEF q
<1>6. \A child \in {createPersesConfigMap(q), createPersesDeployment(q), createPersesStatefulSet(q)} :
         /\ child \in ChildRecord
         /\ child.content = p.spec.content /\ child.labels = p.spec.labels
         /\ MapOf(p.spec.annotations) \subseteq child.annotations /\ child.annotations \subseteq own
  BY <1>1, <1>2, <1>4
<1> QED
  BY <1>1, <1>3, <1>5, <1>6 DEF q

\* The children of an object at rest, whoever owns them.
LEMMA ChildrenAtRest ==
    ASSUME RolloutInv, Settled
    PROVE  LET own == MapOf(live.spec.annotations) \cup live.spec.serviceAnnotations IN
           /\ \A c \in {live.spec.service, "ConfigMap"} \cup Required :
                 /\ c \in Children /\ kids[c] # Absent /\ kids[c].managed
                 /\ kids[c].content = live.spec.content /\ kids[c].labels = live.spec.labels
           /\ kids[live.spec.service].annotations = own
           /\ \A c \in {"ConfigMap"} \cup Required :
                 /\ MapOf(live.spec.annotations) \subseteq kids[c].annotations
                 /\ kids[c].annotations \subseteq own
           /\ \A w \in Required : kids[w].provisioning = InUse
<1> DEFINE own == MapOf(live.spec.annotations) \cup live.spec.serviceAnnotations
<1> DEFINE q == AfterService(live)
<1>1. TypeOK /\ live \in Perses /\ live.spec.service \in Children
  BY PersesFacts, ChildNames DEF RolloutInv, TypeOK
<1>2. /\ createPersesService(live).content = live.spec.content
      /\ createPersesService(live).labels = live.spec.labels
      /\ createPersesService(live).annotations = own
      /\ \A child \in {createPersesConfigMap(q), createPersesDeployment(q), createPersesStatefulSet(q)} :
            /\ child \in ChildRecord
            /\ child.content = live.spec.content /\ child.labels = live.spec.labels
            /\ MapOf(live.spec.annotations) \subseteq child.annotations /\ child.annotations \subseteq own
      /\ createPersesDeployment(q).provisioning = live.status.provisioning
      /\ createPersesStatefulSet(q).provisioning = live.status.provisioning
  BY <1>1, BuilderFacts
<1>3. /\ live.status.provisioning = InUse
      /\ Holds(live.spec.service, createPersesService(live))
      /\ Holds("ConfigMap", createPersesConfigMap(q))
      /\ RequiresDeployment(live.spec) => Holds("Deployment", createPersesDeployment(q))
      /\ RequiresStatefulSet(live.spec) => Holds("StatefulSet", createPersesStatefulSet(q))
  BY AtRest DEF WorkloadHolds
<1> HIDE DEF q, own
<1>4. createPersesService(live) \in ChildRecord
  BY <1>1, ChildFacts
<1>5. /\ kids[live.spec.service] # Absent /\ kids[live.spec.service].managed
      /\ kids[live.spec.service].content = live.spec.content
      /\ kids[live.spec.service].labels = live.spec.labels
      /\ kids[live.spec.service].annotations = own
  BY <1>1, <1>2, <1>3, <1>4, HoldsFacts
<1>6. ASSUME NEW c \in Children,
             NEW child \in {createPersesConfigMap(q), createPersesDeployment(q), createPersesStatefulSet(q)},
             Holds(c, child)
      PROVE  /\ kids[c] # Absent /\ kids[c].managed
             /\ kids[c].content = live.spec.content /\ kids[c].labels = live.spec.labels
             /\ MapOf(live.spec.annotations) \subseteq kids[c].annotations
             /\ kids[c].annotations \subseteq own
             /\ kids[c].provisioning = child.provisioning
  <2>1. child \in ChildRecord
    BY <1>2
  <2> QED
    BY <1>1, <1>2, <1>6, <2>1, HoldsFacts
<1>7. ASSUME NEW w \in Required
      PROVE  /\ w \in Children
             /\ \E child \in {createPersesDeployment(q), createPersesStatefulSet(q)} :
                   Holds(w, child) /\ child.provisioning = InUse
  BY <1>2, <1>3, ChildNames DEF Required, Workloads
<1>8. ASSUME NEW w \in Required
      PROVE  /\ w \in Children /\ kids[w] # Absent /\ kids[w].managed
             /\ kids[w].content = live.spec.content /\ kids[w].labels = live.spec.labels
             /\ MapOf(live.spec.annotations) \subseteq kids[w].annotations
             /\ kids[w].annotations \subseteq own
             /\ kids[w].provisioning = InUse
  BY <1>6, <1>7
<1>9. /\ "ConfigMap" \in Children /\ kids["ConfigMap"] # Absent /\ kids["ConfigMap"].managed
      /\ kids["ConfigMap"].content = live.spec.content /\ kids["ConfigMap"].labels = live.spec.labels
      /\ MapOf(live.spec.annotations) \subseteq kids["ConfigMap"].annotations
      /\ kids["ConfigMap"].annotations \subseteq own
  BY <1>3, <1>6, ChildNames
<1> QED
  BY <1>1, <1>5, <1>8, <1>9 DEF own

\* The controller never rests with a child that is missing, outdated, edited,
\* unlabelled or owned by an earlier incarnation of the object.
THEOREM DeployedWhenSettled == Spec => []SettledMeansDeployed
<1>1. RolloutInv => SettledMeansDeployed
  <2> SUFFICES ASSUME RolloutInv, Settled,
                      NEW c \in {live.spec.service, "ConfigMap"} \cup Required
               PROVE  Current(c)
    BY DEF SettledMeansDeployed
  <2>1. /\ c \in Children /\ kids[c] # Absent /\ kids[c].managed
        /\ kids[c].content = live.spec.content /\ kids[c].labels = live.spec.labels
    BY ChildrenAtRest
  <2>2. kids[c].owner = live.uid
    BY <2>1 DEF Settled, Quiet, Garbage
  <2> QED
    BY <2>1, <2>2 DEF Current
<1> QED
  BY <1>1, RolloutInvariant, PTL

\* Nor with the workload of an earlier storage configuration, unless it was hidden.
THEOREM OneWorkloadWhenSettled == Spec => []SettledMeansOneWorkload
<1>1. RolloutInv => SettledMeansOneWorkload
  BY AtRest DEF SettledMeansOneWorkload, Workloads, Required, WorkloadHolds
<1> QED
  BY <1>1, RolloutInvariant, PTL

\* Nor with pods started with other versions of the provisioning secrets.
THEOREM ProvisionedWhenSettled == Spec => []SettledMeansProvisioned
<1>1. RolloutInv => SettledMeansProvisioned
  BY ChildrenAtRest DEF SettledMeansProvisioned
<1> QED
  BY <1>1, RolloutInvariant, PTL

\* Nor with annotations that are missing or come from anywhere but the spec.
THEOREM AnnotatedWhenSettled == Spec => []SettledMeansAnnotated
<1>1. RolloutInv => SettledMeansAnnotated
  BY ChildrenAtRest DEF SettledMeansAnnotated
<1> QED
  BY <1>1, RolloutInvariant, PTL

\* Nor without having said that the object is Available.
THEOREM AvailableWhenSettled == Spec => []SettledMeansAvailable
<1>1. RolloutInv => SettledMeansAvailable
  BY AtRest DEF SettledMeansAvailable, Behind
<1> QED
  BY <1>1, RolloutInvariant, PTL

\* A deleted object leaves no child, no tracked state and no gauge.
THEOREM GoneWhenSettled == Spec => []SettledMeansGone
<1>1. RolloutInv => SettledMeansGone
  <2> SUFFICES ASSUME RolloutInv, Quiet, ~ live.exists
               PROVE  (\A c \in Children : kids[c] = Absent) /\ tracked = "none" /\ ~ gauge
    BY DEF SettledMeansGone
  <2>1. ~ Due /\ work.pc = "idle"
    BY DEF Quiet, Due
  <2>2. tracked = "none" /\ ~ gauge
    BY <2>1 DEF RolloutInv, GoneIsForgotten
  <2>3. \A c \in Children : kids[c] = Absent
    BY DEF Quiet, Garbage
  <2> QED
    BY <2>2, <2>3
<1> QED
  BY <1>1, RolloutInvariant, PTL

\* Conditions written from an old copy never replace newer ones: the write of the
\* status is refused unless the copy it starts from is the current one.
THEOREM ConditionsKept == Spec => ConditionsNeverReset
<1>1. ASSUME RolloutInv, [Next]_vars, live.uid = live'.uid,
             live.status.available \in {"True", "False"}
      PROVE  live'.status.available # "Unknown"
  <2>1. CASE UNCHANGED live
    BY <1>1, <2>1
  <2>2. CASE UserWrites
    <3>1. PICK p \in Perses : PutPerses(p) /\ (live.uid = p.uid => p.status = live.status \/ p.status = NoStatus)
      BY <2>2 DEF UserWrites
    <3>2. live' = p
      BY <3>1 DEF PutPerses
    <3> QED
      BY <1>1, <3>1, <3>2 DEF NoStatus
  <2>3. CASE Passing
    BY <1>1, <2>3, PassSteps DEF RolloutInv, PassStep, ObjectStep, objectVars
  <2>4. ASSUME NEW c \in Children, ObserveChild(c)
        PROVE  UNCHANGED live
    BY <2>4 DEF ObserveChild, clusterVars
  <2>5. ASSUME NEW s \in Secrets, ObserveSecret(s)
        PROVE  UNCHANGED live
    BY <2>5 DEF ObserveSecret, clusterVars
  <2>6. CASE ChildWrites \/ SecretWrites \/ ObservePerses \/ Restart \/ Reconcile \/ UNCHANGED vars
    BY <2>1, <2>6 DEF ChildWrites, ChangeChild, SecretWrites, ObservePerses, Restart, Reconcile, clusterVars, vars
  <2> QED
    BY <1>1, <2>1, <2>2, <2>3, <2>4, <2>5, <2>6, StepCases DEF RolloutInv
<1>2. RolloutInv /\ [Next]_vars
        => [(live.uid = live'.uid /\ live.status.available \in {"True", "False"})
               => live'.status.available # "Unknown"]_vars
  BY <1>1
<1> QED
  BY <1>2, RolloutInvariant, PTL DEF Spec, ConditionsNeverReset
=============================================================================
