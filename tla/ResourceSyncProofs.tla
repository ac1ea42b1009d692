------------------------ MODULE ResourceSyncProofs ------------------------
(***************************************************************************)
(* Proofs about the resource controllers, for any number of objects and    *)
(* Perses instances, any contents, labels and selectors, and any number of *)
(* edits, faults, restarts and other moves of the environment.             *)
(***************************************************************************)
EXTENDS ResourceSync, TLAPS

\* Where the calls of one instance lead, for the three kinds.
LEMMA FlowFacts ==
    /\ SyncFlow.client \in {"project", "get"}
    /\ SyncFlow.project = "get"
    /\ SyncFlow.validate = IF Kind = "PersesDashboard" THEN "write" ELSE "secret"
    /\ DeleteFlow.client \in {"delProject", "delete"}
    /\ DeleteFlow.delete = IF Kind = "PersesDashboard" THEN "next" ELSE "delSecret"
  BY KindAssumption DEF Kinds, SyncFlow, DeleteFlow, syncPersesDatasource, syncPersesDashboard,
     syncPersesGlobalDatasource, deleteDatasource, deleteDashboard, deleteGlobalDatasource

\* The idle worker.
LEMMA IdleFacts ==
    /\ IdleWork \in Work
    /\ IdleWork.pc = "idle" /\ IdleWork.obj = Absent /\ IdleWork.deleting = FALSE
    /\ IdleWork.listed = {} /\ IdleWork.todo = {}
  BY DEF IdleWork, Work, Phases

\* A move of the environment leaves a budget.
LEMMA SpendType ==
    ASSUME NEW move \in EnvironmentMoves, budget \in [EnvironmentMoves -> Nat], Spend(move)
    PROVE  budget' \in [EnvironmentMoves -> Nat]
  BY DEF Spend

\* The pass under way goes on: same key, same spec, same list.
SamePass ==
    /\ work'.obj = work.obj /\ work'.spec = work.spec /\ work'.deleting = work.deleting
    /\ work'.listed = work.listed

\* A jump to another phase leaves the rest of the pass alone.
LEMMA GotoFacts ==
    ASSUME work \in Work, NEW pc \in Phases, Goto(pc)
    PROVE  /\ work' \in Work /\ SamePass
           /\ work'.pc = pc /\ work'.todo = work.todo /\ work'.inst = work.inst
           /\ work'.cred = work.cred /\ work'.reason = work.reason
  BY DEF Goto, Work, SamePass

\* What an error does to the pass and the queue.
LEMMA AbortFacts ==
    ASSUME work \in Work, NEW reason \in Reasons \cup {"none"}, Abort(reason)
    PROVE  /\ work' \in Work
           /\ work.deleting => work' = IdleWork /\ queue' = queue \cup {work.obj}
           /\ ~ work.deleting => /\ work'.pc = "degrade" /\ work'.reason = reason
                                 /\ SamePass /\ queue' = queue
<1>1. CASE work.deleting
  BY <1>1, IdleFacts DEF Abort
<1>2. CASE ~ work.deleting
  <2>1. work' = [work EXCEPT !.pc = "degrade", !.reason = reason] /\ queue' = queue
    BY <1>2 DEF Abort
  <2>2. "degrade" \in Phases
    BY DEF Phases
  <2> QED
    BY <2>1, <2>2, <1>2 DEF Work, SamePass
<1> QED
  BY <1>1, <1>2

\* The phases, spelled out once.
LEMMA PhaseFacts ==
    /\ InstancePhases \subseteq Phases
    /\ "idle" \notin InstancePhases /\ "unknown" \notin InstancePhases /\ "list" \notin InstancePhases
    /\ "next" \notin InstancePhases /\ "complete" \notin InstancePhases /\ "degrade" \notin InstancePhases
    /\ "idle" \in Phases /\ "unknown" \in Phases /\ "list" \in Phases /\ "next" \in Phases
    /\ "complete" \in Phases /\ "degrade" \in Phases
  BY DEF InstancePhases, Phases

\* Type correctness of the controller, its caches and its environment.
LEMMA TypeInit == Init => TypeOK
<1> SUFFICES ASSUME Init PROVE TypeOK
  OBVIOUS
<1>1. (CHOOSE v \in Values : TRUE) \in Values /\ (CHOOSE s \in Selectors : TRUE) \in Selectors
  BY ValuesAssumption, SelectorsAssumption
<1>2. cr \in [Objects -> Resource]
  BY <1>1 DEF Init, Resource, NoStatus, Status
<1>3. credential \in [Objects -> Nat]
  BY DEF Init
<1>4. budget \in [EnvironmentMoves -> Nat]
  BY BudgetsAssumption DEF Init
<1> QED
  BY <1>2, <1>3, <1>4, IdleFacts DEF Init, TypeOK, InstancePhases


\* The worker's part of the type invariant, with the phases of a pass.
WorkOK ==
    /\ work \in Work
    /\ work.pc # "idle" => work.obj \in Objects /\ (work.deleting <=> work.spec = Absent)
    /\ work.pc \in InstancePhases => work.inst \in Instances
    /\ work.pc = "degrade" => work.reason \in Reasons
    /\ PassPhases

\* The two ways a call of one instance can end: the pass goes on at the same
\* instance in one of these phases, or it is given up.
Continues(phases) ==
    /\ work' \in Work /\ SamePass
    /\ work'.todo = work.todo /\ work'.inst = work.inst /\ queue' = queue
    /\ work'.pc \in phases
Aborted ==
    /\ work' \in Work
    /\ IF work.deleting
          THEN work' = IdleWork /\ queue' = queue \cup {work.obj}
          ELSE /\ work'.pc = "degrade" /\ work'.reason \in Reasons
               /\ SamePass /\ queue' = queue

\* An error of a call gives the pass up.
LEMMA AbortIsAborted ==
    ASSUME WorkOK, NEW reason \in Reasons \cup {"none"}, Abort(reason),
           ~ work.deleting => reason \in Reasons
    PROVE  Aborted
  BY AbortFacts DEF Aborted, WorkOK

\* What each call of an instance does to the pass.
LEMMA CreateClientCall ==
    ASSUME WorkOK, CreateClient
    PROVE  \/ Aborted
           \/ Continues(IF work.deleting THEN {"delProject", "delete"} ELSE {"project", "get"})
<1>1. CASE Goto(Flow.client) /\ UNCHANGED <<queue, budget>>
  <2>1. Flow.client \in Phases /\ Flow.client \in IF work.deleting THEN {"delProject", "delete"} ELSE {"project", "get"}
    BY FlowFacts DEF Flow, Phases, InstancePhases
  <2> QED
    BY <1>1, <2>1, GotoFacts DEF WorkOK, Continues
<1>2. CASE Abort("ConnectionFailed")
  BY <1>2, AbortIsAborted DEF Reasons
<1> QED
  BY <1>1, <1>2 DEF CreateClient

\* The project is found, has to be created, or the pass is given up.
LEMMA getProjectCall ==
    ASSUME WorkOK, getProject
    PROVE  Aborted \/ Continues({"get", "createProject"})
<1>1. ASSUME NEW pc \in {"get", "createProject"}, Goto(pc), UNCHANGED queue
      PROVE  Continues({"get", "createProject"})
  BY <1>1, GotoFacts DEF WorkOK, Continues, Phases, InstancePhases
<1>2. CASE Abort("BackendError")
  BY <1>2, AbortIsAborted DEF Reasons
<1> QED
  BY <1>1, <1>2, FlowFacts DEF getProject

\* The project is created, or the pass is given up.
LEMMA createProjectCall ==
    ASSUME WorkOK, createProject
    PROVE  Aborted \/ Continues({"get"})
<1>1. CASE Goto("get") /\ UNCHANGED queue
  BY <1>1, GotoFacts DEF WorkOK, Continues, Phases, InstancePhases
<1>2. CASE Abort("BackendError")
  BY <1>2, AbortIsAborted DEF Reasons
<1> QED
  BY <1>1, <1>2, FlowFacts DEF createProject

\* An object that is in sync holds the spec of the pass, which goes to the next
\* instance; any other one has its value validated.
LEMMA getExistingCall ==
    ASSUME WorkOK, getExisting
    PROVE  \/ Aborted
           \/ Continues({"next"}) /\ stored[work.inst][work.obj] = work.spec.value
           \/ Continues({"validate"})
<1>1. CASE /\ InSync(stored[work.inst][work.obj], work.spec.value)
           /\ work' = [work EXCEPT !.pc = "next"] /\ UNCHANGED queue
  BY <1>1, PhaseFacts DEF InSync, WorkOK, Work, Continues, SamePass
<1>2. CASE work' = [work EXCEPT !.pc = "validate", !.notFound = (stored[work.inst][work.obj] = Absent)] /\ UNCHANGED queue
  <2> DEFINE found == stored[work.inst][work.obj] = Absent
  <2>1. found \in BOOLEAN /\ "validate" \in Phases
    BY DEF Phases, InstancePhases
  <2>2. work' = [work EXCEPT !.pc = "validate", !.notFound = found]
    BY <1>2
  <2> HIDE DEF found
  <2> QED
    BY <1>2, <2>1, <2>2 DEF WorkOK, Work, Continues, SamePass
<1>3. CASE Abort("BackendError")
  BY <1>3, AbortIsAborted DEF Reasons
<1> QED
  BY <1>1, <1>2, <1>3 DEF getExisting

\* Validation lets a value through that is not invalid, and only that.
LEMMA validateCall ==
    ASSUME WorkOK, validate
    PROVE  \/ Aborted
           \/ /\ Continues({"secret", "write"}) /\ work.spec.value \notin InvalidValues
              /\ work'.pc = IF work.spec.client /\ Kind # "PersesDashboard" THEN "secret" ELSE "write"
<1>1. ASSUME NEW pc \in {"secret", "write"}, Goto(pc), UNCHANGED queue
      PROVE  Continues({"secret", "write"}) /\ work'.pc = pc
  BY <1>1, GotoFacts DEF WorkOK, Continues, Phases, InstancePhases
<1>2. CASE Abort("BackendError") \/ Abort("ValidationFailed")
  BY <1>2, AbortIsAborted DEF Reasons
<1> QED
  BY <1>1, <1>2, FlowFacts DEF validate

\* The credential is read, or the pass is given up.
LEMMA readCredentialCall ==
    ASSUME WorkOK, readCredential, credential \in [Objects -> Nat], work.obj \in Objects
    PROVE  Aborted \/ Continues({"writeSecret"})
<1>1. CASE work' = [work EXCEPT !.pc = "writeSecret", !.cred = credential[work.obj]] /\ UNCHANGED queue
  BY <1>1 DEF WorkOK, Work, Continues, SamePass, Phases, InstancePhases
<1>2. CASE Abort("InvalidConfiguration")
  BY <1>2, AbortIsAborted DEF Reasons
<1> QED
  BY <1>1, <1>2 DEF readCredential

\* The secret that is written holds the credential the pass has read.
LEMMA writeSecretCall ==
    ASSUME WorkOK, writeSecret
    PROVE  \/ Aborted /\ secret' = secret
           \/ /\ Continues({"write"}) /\ work'.cred = work.cred /\ Running(work.inst)
              /\ secret' = [secret EXCEPT ![work.inst][work.obj] = work.cred]
<1>1. ASSUME Goto("write"), UNCHANGED queue
      PROVE  Continues({"write"}) /\ work'.cred = work.cred
  BY <1>1, GotoFacts DEF WorkOK, Continues, Phases, InstancePhases
<1>2. ASSUME Abort("BackendError")
      PROVE  Aborted
  BY <1>2, AbortIsAborted DEF Reasons
<1> QED
  BY <1>1, <1>2 DEF writeSecret, Answers

\* The object that is written is the one of the spec the pass began with.
LEMMA writeObjectCall ==
    ASSUME WorkOK, writeObject
    PROVE  \/ Aborted /\ stored' = stored
           \/ /\ Continues({"next"}) /\ Running(work.inst)
              /\ stored' = [stored EXCEPT ![work.inst][work.obj] = work.spec.value]
<1>1. ASSUME Goto("next"), UNCHANGED queue
      PROVE  Continues({"next"}) /\ work'.cred = work.cred
  BY <1>1, GotoFacts, PhaseFacts DEF WorkOK, Continues
<1>2. ASSUME Abort("BackendError")
      PROVE  Aborted
  BY <1>2, AbortIsAborted DEF Reasons
<1> QED
  BY <1>1, <1>2 DEF writeObject, Answers

\* A deletion asks for the project, and gives up if there is no answer ...
LEMMA getProjectToDeleteCall ==
    ASSUME WorkOK, getProjectToDelete
    PROVE  Aborted \/ Continues({"delete"})
<1>0. work.deleting
  BY DEF getProjectToDelete, WorkOK, PassPhases
<1>1. CASE Goto("delete") /\ UNCHANGED queue
  BY <1>1, GotoFacts DEF WorkOK, Continues, Phases, InstancePhases
<1>2. CASE Abort("none")
  BY <1>0, <1>2, AbortIsAborted
<1> QED
  BY <1>1, <1>2 DEF getProjectToDelete

\* ... deletes this object and no other one ...
LEMMA deleteObjectCall ==
    ASSUME WorkOK, deleteObject
    PROVE  \/ Aborted /\ stored' = stored
           \/ /\ Continues({IF Kind = "PersesDashboard" THEN "next" ELSE "delSecret"})
              /\ stored' = [stored EXCEPT ![work.inst][work.obj] = Absent]
<1>0. work.deleting
  BY DEF deleteObject, WorkOK, PassPhases
<1>1. ASSUME NEW pc \in {"next", "delSecret"}, Goto(pc), UNCHANGED queue
      PROVE  Continues({pc})
  BY <1>1, GotoFacts DEF WorkOK, Continues, Phases, InstancePhases
<1>2. ASSUME Abort("none")
      PROVE  Aborted
  BY <1>0, <1>2, AbortIsAborted
<1> QED
  BY <1>1, <1>2, FlowFacts DEF deleteObject

\* ... and then its secret, and goes to the next instance.
LEMMA deleteSecretCall ==
    ASSUME WorkOK, deleteSecret
    PROVE  \/ Aborted /\ secret' = secret
           \/ /\ Continues({"next"})
              /\ secret' = [secret EXCEPT ![work.inst][work.obj] = Absent]
<1>0. work.deleting
  BY DEF deleteSecret, WorkOK, PassPhases
<1>1. ASSUME Goto("next"), UNCHANGED queue
      PROVE  Continues({"next"}) /\ work'.cred = work.cred
  BY <1>1, GotoFacts, PhaseFacts DEF WorkOK, Continues
<1>2. ASSUME Abort("none")
      PROVE  Aborted
  BY <1>0, <1>2, AbortIsAborted
<1> QED
  BY <1>1, <1>2 DEF deleteSecret

\* A pass begins with what its Get has found.
LEMMA ReconcileFacts ==
    ASSUME TypeOK, NEW o \in Objects, Reconcile(o)
    PROVE  \/ /\ cr[o].exists /\ queue' = queue \ {o} /\ UNCHANGED metricVars
              /\ work' \in Work /\ work'.pc = "unknown" /\ work'.obj = o /\ work'.deleting = FALSE
              /\ work'.spec = [value |-> cr[o].value, selector |-> cr[o].selector, client |-> cr[o].client]
              /\ work'.spec # Absent
           \/ /\ ~ cr[o].exists /\ queue' = queue \ {o} /\ ForgetTracked(o) /\ ForgetReported(o)
              /\ work' \in Work /\ work'.pc = "list" /\ work'.obj = o /\ work'.deleting = TRUE
              /\ work'.spec = Absent /\ work'.listed = {}
           \/ UNCHANGED <<queue, work, metricVars>>
<1>1. ASSUME work' = [IdleWork EXCEPT !.pc = "unknown", !.obj = o,
                        !.spec = [value |-> cr[o].value, selector |-> cr[o].selector,
                                  client |-> cr[o].client]]
      PROVE  /\ work' \in Work /\ work'.pc = "unknown" /\ work'.obj = o /\ work'.deleting = FALSE
             /\ work'.spec = [value |-> cr[o].value, selector |-> cr[o].selector, client |-> cr[o].client]
             /\ work'.spec # Absent
  <2> DEFINE spec == [value |-> cr[o].value, selector |-> cr[o].selector, client |-> cr[o].client]
  <2>1. spec \in SpecSnapshot /\ spec # Absent
    BY AbsentAssumption DEF TypeOK, Resource, SpecSnapshot
  <2>2. work' = [IdleWork EXCEPT !.pc = "unknown", !.obj = o, !.spec = spec]
    BY <1>1
  <2> HIDE DEF spec
  <2>3. /\ work' \in Work /\ work'.pc = "unknown" /\ work'.obj = o /\ work'.deleting = FALSE
        /\ work'.spec = spec
    BY <2>1, <2>2, IdleFacts, PhaseFacts DEF Work, IdleWork
  <2> QED
    BY <2>1, <2>3 DEF spec
<1>2. ASSUME work' = [IdleWork EXCEPT !.pc = "list", !.obj = o, !.deleting = TRUE]
      PROVE  /\ work' \in Work /\ work'.pc = "list" /\ work'.obj = o /\ work'.deleting = TRUE
             /\ work'.spec = Absent /\ work'.listed = {}
  BY <1>2, IdleFacts, PhaseFacts DEF Work, IdleWork
<1> QED
  BY <1>1, <1>2 DEF Reconcile

\* The list of a reconciliation: nothing to do is an error, and so is a selector
\* that cannot be read.
LEMMA reconcileInAllFacts ==
    ASSUME WorkOK, reconcileInAllInstances
    PROVE  LET available == {i \in Instances : pcache[i].exists /\ pcache[i].label \in work.spec.selector
                                               /\ pcache[i].available} IN
           \/ EndFailed(work.obj)
           \/ Aborted /\ UNCHANGED metricVars
           \/ /\ work' \in Work /\ work'.obj = work.obj /\ work'.spec = work.spec
              /\ work'.deleting = FALSE /\ work'.pc = "next"
              /\ work'.todo = available /\ work'.listed = available
              /\ UNCHANGED <<queue, metricVars>>
<1> DEFINE listed == {i \in Instances : pcache[i].exists /\ pcache[i].label \in work.spec.selector}
           available == {i \in listed : pcache[i].available}
<1>1. ASSUME work' = [work EXCEPT !.pc = "next", !.todo = available, !.listed = available], ~ work.deleting
      PROVE  /\ work' \in Work /\ work'.obj = work.obj /\ work'.spec = work.spec
             /\ work'.deleting = FALSE /\ work'.pc = "next"
             /\ work'.todo = available /\ work'.listed = available
  <2>1. available \in SUBSET Instances
    OBVIOUS
  <2> HIDE DEF available
  <2> QED
    BY <1>1, <2>1, PhaseFacts DEF WorkOK, Work
<1>2. ASSUME Abort("PersesMissing")
      PROVE  Aborted
  BY <1>2, AbortIsAborted DEF Reasons
<1>3. available = {i \in Instances : pcache[i].exists /\ pcache[i].label \in work.spec.selector
                                     /\ pcache[i].available}
  OBVIOUS
<1>4. \/ EndFailed(work.obj)
      \/ Abort("PersesMissing") /\ UNCHANGED metricVars
      \/ work' = [work EXCEPT !.pc = "next", !.todo = available, !.listed = available] /\ UNCHANGED <<queue, metricVars>>
  BY DEF reconcileInAllInstances
<1>5. ~ work.deleting
  BY DEF reconcileInAllInstances
<1> HIDE DEF available
<1> QED
  BY <1>1, <1>2, <1>3, <1>4, <1>5

\* The list of a deletion.
LEMMA deleteInAllFacts ==
    ASSUME WorkOK, deleteInAllInstances
    PROVE  \/ Aborted
           \/ /\ work' \in Work /\ SamePass /\ work'.pc = "next"
              /\ work'.todo = {i \in Instances : pcache[i].exists} /\ UNCHANGED queue
<1> DEFINE listed == {i \in Instances : pcache[i].exists}
<1>1. ASSUME work' = [work EXCEPT !.pc = "next", !.todo = listed]
      PROVE  work' \in Work /\ SamePass /\ work'.pc = "next" /\ work'.todo = listed
  <2>1. listed \in SUBSET Instances
    OBVIOUS
  <2> HIDE DEF listed
  <2> QED
    BY <1>1, <2>1, PhaseFacts DEF WorkOK, Work, SamePass
<1>2. ASSUME Abort("none"), work.deleting
      PROVE  Aborted
  BY <1>2, AbortIsAborted
<1>3. /\ work.deleting
      /\ \/ Abort("none")
         \/ work' = [work EXCEPT !.pc = "next", !.todo = listed] /\ UNCHANGED queue
  BY DEF deleteInAllInstances
<1> QED
  BY <1>1, <1>2, <1>3

\* The loop.
LEMMA NextInstanceFacts ==
    ASSUME WorkOK, NEW i \in Instances, NextInstance(i)
    PROVE  /\ work' \in Work /\ SamePass /\ work'.pc = "client" /\ work'.inst = i
           /\ work'.todo = work.todo \ {i}
  BY DEF NextInstance, WorkOK, Work, SamePass, Phases, InstancePhases

\* A pass without instances left is complete, or over if it deletes.
LEMMA AllInstancesDoneFacts ==
    ASSUME WorkOK, AllInstancesDone
    PROVE  IF work.deleting THEN work' = IdleWork
           ELSE work' \in Work /\ SamePass /\ work'.pc = "complete" /\ work'.todo = {}
  BY GotoFacts, PhaseFacts DEF AllInstancesDone, WorkOK

\* A status update: nothing else of the resource changes.
LEMMA WriteStatusFacts ==
    ASSUME TypeOK, NEW o \in Objects, NEW status \in Status, WriteStatus(o, status)
    PROVE  /\ cr' \in [Objects -> Resource] /\ cr'[o].status = status
           /\ \A p \in Objects :
                 /\ cr'[p].exists = cr[p].exists /\ cr'[p].value = cr[p].value
                 /\ cr'[p].selector = cr[p].selector /\ cr'[p].client = cr[p].client
                 /\ p # o => cr'[p] = cr[p]
           /\ pending \subseteq pending' /\ pending' \subseteq pending \cup {o}
  BY DEF WriteStatus, TypeOK, Resource

\* The end of a reconciliation, with an error and without.
LEMMA EndFacts ==
    ASSUME TypeOK, NEW o \in Objects, EndFailed(o) \/ EndOK(o)
    PROVE  /\ work' = IdleWork
           /\ tracked' \in [Objects -> {"none", "ok", "failed"}]
           /\ reported' \in [Objects -> SUBSET {"synced", "failed"}]
           /\ queue' \subseteq Objects
           /\ \/ queue' = queue \cup {o}
              \/ queue' = queue /\ tracked'[o] = "ok" /\ "synced" \in reported'[o]
           /\ \A p \in Objects \ {o} : tracked'[p] = tracked[p] /\ reported'[p] = reported[p]
<1>1. CASE EndFailed(o)
  BY <1>1 DEF EndFailed, SetStatus, SetFailedResources, setResources, TypeOK
<1>2. CASE EndOK(o)
  BY <1>2 DEF EndOK, SetStatus, SetSyncedResources, setResources, TypeOK
<1> QED
  BY <1>1, <1>2

\* The three status updates of a pass.  The first one lets the pass go on.
LEMMA setStatusToUnknownFacts ==
    ASSUME TypeOK, WorkOK, setStatusToUnknown
    PROVE  \/ /\ \E status \in Status : WriteStatus(work.obj, status)
              /\ work' \in Work /\ SamePass /\ work'.pc = "list" /\ UNCHANGED <<queue, metricVars>>
           \/ /\ ~ cr[work.obj].exists /\ UNCHANGED <<cr, pending, budget>>
              /\ EndOK(work.obj)
           \/ UNCHANGED <<cr, pending>> /\ Spend("fault") /\ EndFailed(work.obj)
<1>0. work.obj \in Objects
  BY DEF setStatusToUnknown, WorkOK
<1>1. (IF cr[work.obj].status = NoStatus
          THEN [available |-> "Unknown", degraded |-> "none", reason |-> "Reconciling"]
          ELSE cr[work.obj].status) \in Status
  BY <1>0 DEF TypeOK, Resource, Status
<1>2. ASSUME Goto("list")
      PROVE  work' \in Work /\ SamePass /\ work'.pc = "list"
  BY <1>2, GotoFacts, PhaseFacts DEF WorkOK
<1> QED
  BY <1>1, <1>2 DEF setStatusToUnknown, StatusGone, StatusFails

\* The last step of a pass: the status is written, or the object is gone, or the
\* update fails and the key is requeued.
LEMMA setStatusToCompleteFacts ==
    ASSUME TypeOK, WorkOK, setStatusToComplete
    PROVE  \/ /\ WriteStatus(work.obj, [available |-> "True", degraded |-> "False", reason |-> "Reconciled"])
              /\ EndOK(work.obj)
           \/ /\ ~ cr[work.obj].exists /\ UNCHANGED <<cr, pending, budget>>
              /\ EndOK(work.obj)
           \/ UNCHANGED <<cr, pending>> /\ Spend("fault") /\ EndFailed(work.obj)
  BY DEF setStatusToComplete, StatusGone, StatusFails

\* A degraded pass is always requeued, whatever becomes of its status update.
LEMMA setStatusToDegradedFacts ==
    ASSUME TypeOK, WorkOK, setStatusToDegraded
    PROVE  /\ EndFailed(work.obj)
           /\ \/ WriteStatus(work.obj, [available |-> "False", degraded |-> "True", reason |-> work.reason])
              \/ UNCHANGED <<cr, pending, budget>>
              \/ UNCHANGED <<cr, pending>> /\ Spend("fault")
  BY DEF setStatusToDegraded, StatusGone, StatusFails

\* The budget is spent by some moves and otherwise left alone.
BudgetStep == (\E move \in EnvironmentMoves : Spend(move)) \/ UNCHANGED budget
\* Spending keeps the type of the budget.
LEMMA BudgetType ==
    ASSUME budget \in [EnvironmentMoves -> Nat], BudgetStep
    PROVE  budget' \in [EnvironmentMoves -> Nat]
  BY SpendType DEF BudgetStep

\* Every step of the system spends at most one move.
LEMMA BudgetNext == [Next]_vars => BudgetStep
<1> SUFFICES ASSUME [Next]_vars PROVE BudgetStep
  OBVIOUS
<1>a. /\ "edit" \in EnvironmentMoves /\ "perses" \in EnvironmentMoves
      /\ "relabel" \in EnvironmentMoves /\ "fault" \in EnvironmentMoves
      /\ "restart" \in EnvironmentMoves /\ "loss" \in EnvironmentMoves
      /\ "credential" \in EnvironmentMoves /\ "project" \in EnvironmentMoves
  BY DEF EnvironmentMoves
<1>b. (\/ Spend("edit") \/ Spend("perses") \/ Spend("relabel") \/ Spend("fault") \/ Spend("restart")
       \/ Spend("loss") \/ Spend("credential") \/ Spend("project") \/ UNCHANGED budget) => BudgetStep
  <2>1. \A move \in EnvironmentMoves : Spend(move) => BudgetStep
    BY DEF BudgetStep
  <2>2. UNCHANGED budget => BudgetStep
    BY Zenon DEF BudgetStep
  <2> QED
    BY <1>a, <2>1, <2>2
<1>1. CASE UserStep
  BY <1>1, <1>b DEF UserStep, CreateResource, EditResource, DeleteResource, RotateCredential,
     CreatePerses, SetAvailable, DeletePerses, RelabelPerses, LoseBackend, CreateProjectElsewhere, ChangePerses
<1>2. CASE WatchStep \/ Restart
  BY <1>2, <1>b DEF WatchStep, ObserveResource, ObservePerses, Restart
<1>3. CASE InstanceStep
  <2>1. CASE CreateClient \/ getProject
    BY <2>1, <1>b DEF CreateClient, getProject, Answers, Fails
  <2>2. CASE createProject \/ getExisting
    BY <2>2, <1>b DEF createProject, getExisting, Answers, Fails
  <2>3. CASE validate \/ readCredential
    BY <2>3, <1>b DEF validate, readCredential, Answers, Fails
  <2>4. CASE writeSecret \/ writeObject
    BY <2>4, <1>b DEF writeSecret, writeObject, Answers, Fails
  <2>5. CASE getProjectToDelete \/ deleteObject \/ deleteSecret
    BY <2>5, <1>b DEF getProjectToDelete, deleteObject, deleteSecret, Answers, Fails
  <2> QED
    BY <1>3, <2>1, <2>2, <2>3, <2>4, <2>5 DEF InstanceStep
<1>4. CASE WorkerStep
  <2>1. ASSUME NEW o \in Objects, Reconcile(o) PROVE BudgetStep
    BY <2>1, <1>b DEF Reconcile
  <2>2. CASE setStatusToUnknown
    BY <2>2, <1>b DEF setStatusToUnknown, WriteStatus, StatusGone, StatusFails
  <2>3. CASE setStatusToComplete
    BY <2>3, <1>b DEF setStatusToComplete, WriteStatus, StatusGone, StatusFails
  <2>4. CASE setStatusToDegraded
    BY <2>4, <1>b DEF setStatusToDegraded, WriteStatus, StatusGone, StatusFails
  <2>5. CASE reconcileInAllInstances \/ deleteInAllInstances
    BY <2>5, <1>b DEF reconcileInAllInstances, deleteInAllInstances
  <2>6. ASSUME AllInstancesDone \/ \E i \in Instances : NextInstance(i) PROVE BudgetStep
    BY <2>6, <1>b DEF AllInstancesDone, NextInstance
  <2> QED
    BY <1>3, <1>4, <2>1, <2>2, <2>3, <2>4, <2>5, <2>6 DEF WorkerStep
<1>5. CASE UNCHANGED vars
  BY <1>5 DEF vars, BudgetStep
<1> QED
  BY <1>1, <1>2, <1>4, <1>5 DEF Next

\* The pass stays well formed.
LEMMA EndedOK == work' = IdleWork => WorkOK'
  BY IdleFacts DEF WorkOK, PassPhases, InstancePhases

\* A pass that is given up stays well formed.
LEMMA AbortedOK ==
    ASSUME WorkOK, work.pc # "idle", queue \subseteq Objects, Aborted
    PROVE  WorkOK' /\ queue' \subseteq Objects
<1>1. CASE work.deleting
  BY <1>1, EndedOK DEF Aborted, WorkOK
<1>2. CASE ~ work.deleting
  BY <1>2 DEF Aborted, SamePass, WorkOK, PassPhases, InstancePhases
<1> QED
  BY <1>1, <1>2

\* Every step keeps the pass well formed and the queue one of objects.
LEMMA WorkNext ==
    ASSUME TypeOK, WorkOK, [Next]_vars
    PROVE  WorkOK' /\ queue' \subseteq Objects
<1>a. queue \subseteq Objects /\ known \subseteq Objects /\ credential \in [Objects -> Nat]
      /\ cr \in [Objects -> Resource]
  BY DEF TypeOK
<1>1. ASSUME UNCHANGED <<work, queue>>
      PROVE  WorkOK' /\ queue' \subseteq Objects
  BY <1>1, <1>a DEF WorkOK, PassPhases
<1>2. ASSUME NEW i \in Instances, Wipe(i), UNCHANGED queue
      PROVE  WorkOK' /\ queue' \subseteq Objects
  <2>1. work' = [work EXCEPT !.listed = @ \ {i}]
    BY <1>2 DEF Wipe
  <2>2. work \in Work
    BY DEF WorkOK
  <2>3. /\ work' \in Work
        /\ work'.pc = work.pc /\ work'.obj = work.obj /\ work'.deleting = work.deleting
        /\ work'.spec = work.spec /\ work'.inst = work.inst /\ work'.reason = work.reason
        /\ work'.todo = work.todo /\ work'.cred = work.cred /\ work'.notFound = work.notFound
        /\ work'.listed \subseteq work.listed
    BY <2>1, <2>2, SMTT(30) DEF Work
  <2> QED
    BY <1>2, <1>a, <2>3 DEF WorkOK, PassPhases
<1>3. CASE UserStep
  BY <1>1, <1>2, <1>3 DEF UserStep, CreateResource, EditResource, DeleteResource, RotateCredential,
     CreatePerses, SetAvailable, DeletePerses, RelabelPerses, LoseBackend, CreateProjectElsewhere, ChangePerses
<1>4. CASE WatchStep
  <2>1. UNCHANGED work
    BY <1>4 DEF WatchStep, ObserveResource, ObservePerses
  <2>2. queue' \subseteq Objects
    BY <1>4, <1>a DEF WatchStep, ObserveResource, ObservePerses, MetadataListToRequests
  <2> QED
    BY <2>1, <2>2 DEF WorkOK, PassPhases
<1>5. CASE Restart
  BY <1>5, EndedOK DEF Restart
<1>6. ASSUME NEW o \in Objects, Reconcile(o)
      PROVE  WorkOK' /\ queue' \subseteq Objects
  <2>1. CASE UNCHANGED <<queue, work, metricVars>>
    BY <1>1, <2>1
  <2>2. CASE work'.pc = "unknown" /\ work' \in Work /\ work'.obj = o /\ work'.deleting = FALSE /\ work'.spec # Absent
             /\ queue' = queue \ {o}
    BY <2>2, <1>a DEF WorkOK, PassPhases, InstancePhases
  <2>3. CASE work'.pc = "list" /\ work' \in Work /\ work'.obj = o /\ work'.deleting = TRUE /\ work'.spec = Absent
             /\ work'.listed = {} /\ queue' = queue \ {o}
    BY <2>3, <1>a DEF WorkOK, PassPhases, InstancePhases
  <2> QED
    BY <1>6, <2>1, <2>2, <2>3, ReconcileFacts
<1>7. ASSUME work.obj \in Objects, EndFailed(work.obj) \/ EndOK(work.obj)
      PROVE  WorkOK' /\ queue' \subseteq Objects
  BY <1>7, EndFacts, EndedOK
<1>8. CASE setStatusToUnknown
  <2>1. work.obj \in Objects /\ ~ work.deleting /\ work.spec # Absent
    BY <1>8 DEF setStatusToUnknown, WorkOK, PassPhases
  <2>2. ASSUME work' \in Work, SamePass, work'.pc = "list", UNCHANGED <<queue, metricVars>>
        PROVE  WorkOK' /\ queue' \subseteq Objects
    BY <1>a, <2>1, <2>2 DEF SamePass, WorkOK, PassPhases, InstancePhases
  <2> QED
    BY <1>7, <1>8, <2>1, <2>2, setStatusToUnknownFacts
<1>9. CASE setStatusToComplete
  BY <1>7, <1>9, setStatusToCompleteFacts DEF setStatusToComplete, WorkOK
<1>10. CASE setStatusToDegraded
  BY <1>7, <1>10, setStatusToDegradedFacts DEF setStatusToDegraded, WorkOK
<1>11. CASE reconcileInAllInstances
  <2>1. work.pc = "list" /\ ~ work.deleting /\ work.obj \in Objects /\ work.spec # Absent
    BY <1>11 DEF reconcileInAllInstances, WorkOK
  <2>2. ASSUME work' \in Work, work'.obj = work.obj, work'.spec = work.spec, work'.deleting = FALSE,
               work'.pc = "next", UNCHANGED queue
        PROVE  WorkOK' /\ queue' \subseteq Objects
    BY <1>a, <2>1, <2>2 DEF WorkOK, PassPhases, InstancePhases
  <2> QED
    BY <1>a, <1>7, <1>11, <2>1, <2>2, reconcileInAllFacts, AbortedOK
<1>12. CASE deleteInAllInstances
  <2>1. work.pc = "list" /\ work.deleting /\ work.obj \in Objects /\ work.spec = Absent /\ work.listed = {}
    BY <1>12 DEF deleteInAllInstances, WorkOK, PassPhases
  <2>2. ASSUME work' \in Work, SamePass, work'.pc = "next", UNCHANGED queue
        PROVE  WorkOK' /\ queue' \subseteq Objects
    BY <1>a, <2>1, <2>2 DEF SamePass, WorkOK, PassPhases, InstancePhases
  <2> QED
    BY <1>a, <1>12, <2>1, <2>2, deleteInAllFacts, AbortedOK
<1>13. ASSUME NEW i \in Instances, NextInstance(i)
       PROVE  WorkOK' /\ queue' \subseteq Objects
  <2>1. work.pc = "next" /\ UNCHANGED queue
    BY <1>13 DEF NextInstance
  <2> QED
    BY <1>a, <1>13, <2>1, NextInstanceFacts DEF SamePass, WorkOK, PassPhases
<1>14. CASE AllInstancesDone
  <2>1. work.pc = "next" /\ UNCHANGED queue
    BY <1>14 DEF AllInstancesDone
  <2>2. CASE work.deleting
    BY <1>a, <1>14, <2>1, <2>2, AllInstancesDoneFacts, EndedOK
  <2>3. CASE ~ work.deleting
    BY <1>a, <1>14, <2>1, <2>3, AllInstancesDoneFacts DEF SamePass, WorkOK, PassPhases, InstancePhases
  <2> QED
    BY <2>2, <2>3
<1>15. CASE InstanceStep
  <2>0. work.pc \in InstancePhases /\ work.pc # "idle"
    BY <1>15 DEF InstanceStep, InstancePhases, CreateClient, getProject, createProject, getExisting, validate,
       readCredential, writeSecret, writeObject, getProjectToDelete, deleteObject, deleteSecret
  <2>1. CASE Aborted
    BY <1>a, <2>0, <2>1, AbortedOK
  <2>2. ASSUME NEW phases \in SUBSET (InstancePhases \cup {"next"}), Continues(phases),
               \/ ~ work.deleting /\ phases \cap {"delProject", "delete", "delSecret"} = {}
               \/ work.deleting /\ phases \subseteq {"delProject", "delete", "delSecret", "next"},
               work'.pc \in {"secret", "writeSecret"} => work.spec.client,
               work'.pc \in {"secret", "writeSecret", "write"} => work.spec.value \notin InvalidValues
        PROVE  WorkOK' /\ queue' \subseteq Objects
    <3>1. work'.pc \in InstancePhases \cup {"next"} /\ work'.pc \in phases
      BY <2>2 DEF Continues
    <3>2. work' \in Work /\ SamePass /\ work'.inst = work.inst /\ queue' = queue
      BY <2>2 DEF Continues
    <3>3. /\ work'.pc # "idle" /\ work'.pc # "degrade" /\ work'.pc # "complete" /\ work'.pc # "unknown"
          /\ work'.pc \in {"delProject", "delete", "delSecret"} => work.deleting
          /\ work'.pc \in {"project", "createProject", "get", "validate", "secret",
                            "writeSecret", "write"} => ~ work.deleting
      BY <2>2, <3>1 DEF InstancePhases
    <3> QED
      BY <1>a, <2>0, <2>2, <3>2, <3>3 DEF SamePass, WorkOK, PassPhases
  <2>3. CASE CreateClient
    BY <2>1, <2>2, <2>3, CreateClientCall DEF Continues, InstancePhases
  <2>4. CASE getProject
    BY <2>1, <2>2, <2>4, getProjectCall DEF getProject, WorkOK, PassPhases, Continues, InstancePhases
  <2>5. CASE createProject
    BY <2>1, <2>2, <2>5, createProjectCall DEF createProject, WorkOK, PassPhases, Continues, InstancePhases
  <2>6. CASE getExisting
    BY <2>1, <2>2, <2>6, getExistingCall DEF getExisting, WorkOK, PassPhases, Continues, InstancePhases
  <2>7. CASE validate
    BY <2>1, <2>2, <2>7, validateCall DEF validate, WorkOK, PassPhases, Continues, InstancePhases
  <2>8. CASE readCredential
    BY <1>a, <2>0, <2>1, <2>2, <2>8, readCredentialCall DEF readCredential, WorkOK, PassPhases, Continues, InstancePhases
  <2>9. CASE writeSecret
    BY <2>1, <2>2, <2>9, writeSecretCall DEF writeSecret, WorkOK, PassPhases, Continues, InstancePhases
  <2>10. CASE writeObject
    BY <2>1, <2>2, <2>10, writeObjectCall DEF writeObject, WorkOK, PassPhases, Continues, InstancePhases
  <2>11. CASE getProjectToDelete
    BY <2>1, <2>2, <2>11, getProjectToDeleteCall DEF getProjectToDelete, WorkOK, PassPhases, Continues, InstancePhases
  <2>12. CASE deleteObject
    BY <2>1, <2>2, <2>12, deleteObjectCall DEF deleteObject, WorkOK, PassPhases, Continues, InstancePhases
  <2>13. CASE deleteSecret
    BY <2>1, <2>2, <2>13, deleteSecretCall DEF deleteSecret, WorkOK, PassPhases, Continues, InstancePhases
  <2> QED
    BY <1>15, <2>3, <2>4, <2>5, <2>6, <2>7, <2>8, <2>9, <2>10, <2>11, <2>12, <2>13 DEF InstanceStep
<1>16. CASE UNCHANGED vars
  BY <1>1, <1>16 DEF vars
<1> QED
  BY <1>3, <1>4, <1>5, <1>6, <1>8, <1>9, <1>10, <1>11, <1>12, <1>13, <1>14, <1>15, <1>16 DEF Next, WorkerStep

\* What the steps of the worker leave alone.
LEMMA WorkerFrame ==
    ASSUME WorkerStep
    PROVE  UNCHANGED <<perses, credential, pcache, known, lost, unnoticed>>
<1>1. CASE InstanceStep
  BY <1>1 DEF InstanceStep, CreateClient, getProject, createProject, getExisting, validate,
     readCredential, writeSecret, writeObject, getProjectToDelete, deleteObject, deleteSecret,
     clusterVars, watchVars, historyVars
<1> QED
  BY <1>1 DEF WorkerStep, Reconcile, setStatusToUnknown, setStatusToComplete, setStatusToDegraded,
     reconcileInAllInstances, deleteInAllInstances, NextInstance, AllInstancesDone,
     clusterVars, watchVars, historyVars

\* Only the three status updates write to the API server, and only a pass that
\* ends or starts touches the tracker and the metrics.
LEMMA InstanceFrame ==
    ASSUME InstanceStep
    PROVE  /\ UNCHANGED <<cr, pending, tracked, reported>>
           /\ work.pc \in InstancePhases
           /\ work.pc # "write" /\ work.pc # "delete" => UNCHANGED stored
           /\ work.pc # "writeSecret" /\ work.pc # "delSecret" => UNCHANGED secret
           /\ work.pc # "createProject" => UNCHANGED project
<1>1. CASE CreateClient \/ getProject \/ createProject \/ getExisting \/ validate
  BY <1>1, SMTT(30) DEF CreateClient, getProject, createProject, getExisting, validate,
     clusterVars, watchVars, metricVars, backendVars, InstancePhases
<1>2. CASE readCredential \/ writeSecret \/ writeObject
  BY <1>2, SMTT(30) DEF readCredential, writeSecret, writeObject,
     clusterVars, watchVars, metricVars, backendVars, InstancePhases
<1>3. CASE getProjectToDelete \/ deleteObject \/ deleteSecret
  BY <1>3, SMTT(30) DEF getProjectToDelete, deleteObject, deleteSecret,
     clusterVars, watchVars, metricVars, backendVars, InstancePhases
<1> QED
  BY <1>1, <1>2, <1>3 DEF InstanceStep

\* What the worker does to the custom resources: it updates the status of the
\* pass's object.
StatusStep ==
    /\ cr' \in [Objects -> Resource]
    /\ pending \subseteq pending' /\ pending' \subseteq Objects
    /\ \A o \in Objects :
          /\ cr'[o].exists = cr[o].exists /\ cr'[o].value = cr[o].value
          /\ cr'[o].selector = cr[o].selector /\ cr'[o].client = cr[o].client
          /\ ~ Busy(o) => cr'[o] = cr[o]

\* Every step of the worker is a status step.
LEMMA StatusSteps ==
    ASSUME TypeOK, WorkOK, WorkerStep
    PROVE  StatusStep
<1>1. ASSUME NEW status \in Status, WriteStatus(work.obj, status), work.pc # "idle"
      PROVE  StatusStep
  <2>1. work.obj \in Objects
    BY <1>1 DEF WorkOK
  <2> QED
    BY <1>1, <2>1, WriteStatusFacts DEF StatusStep, TypeOK, Busy
<1>2. ASSUME UNCHANGED <<cr, pending>>
      PROVE  StatusStep
  BY <1>2 DEF StatusStep, TypeOK
<1>3. CASE setStatusToUnknown
  BY <1>1, <1>2, <1>3, setStatusToUnknownFacts DEF setStatusToUnknown
<1>4. CASE setStatusToComplete
  <2>1. [available |-> "True", degraded |-> "False", reason |-> "Reconciled"] \in Status
    BY DEF Status
  <2> QED
    BY <1>1, <1>2, <1>4, <2>1, setStatusToCompleteFacts DEF setStatusToComplete
<1>5. CASE setStatusToDegraded
  <2>1. work.reason \in Reasons
    BY <1>5 DEF setStatusToDegraded, WorkOK
  <2>2. [available |-> "False", degraded |-> "True", reason |-> work.reason] \in Status
    BY <2>1 DEF Status
  <2> QED
    BY <1>1, <1>2, <1>5, <2>2, setStatusToDegradedFacts DEF setStatusToDegraded
<1>6. CASE InstanceStep
  BY <1>2, <1>6, InstanceFrame
<1> QED
  BY <1>2, <1>3, <1>4, <1>5, <1>6 DEF WorkerStep, Reconcile, reconcileInAllInstances, deleteInAllInstances,
     NextInstance, AllInstancesDone, clusterVars, watchVars

\* An edit changes the spec of one resource.
LEMMA EditFacts ==
    ASSUME cr \in [Objects -> Resource], NEW o \in Objects, EditResource(o)
    PROVE  /\ cr' \in [Objects -> Resource]
           /\ cr'[o].exists /\ cr'[o].status = cr[o].status
           /\ Kind = "PersesDashboard" => ~ cr'[o].client
           /\ \A p \in Objects \ {o} : cr'[p] = cr[p]
<1>1. PICK v \in Values, s \in Selectors, c \in ClientConfigs :
        cr' = [cr EXCEPT ![o].value = v, ![o].selector = s, ![o].client = c]
  BY DEF EditResource
<1>2. c \in BOOLEAN /\ (Kind = "PersesDashboard" => ~ c)
  BY DEF ClientConfigs
<1>3. cr[o].exists
  BY DEF EditResource
<1> DEFINE r == [cr[o] EXCEPT !.value = v, !.selector = s, !.client = c]
<1>4. r \in Resource /\ r.exists /\ r.status = cr[o].status /\ r.client = c
  BY <1>2, <1>3 DEF Resource
<1>5. cr' = [cr EXCEPT ![o] = r]
  BY <1>1, <1>2 DEF Resource
<1> QED
  BY <1>2, <1>4, <1>5

\* The typed part of the state that is not the worker's.
ClusterOK ==
    /\ cr \in [Objects -> Resource] /\ perses \in [Instances -> Perses]
    /\ pcache \in [Instances -> Perses] /\ credential \in [Objects -> Nat]
    /\ known \subseteq Objects /\ pending \subseteq Objects
    /\ lost \subseteq Objects /\ unnoticed \subseteq Instances
BackendOK ==
    /\ project \subseteq Instances
    /\ stored \in [Instances -> [Objects -> Values \cup {Absent}]]
    /\ secret \in [Instances -> [Objects -> Nat \cup {Absent}]]
    /\ tracked \in [Objects -> {"none", "ok", "failed"}]
    /\ reported \in [Objects -> SUBSET {"synced", "failed"}]

\* Every change of a Perses object makes a Perses object.
LEMMA PersesChanges ==
    ASSUME NEW p \in Perses
    PROVE  /\ [p EXCEPT !.exists = TRUE, !.available = FALSE] \in Perses
           /\ [p EXCEPT !.exists = FALSE, !.available = FALSE] \in Perses
           /\ \A b \in BOOLEAN : [p EXCEPT !.available = b] \in Perses
           /\ \A l \in Labels : [p EXCEPT !.label = l] \in Perses
  BY DEF Perses

\* Every step keeps the types of the cluster and of the caches.
LEMMA ClusterNext ==
    ASSUME TypeOK, WorkOK, [Next]_vars
    PROVE  ClusterOK'
<1>a. ClusterOK
  BY DEF TypeOK, ClusterOK
<1>b. ASSUME NEW i \in Instances, NEW p \in Perses,
             perses' = [perses EXCEPT ![i] = p], UNCHANGED <<cr, credential, watchVars, lost>>,
             unnoticed' \subseteq unnoticed \cup {i}
      PROVE  ClusterOK'
  BY <1>a, <1>b DEF ClusterOK, watchVars
<1>c. \A i \in Instances : perses[i] \in Perses
  BY <1>a DEF ClusterOK
<1>1. ASSUME NEW o \in Objects, CreateResource(o)
      PROVE  ClusterOK'
  <2>1. PICK v \in Values, s \in Selectors, c \in ClientConfigs :
          cr' = [cr EXCEPT ![o] = [exists |-> TRUE, value |-> v, selector |-> s,
                                   client |-> c, status |-> NoStatus]]
    BY <1>1 DEF CreateResource
  <2>2. [exists |-> TRUE, value |-> v, selector |-> s, client |-> c, status |-> NoStatus] \in Resource
    BY DEF Resource, NoStatus, Status, ClientConfigs
  <2>3. cr' \in [Objects -> Resource]
    BY <1>a, <2>1, <2>2 DEF ClusterOK
  <2>4. /\ pending' = pending \cup {o} /\ lost' = lost \ {o}
        /\ UNCHANGED <<perses, credential, pcache, known, unnoticed>>
    BY <1>1 DEF CreateResource
  <2> QED
    BY <1>a, <2>3, <2>4 DEF ClusterOK
<1>2. ASSUME NEW o \in Objects, EditResource(o)
      PROVE  ClusterOK'
  <2>1. cr' \in [Objects -> Resource]
    BY <1>2, <1>a, EditFacts DEF ClusterOK
  <2>2. pending' = pending \cup {o} /\ UNCHANGED <<perses, credential, pcache, known, lost, unnoticed>>
    BY <1>2 DEF EditResource, historyVars
  <2> QED
    BY <1>a, <2>1, <2>2 DEF ClusterOK
<1>3. ASSUME NEW o \in Objects, DeleteResource(o)
      PROVE  ClusterOK'
  <2>1. cr' = [cr EXCEPT ![o].exists = FALSE]
    BY <1>3 DEF DeleteResource
  <2>2. cr' \in [Objects -> Resource]
    BY <1>a, <2>1 DEF ClusterOK, Resource
  <2>3. pending' = pending \cup {o} /\ UNCHANGED <<perses, credential, pcache, known, lost, unnoticed>>
    BY <1>3 DEF DeleteResource, historyVars
  <2> QED
    BY <1>a, <2>2, <2>3 DEF ClusterOK
<1>4. ASSUME NEW i \in Instances, CreatePerses(i)
      PROVE  ClusterOK'
  <2>1. [perses[i] EXCEPT !.exists = TRUE, !.available = FALSE] \in Perses
    BY <1>c, PersesChanges
  <2> QED
    BY <1>4, <1>b, <2>1 DEF CreatePerses, ChangePerses
<1>5. ASSUME NEW i \in Instances, NEW b \in BOOLEAN, SetAvailable(i, b)
      PROVE  ClusterOK'
  <2>1. [perses[i] EXCEPT !.available = b] \in Perses
    BY <1>c, PersesChanges
  <2> QED
    BY <1>5, <1>b, <2>1 DEF SetAvailable, ChangePerses
<1>6. ASSUME NEW i \in Instances, NEW l \in Labels, RelabelPerses(i, l)
      PROVE  ClusterOK'
  <2>1. [perses[i] EXCEPT !.label = l] \in Perses
    BY <1>c, PersesChanges
  <2>2. perses' = [perses EXCEPT ![i] = [perses[i] EXCEPT !.label = l]]
    BY <1>6 DEF RelabelPerses
  <2> QED
    BY <1>6, <1>b, <2>1, <2>2 DEF RelabelPerses
<1>7. CASE WatchStep \/ Restart
  <2>1. UNCHANGED <<cr, perses, credential>> /\ unnoticed' \subseteq unnoticed
    BY <1>7 DEF WatchStep, ObserveResource, ObservePerses, Restart, clusterVars, historyVars
  <2>3. lost' \subseteq Objects
    BY <1>7, <1>a DEF ClusterOK, WatchStep, ObserveResource, ObservePerses, Restart, historyVars
  <2>2. pcache' \in [Instances -> Perses] /\ known' \subseteq Objects /\ pending' \subseteq Objects
    BY <1>7, <1>a DEF ClusterOK, WatchStep, ObserveResource, ObservePerses, Restart
  <2> QED
    BY <1>a, <2>1, <2>2, <2>3 DEF ClusterOK
<1>8. CASE WorkerStep
  <2>1. UNCHANGED <<perses, credential, pcache, known, lost, unnoticed>>
    BY <1>8, WorkerFrame
  <2>2. cr' \in [Objects -> Resource] /\ pending' \subseteq Objects
    BY <1>8, StatusSteps DEF StatusStep
  <2> QED
    BY <1>a, <2>1, <2>2 DEF ClusterOK
<1>9. ASSUME NEW o \in Objects, RotateCredential(o)
      PROVE  ClusterOK'
  <2>1. /\ credential' = [credential EXCEPT ![o] = @ + 1]
        /\ UNCHANGED <<cr, perses, pcache, known, pending, lost, unnoticed>>
    BY <1>9 DEF RotateCredential, watchVars, historyVars
  <2> QED
    BY <1>a, <2>1 DEF ClusterOK
<1>10. ASSUME NEW i \in Instances, DeletePerses(i)
       PROVE  ClusterOK'
  <2>1. [perses[i] EXCEPT !.exists = FALSE, !.available = FALSE] \in Perses
    BY <1>c, PersesChanges
  <2> QED
    BY <1>10, <1>b, <2>1 DEF DeletePerses, ChangePerses
<1>11. ASSUME NEW i \in Instances, LoseBackend(i) \/ CreateProjectElsewhere(i)
       PROVE  ClusterOK'
  <2>1. UNCHANGED <<cr, perses, credential, pcache, known, pending, lost>> /\ unnoticed' \subseteq unnoticed \cup {i}
    BY <1>11 DEF LoseBackend, CreateProjectElsewhere, clusterVars, watchVars, historyVars
  <2> QED
    BY <1>a, <2>1 DEF ClusterOK
<1>12. CASE UNCHANGED vars
  BY <1>12, <1>a DEF ClusterOK, vars, clusterVars, watchVars, historyVars
<1> QED
  BY <1>1, <1>2, <1>3, <1>4, <1>5, <1>6, <1>7, <1>8, <1>9, <1>10, <1>11, <1>12 DEF Next, UserStep

\* The tracker and the metrics change for the object of the pass that begins or
\* ends, and only then.
MetricStep ==
    /\ tracked' \in [Objects -> {"none", "ok", "failed"}]
    /\ reported' \in [Objects -> SUBSET {"synced", "failed"}]
    /\ \A o \in Objects : (tracked'[o] # tracked[o] \/ reported'[o] # reported[o]) =>
          \/ Busy(o) /\ work' = IdleWork
          \/ work.pc = "idle" /\ ~ cr[o].exists /\ tracked'[o] = "none" /\ reported'[o] = {}

\* Every step of the worker is a metric step.
LEMMA MetricSteps ==
    ASSUME TypeOK, WorkOK, WorkerStep
    PROVE  MetricStep
<1>1. ASSUME UNCHANGED metricVars
      PROVE  MetricStep
  BY <1>1 DEF MetricStep, TypeOK, metricVars
<1>2. ASSUME work.pc # "idle", EndFailed(work.obj) \/ EndOK(work.obj)
      PROVE  MetricStep
  <2>1. work.obj \in Objects
    BY <1>2 DEF WorkOK
  <2> QED
    BY <1>2, <2>1, EndFacts DEF MetricStep, Busy
<1>3. ASSUME NEW o \in Objects, Reconcile(o)
      PROVE  MetricStep
  <2>1. work.pc = "idle"
    BY <1>3 DEF Reconcile
  <2>2. CASE ~ cr[o].exists /\ ForgetTracked(o) /\ ForgetReported(o)
    BY <2>1, <2>2 DEF ForgetTracked, ForgetReported, MetricStep, TypeOK
  <2> QED
    BY <1>1, <1>3, <2>2, ReconcileFacts
<1>4. CASE setStatusToUnknown
  BY <1>1, <1>2, <1>4, setStatusToUnknownFacts DEF setStatusToUnknown
<1>5. CASE setStatusToComplete
  BY <1>2, <1>5, setStatusToCompleteFacts DEF setStatusToComplete
<1>6. CASE setStatusToDegraded
  BY <1>2, <1>6, setStatusToDegradedFacts DEF setStatusToDegraded
<1>7. CASE reconcileInAllInstances
  BY <1>1, <1>2, <1>7, reconcileInAllFacts DEF reconcileInAllInstances
<1>8. CASE InstanceStep
  BY <1>1, <1>8, InstanceFrame DEF metricVars
<1>9. ASSUME deleteInAllInstances \/ AllInstancesDone \/ \E i \in Instances : NextInstance(i)
      PROVE  UNCHANGED metricVars
  BY <1>9 DEF deleteInAllInstances, NextInstance, AllInstancesDone
<1> QED
  BY <1>1, <1>3, <1>4, <1>5, <1>6, <1>7, <1>8, <1>9 DEF WorkerStep

\* What the worker does to the backends: a step changes at most the copy or the
\* secret of the pass's object in the current instance.
BackendStep ==
    /\ \/ stored' = stored
       \/ /\ work.pc = "write" /\ Running(work.inst) /\ Continues({"next"})
          /\ stored' = [stored EXCEPT ![work.inst][work.obj] = work.spec.value]
       \/ /\ work.pc = "delete" /\ Continues({IF Kind = "PersesDashboard" THEN "next" ELSE "delSecret"})
          /\ stored' = [stored EXCEPT ![work.inst][work.obj] = Absent]
    /\ \/ secret' = secret
       \/ /\ work.pc = "writeSecret" /\ Running(work.inst) /\ Continues({"write"}) /\ work'.cred = work.cred
          /\ secret' = [secret EXCEPT ![work.inst][work.obj] = work.cred]
       \/ /\ work.pc = "delSecret" /\ Continues({"next"})
          /\ secret' = [secret EXCEPT ![work.inst][work.obj] = Absent]

\* Every step of the worker is a backend step.
LEMMA BackendSteps ==
    ASSUME TypeOK, WorkOK, WorkerStep
    PROVE  BackendStep /\ project' \subseteq Instances
<1>1. CASE InstanceStep
  <2>1. project' \subseteq Instances
    <3>1. UNCHANGED project \/ (project' = project \cup {work.inst} /\ work.pc = "createProject")
      BY <1>1 DEF InstanceStep, CreateClient, getProject, createProject, getExisting, validate,
         readCredential, writeSecret, writeObject, getProjectToDelete, deleteObject, deleteSecret, backendVars
    <3> QED
      BY <3>1 DEF TypeOK, InstancePhases
  <2>2. CASE writeSecret
    BY <2>1, <2>2, writeSecretCall DEF writeSecret, BackendStep
  <2>3. CASE writeObject
    BY <2>1, <2>3, writeObjectCall DEF writeObject, BackendStep
  <2>4. CASE deleteObject
    BY <2>1, <2>4, deleteObjectCall DEF deleteObject, BackendStep
  <2>5. CASE deleteSecret
    BY <2>1, <2>5, deleteSecretCall DEF deleteSecret, BackendStep
  <2>6. CASE UNCHANGED <<stored, secret>>
    BY <2>1, <2>6 DEF BackendStep
  <2> QED
    BY <1>1, <2>2, <2>3, <2>4, <2>5, <2>6 DEF InstanceStep, CreateClient, getProject, createProject, getExisting,
       validate, readCredential, getProjectToDelete, backendVars
<1>2. CASE UNCHANGED backendVars
  BY <1>2, SMTT(30) DEF backendVars, BackendStep, TypeOK
<1>3. CASE (\E o \in Objects : Reconcile(o)) \/ setStatusToUnknown \/ setStatusToComplete
  BY <1>2, <1>3 DEF Reconcile, setStatusToUnknown, setStatusToComplete
<1>4. CASE setStatusToDegraded \/ reconcileInAllInstances \/ deleteInAllInstances
  BY <1>2, <1>4 DEF setStatusToDegraded, reconcileInAllInstances, deleteInAllInstances
<1>5. CASE AllInstancesDone \/ \E i \in Instances : NextInstance(i)
  BY <1>2, <1>5 DEF NextInstance, AllInstancesDone
<1> QED
  BY <1>1, <1>3, <1>4, <1>5 DEF WorkerStep

\* Every step keeps the types of the backends and of tracker and metrics.
LEMMA BackendNext ==
    ASSUME TypeOK, WorkOK, [Next]_vars
    PROVE  BackendOK'
<1>1. ASSUME UNCHANGED <<backendVars, metricVars>>
      PROVE  BackendOK'
  BY <1>1 DEF TypeOK, BackendOK, backendVars, metricVars
<1>2. ASSUME NEW i \in Instances, Wipe(i), UNCHANGED metricVars
      PROVE  BackendOK'
  <2>1. project' \subseteq Instances
    BY <1>2, SMTT(30) DEF Wipe, TypeOK
  <2>2. stored' \in [Instances -> [Objects -> Values \cup {Absent}]]
    BY <1>2, SMTT(30) DEF Wipe, TypeOK
  <2>3. secret' \in [Instances -> [Objects -> Nat \cup {Absent}]]
    BY <1>2, SMTT(30) DEF Wipe, TypeOK
  <2>4. UNCHANGED <<tracked, reported>>
    BY <1>2, SMTT(30) DEF metricVars
  <2> QED
    BY <2>1, <2>2, <2>3, <2>4 DEF TypeOK, BackendOK
<1>3. CASE UserStep
  <2>1. ASSUME NEW i \in Instances, CreateProjectElsewhere(i)
        PROVE  BackendOK'
    BY <2>1 DEF CreateProjectElsewhere, TypeOK, BackendOK, metricVars
  <2> QED
    BY <1>1, <1>2, <1>3, <2>1 DEF UserStep, CreateResource, EditResource, DeleteResource, RotateCredential,
       CreatePerses, SetAvailable, DeletePerses, RelabelPerses, LoseBackend, ChangePerses
<1>4. CASE WatchStep
  BY <1>1, <1>4 DEF WatchStep, ObserveResource, ObservePerses
<1>5. CASE Restart
  BY <1>5 DEF Restart, TypeOK, BackendOK, backendVars
<1>6. CASE WorkerStep
  <2>1. tracked' \in [Objects -> {"none", "ok", "failed"}] /\ reported' \in [Objects -> SUBSET {"synced", "failed"}]
    BY <1>6, MetricSteps DEF MetricStep
  <2>2. BackendStep /\ project' \subseteq Instances
    BY <1>6, BackendSteps
  <2>3. work.cred \in Nat /\ (work.pc = "write" => work.spec.value \in Values)
    <3>1. work.cred \in Nat /\ work.spec \in SpecSnapshot \cup {Absent}
      BY DEF WorkOK, Work
    <3> QED
      BY <3>1 DEF WorkOK, PassPhases, SpecSnapshot
  <2>4. stored' \in [Instances -> [Objects -> Values \cup {Absent}]]
    <3>1. ASSUME NEW v \in Values \cup {Absent}, stored' = [stored EXCEPT ![work.inst][work.obj] = v]
          PROVE  stored' \in [Instances -> [Objects -> Values \cup {Absent}]]
      BY <3>1 DEF TypeOK
    <3> QED
      BY <2>2, <2>3, <3>1 DEF BackendStep, TypeOK
  <2>5. secret' \in [Instances -> [Objects -> Nat \cup {Absent}]]
    <3>1. ASSUME NEW v \in Nat \cup {Absent}, secret' = [secret EXCEPT ![work.inst][work.obj] = v]
          PROVE  secret' \in [Instances -> [Objects -> Nat \cup {Absent}]]
      BY <3>1 DEF TypeOK
    <3> QED
      BY <2>2, <2>3, <3>1 DEF BackendStep, TypeOK
  <2> QED
    BY <2>1, <2>2, <2>4, <2>5 DEF BackendOK
<1>7. CASE UNCHANGED vars
  BY <1>1, <1>7 DEF vars
<1> QED
  BY <1>3, <1>4, <1>5, <1>6, <1>7 DEF Next

\* The type invariant is inductive together with PassPhases.
LEMMA TypeNext ==
    ASSUME TypeOK, PassPhases, [Next]_vars
    PROVE  TypeOK' /\ PassPhases'
<1>1. WorkOK
  BY DEF TypeOK, WorkOK
<1>2. WorkOK' /\ queue' \subseteq Objects
  BY <1>1, WorkNext
<1>3. ClusterOK' /\ BackendOK'
  BY <1>1, ClusterNext, BackendNext
<1>4. budget' \in [EnvironmentMoves -> Nat]
  BY BudgetNext, BudgetType DEF TypeOK
<1> QED
  BY <1>2, <1>3, <1>4 DEF TypeOK, WorkOK, ClusterOK, BackendOK

\* Every reachable state is well typed, and the worker never mixes the calls of a
\* deletion with those of a reconciliation.
THEOREM TypeCorrect == Spec => [](TypeOK /\ PassPhases)
<1>1. Init => TypeOK /\ PassPhases
  BY TypeInit, IdleFacts DEF Init, PassPhases
<1>2. TypeOK /\ PassPhases /\ [Next]_vars => (TypeOK /\ PassPhases)'
  BY TypeNext
<1> QED
  BY <1>1, <1>2, PTL DEF Spec

-----------------------------------------------------------------------------
(***************************************************************************)
(* What a step of the worker does to its pass and the queue: one of these. *)
(***************************************************************************)

\* The Get fails and is tried again.
Skips == UNCHANGED <<work, queue, stored, secret>>

\* A pass over the object begins.
Begins(o) ==
    /\ work.pc = "idle" /\ o \in queue /\ queue' = queue \ {o}
    /\ work'.obj = o
    /\ \/ /\ cr[o].exists /\ work'.pc = "unknown" /\ ~ work'.deleting
          /\ work'.spec = [value |-> cr[o].value, selector |-> cr[o].selector, client |-> cr[o].client]
       \/ /\ ~ cr[o].exists /\ work'.pc = "list" /\ work'.deleting
          /\ tracked'[o] = "none" /\ reported'[o] = {}
    /\ UNCHANGED <<stored, secret>>

\* It goes through its own phases ...
Proceeds ==
    /\ work.pc = "unknown" /\ work'.pc = "list"
    /\ SamePass /\ UNCHANGED <<queue, stored, secret>>
ListsAvailable ==
    /\ work.pc = "list" /\ work'.pc = "next" /\ ~ work.deleting /\ ~ work'.deleting
    /\ work'.obj = work.obj /\ work'.spec = work.spec
    /\ work'.listed = work'.todo
    /\ work'.todo = {i \in Instances : pcache[i].exists /\ pcache[i].label \in work.spec.selector
                                       /\ pcache[i].available}
    /\ UNCHANGED <<queue, stored, secret>>
ListsAll ==
    /\ work.pc = "list" /\ work'.pc = "next" /\ work.deleting
    /\ SamePass
    /\ work'.todo = {i \in Instances : pcache[i].exists}
    /\ UNCHANGED <<queue, stored, secret>>
Visits(i) ==
    /\ work.pc = "next" /\ work'.pc = "client"
    /\ SamePass /\ i \in work.todo /\ work'.inst = i /\ work'.todo = work.todo \ {i}
    /\ UNCHANGED <<queue, stored, secret>>
Completes ==
    /\ work.pc = "next" /\ work'.pc = "complete" /\ ~ work.deleting
    /\ SamePass /\ work.todo = {} /\ work'.todo = {}
    /\ UNCHANGED <<queue, stored, secret>>

\* ... and through the calls of one instance, where it leaves an instance only
\* after it has brought it up to date; ...
Calls ==
    /\ work.pc \in InstancePhases /\ Continues(InstancePhases \cup {"next"})
    /\ BackendStep
    /\ ~ work.deleting /\ work'.pc = "next" => stored'[work.inst][work.obj] = work.spec.value
    /\ work.deleting /\ work'.pc = "delSecret" => stored'[work.inst][work.obj] = Absent
    /\ work.deleting /\ work'.pc = "next" =>
          \/ work.pc = "delSecret" /\ secret'[work.inst][work.obj] = Absent /\ stored' = stored
          \/ /\ work.pc = "delete" /\ Kind = "PersesDashboard"
             /\ stored'[work.inst][work.obj] = Absent /\ secret' = secret
    /\ work'.pc = "write" =>
          \/ work.pc = "writeSecret" /\ secret'[work.inst][work.obj] = work'.cred
          \/ ~ (work.spec.client /\ Kind # "PersesDashboard")

\* ... it is given up and tried again, or it ends.
GivesUp ==
    /\ work.pc # "idle"
    /\ \/ ~ work.deleting /\ work'.pc = "degrade" /\ SamePass /\ queue' = queue
       \/ work' = IdleWork /\ queue' = queue \cup {work.obj}
    /\ UNCHANGED <<stored, secret>>
Reports ==
    /\ work.pc \in {"unknown", "complete"} /\ work' = IdleWork
    /\ tracked'[work.obj] = "ok" /\ "synced" \in reported'[work.obj]
    /\ cr[work.obj].exists =>
          /\ work.pc = "complete"
          /\ cr'[work.obj].status.available = "True" /\ cr'[work.obj].status.degraded = "False"
    /\ UNCHANGED <<queue, stored, secret>>
Deletes ==
    /\ work.pc = "next" /\ work.deleting /\ work.todo = {} /\ work' = IdleWork
    /\ UNCHANGED <<queue, stored, secret, tracked, reported>>

PassStep ==
    \/ Skips
    \/ \E o \in Objects : Begins(o)
    \/ Proceeds \/ ListsAvailable \/ ListsAll
    \/ \E i \in Instances : Visits(i)
    \/ Completes \/ Calls \/ GivesUp \/ Reports \/ Deletes

\* The calls of one instance are such steps.
LEMMA InstanceSteps ==
    ASSUME TypeOK, WorkOK, InstanceStep
    PROVE  Calls \/ GivesUp
<1>a. /\ stored \in [Instances -> [Objects -> Values \cup {Absent}]]
      /\ secret \in [Instances -> [Objects -> Nat \cup {Absent}]]
      /\ credential \in [Objects -> Nat]
  BY DEF TypeOK
<1>b. work.pc \in InstancePhases /\ work.pc # "idle" /\ work.obj \in Objects /\ work.inst \in Instances
  BY InstanceFrame DEF WorkOK, InstancePhases
<1>c. BackendStep
  BY BackendSteps DEF WorkerStep
<1>1. ASSUME Aborted, UNCHANGED <<stored, secret>>
      PROVE  GivesUp
  BY <1>1, <1>b DEF Aborted, GivesUp
<1>2. ASSUME NEW phases \in SUBSET InstancePhases, Continues(phases),
             "write" \notin phases, "delSecret" \notin phases
      PROVE  Calls
  <2>1. work'.pc \in phases /\ Continues(InstancePhases \cup {"next"})
    BY <1>2 DEF Continues
  <2>2. work'.pc # "next" /\ work'.pc # "write" /\ work'.pc # "delSecret"
    BY <1>2, <2>1, PhaseFacts
  <2> QED
    BY <1>b, <1>c, <2>1, <2>2 DEF Calls
<1>3. CASE CreateClient
  BY <1>1, <1>2, <1>3, CreateClientCall DEF CreateClient, backendVars, InstancePhases
<1>4. CASE getProject
  BY <1>1, <1>2, <1>4, getProjectCall DEF getProject, backendVars, InstancePhases
<1>5. CASE createProject
  BY <1>1, <1>2, <1>5, createProjectCall DEF createProject, InstancePhases
<1>6. CASE getExisting
  <2>1. ~ work.deleting /\ UNCHANGED <<stored, secret>>
    BY <1>6 DEF getExisting, backendVars, WorkOK, PassPhases
  <2>2. ASSUME Continues({"next"}), stored[work.inst][work.obj] = work.spec.value
        PROVE  Calls
    BY <1>b, <1>c, <2>1, <2>2 DEF Calls, Continues
  <2> QED
    BY <1>1, <1>2, <1>6, <2>1, <2>2, getExistingCall DEF InstancePhases
<1>7. CASE validate
  <2>1. ~ work.deleting /\ UNCHANGED <<stored, secret>>
    BY <1>7 DEF validate, backendVars, WorkOK, PassPhases
  <2>2. ASSUME Continues({"secret", "write"}),
               work'.pc = IF work.spec.client /\ Kind # "PersesDashboard" THEN "secret" ELSE "write"
        PROVE  Calls
    BY <1>b, <1>c, <2>1, <2>2 DEF Calls, Continues, InstancePhases
  <2> QED
    BY <1>1, <1>7, <2>1, <2>2, validateCall
<1>8. CASE readCredential
  BY <1>a, <1>b, <1>1, <1>2, <1>8, readCredentialCall DEF readCredential, backendVars, InstancePhases
<1>9. CASE writeSecret
  <2>1. stored' = stored /\ ~ work.deleting /\ work.pc = "writeSecret"
    BY <1>9 DEF writeSecret, WorkOK, PassPhases
  <2>2. ASSUME Continues({"write"}), work'.cred = work.cred,
               secret' = [secret EXCEPT ![work.inst][work.obj] = work.cred]
        PROVE  Calls
    <3>1. secret'[work.inst][work.obj] = work'.cred
      BY <1>a, <1>b, <2>2
    <3>2. Continues(InstancePhases \cup {"next"}) /\ work'.pc = "write"
      BY <2>2 DEF Continues, InstancePhases
    <3> QED
      BY <1>b, <1>c, <2>1, <3>1, <3>2 DEF Calls
  <2> QED
    BY <1>1, <1>9, <2>1, <2>2, writeSecretCall
<1>10. CASE writeObject
  <2>1. secret' = secret /\ ~ work.deleting
    BY <1>10 DEF writeObject, WorkOK, PassPhases
  <2>2. ASSUME Continues({"next"}), stored' = [stored EXCEPT ![work.inst][work.obj] = work.spec.value]
        PROVE  Calls
    <3>1. stored'[work.inst][work.obj] = work.spec.value
      BY <1>a, <1>b, <2>2
    <3>2. Continues(InstancePhases \cup {"next"}) /\ work'.pc = "next"
      BY <2>2 DEF Continues
    <3> QED
      BY <1>b, <1>c, <2>1, <3>1, <3>2 DEF Calls
  <2> QED
    BY <1>1, <1>10, <2>1, <2>2, writeObjectCall
<1>11. CASE getProjectToDelete
  BY <1>1, <1>2, <1>11, getProjectToDeleteCall DEF getProjectToDelete, backendVars, InstancePhases
<1>12. CASE deleteObject
  <2>1. secret' = secret /\ work.deleting /\ work.pc = "delete"
    BY <1>12 DEF deleteObject, WorkOK, PassPhases
  <2>2. ASSUME Continues({IF Kind = "PersesDashboard" THEN "next" ELSE "delSecret"}),
               stored' = [stored EXCEPT ![work.inst][work.obj] = Absent]
        PROVE  Calls
    <3>1. stored'[work.inst][work.obj] = Absent
      BY <1>a, <1>b, <2>2
    <3>2. /\ Continues(InstancePhases \cup {"next"})
          /\ work'.pc = IF Kind = "PersesDashboard" THEN "next" ELSE "delSecret"
      BY <2>2 DEF Continues, InstancePhases
    <3> QED
      BY <1>b, <1>c, <2>1, <3>1, <3>2 DEF Calls
  <2> QED
    BY <1>1, <1>12, <2>1, <2>2, deleteObjectCall
<1>13. CASE deleteSecret
  <2>1. stored' = stored /\ work.deleting /\ work.pc = "delSecret"
    BY <1>13 DEF deleteSecret, WorkOK, PassPhases
  <2>2. ASSUME Continues({"next"}), secret' = [secret EXCEPT ![work.inst][work.obj] = Absent]
        PROVE  Calls
    <3>1. secret'[work.inst][work.obj] = Absent
      BY <1>a, <1>b, <2>2
    <3>2. Continues(InstancePhases \cup {"next"}) /\ work'.pc = "next"
      BY <2>2 DEF Continues
    <3> QED
      BY <1>b, <1>c, <2>1, <3>1, <3>2 DEF Calls
  <2> QED
    BY <1>1, <1>13, <2>1, <2>2, deleteSecretCall
<1> QED
  BY <1>3, <1>4, <1>5, <1>6, <1>7, <1>8, <1>9, <1>10, <1>11, <1>12, <1>13 DEF InstanceStep

\* Every step of the worker is one of these steps of its pass.
LEMMA PassSteps ==
    ASSUME TypeOK, WorkOK, WorkerStep
    PROVE  PassStep
<1>1. ASSUME NEW o \in Objects, Reconcile(o)
      PROVE  PassStep
  <2>1. work.pc = "idle" /\ o \in queue /\ UNCHANGED <<stored, secret>>
    BY <1>1 DEF Reconcile, backendVars
  <2>2. CASE UNCHANGED <<queue, work, metricVars>>
    BY <2>1, <2>2 DEF PassStep, Skips
  <2>3. CASE /\ cr[o].exists /\ queue' = queue \ {o}
             /\ work'.pc = "unknown" /\ work'.obj = o /\ work'.deleting = FALSE
             /\ work'.spec = [value |-> cr[o].value, selector |-> cr[o].selector, client |-> cr[o].client]
    BY <2>1, <2>3 DEF PassStep, Begins
  <2>4. CASE /\ ~ cr[o].exists /\ queue' = queue \ {o} /\ ForgetTracked(o) /\ ForgetReported(o)
             /\ work'.pc = "list" /\ work'.obj = o /\ work'.deleting = TRUE
    <3>1. tracked'[o] = "none" /\ reported'[o] = {}
      BY <2>4 DEF ForgetTracked, ForgetReported, TypeOK
    <3> QED
      BY <2>1, <2>4, <3>1 DEF PassStep, Begins
  <2> QED
    BY <1>1, <2>2, <2>3, <2>4, ReconcileFacts
<1>2. ASSUME work.pc # "idle", EndFailed(work.obj), UNCHANGED <<stored, secret>>
      PROVE  PassStep
  BY <1>2 DEF EndFailed, PassStep, GivesUp
<1>3. ASSUME work.obj \in Objects, EndOK(work.obj)
      PROVE  /\ work' = IdleWork /\ UNCHANGED queue
             /\ tracked'[work.obj] = "ok" /\ "synced" \in reported'[work.obj]
  BY <1>3 DEF EndOK, SetStatus, SetSyncedResources, setResources, TypeOK
<1>4. CASE setStatusToUnknown
  <2>1. work.pc = "unknown" /\ work.obj \in Objects /\ UNCHANGED <<stored, secret>>
    BY <1>4 DEF setStatusToUnknown, WorkOK, backendVars
  <2>2. CASE SamePass /\ work'.pc = "list" /\ UNCHANGED queue
    BY <2>1, <2>2 DEF PassStep, Proceeds
  <2>3. CASE EndOK(work.obj) /\ ~ cr[work.obj].exists
    BY <1>3, <2>1, <2>3 DEF PassStep, Reports
  <2> QED
    BY <1>2, <1>4, <2>1, <2>2, <2>3, setStatusToUnknownFacts
<1>5. CASE setStatusToComplete
  <2>1. work.pc = "complete" /\ work.obj \in Objects /\ UNCHANGED <<stored, secret>>
    BY <1>5 DEF setStatusToComplete, WorkOK, backendVars
  <2>2. CASE /\ WriteStatus(work.obj, [available |-> "True", degraded |-> "False", reason |-> "Reconciled"])
             /\ EndOK(work.obj)
    <3>1. [available |-> "True", degraded |-> "False", reason |-> "Reconciled"] \in Status
      BY DEF Status
    <3>2. cr'[work.obj].status = [available |-> "True", degraded |-> "False", reason |-> "Reconciled"]
      BY <2>1, <2>2, <3>1, WriteStatusFacts
    <3> QED
      BY <1>3, <2>1, <2>2, <3>2 DEF PassStep, Reports
  <2>3. CASE EndOK(work.obj) /\ ~ cr[work.obj].exists
    BY <1>3, <2>1, <2>3 DEF PassStep, Reports
  <2> QED
    BY <1>2, <1>5, <2>1, <2>2, <2>3, setStatusToCompleteFacts
<1>6. CASE setStatusToDegraded
  BY <1>2, <1>6, setStatusToDegradedFacts DEF setStatusToDegraded, backendVars
<1>7. ASSUME Aborted, work.pc # "idle", UNCHANGED <<stored, secret>>
      PROVE  PassStep
  BY <1>7 DEF Aborted, PassStep, GivesUp
<1>8. CASE reconcileInAllInstances
  <2>1. work.pc = "list" /\ ~ work.deleting /\ UNCHANGED <<stored, secret>>
    BY <1>8 DEF reconcileInAllInstances, backendVars
  <2> DEFINE available == {i \in Instances : pcache[i].exists /\ pcache[i].label \in work.spec.selector
                                             /\ pcache[i].available}
  <2>2. CASE /\ work'.obj = work.obj /\ work'.spec = work.spec
             /\ work'.deleting = FALSE /\ work'.pc = "next"
             /\ work'.todo = available /\ work'.listed = available
             /\ UNCHANGED queue
    BY <2>1, <2>2 DEF PassStep, ListsAvailable
  <2> QED
    BY <1>2, <1>7, <1>8, <2>1, <2>2, reconcileInAllFacts
<1>9. CASE deleteInAllInstances
  <2>1. work.pc = "list" /\ work.deleting /\ UNCHANGED <<stored, secret>>
    BY <1>9 DEF deleteInAllInstances, backendVars
  <2> QED
    BY <1>7, <1>9, <2>1, deleteInAllFacts DEF PassStep, ListsAll
<1>10. ASSUME NEW i \in Instances, NextInstance(i)
       PROVE  PassStep
  <2>1. Visits(i)
    BY <1>10, NextInstanceFacts DEF NextInstance, Visits, backendVars
  <2> QED
    BY <2>1 DEF PassStep
<1>11. CASE AllInstancesDone
  <2>1. work.pc = "next" /\ work.todo = {} /\ UNCHANGED <<queue, stored, secret, tracked, reported>>
    BY <1>11 DEF AllInstancesDone, backendVars, metricVars
  <2> QED
    BY <1>11, <2>1, AllInstancesDoneFacts DEF PassStep, Completes, Deletes
<1>12. CASE InstanceStep
  BY <1>12, InstanceSteps DEF PassStep
<1> QED
  BY <1>1, <1>4, <1>5, <1>6, <1>8, <1>9, <1>10, <1>11, <1>12 DEF WorkerStep

\* All that the invariants below need to know of a step of the worker.
WorkerFacts ==
    /\ PassStep /\ StatusStep /\ MetricStep /\ BackendStep
    /\ UNCHANGED <<perses, credential, pcache, known, lost, unnoticed>>

\* Every step of the worker, as the invariants need to know it.
LEMMA WorkerSteps ==
    ASSUME TypeOK, WorkOK, WorkerStep
    PROVE  WorkerFacts
  BY PassSteps, StatusSteps, MetricSteps, BackendSteps, WorkerFrame DEF WorkerFacts

-----------------------------------------------------------------------------
(***************************************************************************)
(* What a step of the environment does.                                    *)
(***************************************************************************)

\* Somebody changes an object: its event is not delivered yet.
ResourceChange(o) ==
    /\ pending' = pending \cup {o}
    /\ \A p \in Objects \ {o} : cr'[p] = cr[p] /\ (p \in lost' <=> p \in lost)
    /\ Kind = "PersesDashboard" => (cr'[o].client => cr[o].client)
    /\ UNCHANGED <<perses, pcache, known, queue, work, stored, secret, tracked, reported, unnoticed>>

\* Something happens to a Perses object or its server.  Of what its backend held,
\* either nothing is lost or everything; and as long as the caches have not seen
\* the change, there is nothing new to reach.
Wiped(i) ==
    /\ \A j \in Instances, o \in Objects :
          /\ stored'[j][o] = IF j = i THEN Absent ELSE stored[j][o]
          /\ secret'[j][o] = IF j = i THEN Absent ELSE secret[j][o]
    /\ work' = [work EXCEPT !.listed = work.listed \ {i}]
    /\ ~ Seen(i)'
PersesChange(i) ==
    /\ UNCHANGED <<cr, pcache, known, pending, queue, tracked, reported, lost>>
    /\ UNCHANGED <<stored, secret, work>> \/ Wiped(i)
    /\ \A j \in Instances :
          /\ Seen(j)' => Seen(j)
          /\ Running(j) /\ ~ Running(j)' => j = i /\ Wiped(i)
          /\ j \notin unnoticed' => pcache[j].label = perses'[j].label
          /\ perses'[j].available => perses'[j].exists /\ pcache[j].exists

\* Nothing the invariants speak of changes.
Unaffected ==
    UNCHANGED <<cr, perses, pcache, known, pending, queue, work, stored, secret, tracked, reported, lost, unnoticed>>

\* Every edit of a custom resource changes that one only, and has an event pending.
LEMMA ResourceSteps ==
    ASSUME TypeOK, NEW o \in Objects, CreateResource(o) \/ EditResource(o) \/ DeleteResource(o)
    PROVE  ResourceChange(o)
<1>a. cr \in [Objects -> Resource]
  BY DEF TypeOK
<1>1. CASE CreateResource(o)
  <2>1. PICK v \in Values, s \in Selectors, c \in ClientConfigs :
          cr' = [cr EXCEPT ![o] = [exists |-> TRUE, value |-> v, selector |-> s,
                                   client |-> c, status |-> NoStatus]]
    BY <1>1 DEF CreateResource
  <2>2. Kind = "PersesDashboard" => ~ c
    BY DEF ClientConfigs
  <2>3. cr'[o].client = c /\ \A p \in Objects \ {o} : cr'[p] = cr[p]
    BY <1>a, <2>1
  <2> QED
    BY <1>1, <2>2, <2>3 DEF CreateResource, ResourceChange, backendVars, metricVars
<1>2. CASE EditResource(o)
  BY <1>a, <1>2, EditFacts DEF EditResource, ResourceChange, backendVars, metricVars, historyVars
<1>3. CASE DeleteResource(o)
  BY <1>a, <1>3 DEF DeleteResource, ResourceChange, backendVars, metricVars, historyVars, Resource
<1> QED
  BY <1>1, <1>2, <1>3

\* An instance that starts over empty has no copy of anything.
LEMMA WipeFacts ==
    ASSUME TypeOK, NEW i \in Instances, Wipe(i), ~ Seen(i)'
    PROVE  Wiped(i)
  BY DEF TypeOK, Wipe, Wiped

\* Every change of a Perses object or its backend touches that instance only.
LEMMA PersesSteps ==
    ASSUME TypeOK, CachesFollow, NEW i \in Instances,
           \/ CreatePerses(i) \/ (\E b \in BOOLEAN : SetAvailable(i, b)) \/ DeletePerses(i)
           \/ (\E l \in Labels : RelabelPerses(i, l)) \/ LoseBackend(i) \/ CreateProjectElsewhere(i)
    PROVE  PersesChange(i)
<1>a. perses \in [Instances -> Perses] /\ pcache \in [Instances -> Perses] /\ unnoticed \subseteq Instances
  BY DEF TypeOK
<1>b. \A j \in Instances :
         /\ j \notin unnoticed => pcache[j].label = perses[j].label
         /\ perses[j].available => perses[j].exists /\ pcache[j].exists
  BY DEF CachesFollow
<1>1. CASE CreatePerses(i)
  <2>1. /\ ~ perses[i].exists /\ pcache[i] = perses[i]
        /\ UNCHANGED <<cr, pcache, known, pending, queue, tracked, reported, lost, stored, secret, work, unnoticed>>
    BY <1>1 DEF CreatePerses, ChangePerses, watchVars, metricVars, backendVars
  <2>2. perses' = [perses EXCEPT ![i] = [perses[i] EXCEPT !.exists = TRUE, !.available = FALSE]]
    BY <1>1 DEF CreatePerses, ChangePerses
  <2>3. /\ ~ perses'[i].available /\ perses'[i].label = perses[i].label
        /\ \A j \in Instances \ {i} : perses'[j] = perses[j]
    BY <1>a, <2>2 DEF Perses
  <2> QED
    BY <1>a, <1>b, <2>1, <2>3 DEF PersesChange, Seen, Running, Perses
<1>2. ASSUME NEW b \in BOOLEAN, SetAvailable(i, b)
      PROVE  PersesChange(i)
  <2>1. /\ perses[i].exists /\ perses[i].available # b /\ pcache[i] = perses[i]
        /\ UNCHANGED <<cr, pcache, known, pending, queue, tracked, reported, lost, stored, secret, work>>
        /\ unnoticed' = IF b THEN unnoticed \ {i} ELSE unnoticed
    BY <1>2 DEF SetAvailable, ChangePerses, watchVars, metricVars, backendVars
  <2>2. perses' = [perses EXCEPT ![i] = [perses[i] EXCEPT !.available = b]]
    BY <1>2 DEF SetAvailable, ChangePerses
  <2>3. /\ perses'[i].exists = perses[i].exists /\ perses'[i].label = perses[i].label
        /\ \A j \in Instances \ {i} : perses'[j] = perses[j]
    BY <1>a, <2>2 DEF Perses
  <2>4. b => ~ pcache[i].available
    BY <1>a, <2>1 DEF Perses
  <2> QED
    BY <1>a, <1>b, <2>1, <2>3, <2>4 DEF PersesChange, Seen, Running, Perses
<1>3. CASE DeletePerses(i)
  <2>1. /\ pcache[i] = perses[i] /\ Wipe(i)
        /\ UNCHANGED <<cr, pcache, known, pending, queue, tracked, reported, lost, unnoticed>>
        /\ perses' = [perses EXCEPT ![i] = [perses[i] EXCEPT !.exists = FALSE, !.available = FALSE]]
    BY <1>3 DEF DeletePerses, ChangePerses, watchVars, metricVars
  <2>2. /\ ~ perses'[i].exists /\ ~ perses'[i].available /\ perses'[i].label = perses[i].label
        /\ \A j \in Instances \ {i} : perses'[j] = perses[j]
    BY <1>a, <2>1 DEF Perses
  <2>3. Wiped(i)
    BY <2>1, <2>2, WipeFacts DEF Seen
  <2> QED
    BY <1>a, <1>b, <2>1, <2>2, <2>3 DEF PersesChange, Seen, Running, Perses
<1>4. ASSUME NEW l \in Labels, RelabelPerses(i, l)
      PROVE  PersesChange(i)
  <2>1. /\ UNCHANGED <<cr, pcache, known, pending, queue, tracked, reported, lost, stored, secret, work>>
        /\ unnoticed' = unnoticed \cup {i}
        /\ perses' = [perses EXCEPT ![i].label = l]
    BY <1>4 DEF RelabelPerses, watchVars, metricVars, backendVars
  <2>2. /\ perses'[i].exists = perses[i].exists /\ perses'[i].available = perses[i].available
        /\ \A j \in Instances \ {i} : perses'[j] = perses[j]
    BY <1>a, <2>1 DEF Perses
  <2> QED
    BY <1>a, <1>b, <2>1, <2>2 DEF PersesChange, Seen, Running, Perses
<1>5. CASE LoseBackend(i)
  <2>1. /\ Wipe(i) /\ unnoticed' = unnoticed \cup {i}
        /\ UNCHANGED <<cr, perses, pcache, known, pending, queue, tracked, reported, lost>>
    BY <1>5 DEF LoseBackend, clusterVars, watchVars, metricVars
  <2>2. Wiped(i)
    BY <2>1, WipeFacts DEF Seen
  <2> QED
    BY <1>a, <1>b, <2>1, <2>2 DEF PersesChange, Seen, Running, Perses
<1>6. CASE CreateProjectElsewhere(i)
  <2>1. UNCHANGED <<cr, perses, pcache, known, pending, queue, tracked, reported, lost, unnoticed, stored, secret, work>>
    BY <1>6 DEF CreateProjectElsewhere, clusterVars, watchVars, metricVars, historyVars
  <2> QED
    BY <1>b, <2>1 DEF PersesChange, Seen, Running
<1> QED
  BY <1>1, <1>2, <1>3, <1>4, <1>5, <1>6

\* Every step is one of these.
LEMMA StepCases ==
    ASSUME TypeOK, PassPhases, CachesFollow, [Next]_vars
    PROVE  \/ \E o \in Objects : ResourceChange(o) \/ ObserveResource(o)
           \/ \E i \in Instances : PersesChange(i) \/ ObservePerses(i)
           \/ Restart
           \/ WorkerFacts
           \/ Unaffected
<1>0. WorkOK
  BY DEF TypeOK, WorkOK
<1>1. ASSUME NEW o \in Objects, RotateCredential(o)
      PROVE  Unaffected
  BY <1>1 DEF RotateCredential, Unaffected, watchVars, backendVars, metricVars, historyVars
<1>2. CASE UNCHANGED vars
  BY <1>2 DEF vars, Unaffected, clusterVars, watchVars, backendVars, metricVars, historyVars
<1>3. CASE UserStep
  BY <1>1, <1>3, ResourceSteps, PersesSteps DEF UserStep
<1> QED
  BY <1>0, <1>2, <1>3, WorkerSteps DEF Next, WatchStep

-----------------------------------------------------------------------------
(***************************************************************************)
(* Each part of the inductive invariant is kept by each kind of step.      *)
(***************************************************************************)

\* Dashboards have no secret config, so no pass of theirs gets to a secret.
LEMMA NoDashboardSecretsNext ==
    ASSUME SyncInv, TypeOK', [Next]_vars
    PROVE  NoDashboardSecrets'
<1> SUFFICES ASSUME Kind = "PersesDashboard" PROVE NoDashboardSecrets'
  BY DEF NoDashboardSecrets
<1> USE DEF SyncInv
<1>a. /\ \A o \in Objects : ~ cr[o].client
      /\ work.pc # "idle" /\ ~ work.deleting => ~ work.spec.client
      /\ \A i \in Instances, o \in Objects : secret[i][o] = Absent
  BY DEF NoDashboardSecrets
<1>1. ASSUME NEW o \in Objects, ResourceChange(o)
      PROVE  NoDashboardSecrets'
  BY <1>a, <1>1 DEF ResourceChange, NoDashboardSecrets
<1>2. ASSUME NEW i \in Instances, PersesChange(i)
      PROVE  NoDashboardSecrets'
  <2>1. cr' = cr
    BY <1>2 DEF PersesChange
  <2>2. \A j \in Instances, o \in Objects : secret'[j][o] = Absent
    BY <1>a, <1>2 DEF PersesChange, Wiped
  <2>3. work'.pc = work.pc /\ work'.deleting = work.deleting /\ work'.spec = work.spec
    BY <1>2 DEF PersesChange, Wiped, TypeOK, Work
  <2> QED
    BY <1>a, <2>1, <2>2, <2>3 DEF NoDashboardSecrets
<1>3. CASE WatchStep
  BY <1>a, <1>3 DEF WatchStep, ObserveResource, ObservePerses, NoDashboardSecrets, clusterVars, backendVars
<1>4. CASE Restart
  BY <1>a, <1>4, IdleFacts DEF Restart, NoDashboardSecrets, clusterVars, backendVars
<1>5. CASE WorkerFacts
  <2>1. \A o \in Objects : ~ cr'[o].client
    BY <1>a, <1>5 DEF WorkerFacts, StatusStep
  <2>2. work'.pc # "idle" /\ ~ work'.deleting => ~ work'.spec.client
    <3>1. CASE \E o \in Objects : Begins(o)
      BY <1>a, <3>1 DEF Begins
    <3>2. CASE \/ Proceeds \/ ListsAvailable \/ ListsAll \/ (\E i \in Instances : Visits(i))
               \/ Completes \/ Calls
      <4>1. work.pc # "idle" /\ work'.spec = work.spec /\ (work'.deleting <=> work.deleting)
        BY <3>2, PhaseFacts DEF Proceeds, ListsAvailable, ListsAll, Visits, Completes, Calls, Continues, SamePass
      <4> QED
        BY <1>a, <4>1
    <3>3. CASE Skips \/ GivesUp \/ Reports \/ Deletes
      BY <1>a, <3>3, IdleFacts DEF Skips, GivesUp, Reports, Deletes, SamePass
    <3> QED
      BY <1>5, <3>1, <3>2, <3>3 DEF WorkerFacts, PassStep
  <2>3. \A i \in Instances, o \in Objects : secret'[i][o] = Absent
    <3>1. work.pc # "writeSecret"
      BY <1>a DEF PassPhases
    <3>2. secret' = secret \/ secret' = [secret EXCEPT ![work.inst][work.obj] = Absent]
      BY <1>5, <3>1 DEF WorkerFacts, BackendStep
    <3>3. secret \in [Instances -> [Objects -> Nat \cup {Absent}]]
      BY DEF TypeOK
    <3>4. CASE secret' = [secret EXCEPT ![work.inst][work.obj] = Absent]
      <4> HIDE DEF SyncInv
      <4> QED
        BY <1>a, <3>3, <3>4
    <3> QED
      BY <1>a, <3>2, <3>4
  <2> QED
    BY <2>1, <2>2, <2>3 DEF NoDashboardSecrets
<1>6. CASE Unaffected
  BY <1>a, <1>6 DEF Unaffected, NoDashboardSecrets
<1> QED
  BY <1>1, <1>2, <1>3, <1>4, <1>5, <1>6, StepCases DEF WatchStep

\* The caches follow the API server.
LEMMA CachesFollowNext ==
    ASSUME SyncInv, TypeOK', [Next]_vars
    PROVE  CachesFollow'
<1> USE DEF SyncInv
<1>a. \A i \in Instances :
         /\ i \notin unnoticed => pcache[i].label = perses[i].label
         /\ perses[i].available => perses[i].exists /\ pcache[i].exists
         /\ pcache[i].available => pcache[i].exists
  BY DEF CachesFollow
<1>b. \A o \in Objects : o \notin pending => (o \in known <=> cr[o].exists)
  BY DEF CachesFollow
<1>c. pcache \in [Instances -> Perses]
  BY DEF TypeOK
<1>1. ASSUME NEW o \in Objects, ResourceChange(o)
      PROVE  CachesFollow'
  BY <1>a, <1>b, <1>1 DEF ResourceChange, CachesFollow
<1>2. ASSUME NEW i \in Instances, PersesChange(i)
      PROVE  CachesFollow'
  BY <1>a, <1>b, <1>2 DEF PersesChange, CachesFollow
<1>3. ASSUME NEW o \in Objects, ObserveResource(o)
      PROVE  CachesFollow'
  BY <1>a, <1>b, <1>3 DEF ObserveResource, CachesFollow, clusterVars, historyVars
<1>4. ASSUME NEW i \in Instances, ObservePerses(i)
      PROVE  CachesFollow'
  <2>1. UNCHANGED <<perses, cr, known, pending, unnoticed>> /\ pcache' = [pcache EXCEPT ![i] = perses[i]]
    BY <1>4 DEF ObservePerses, clusterVars, historyVars
  <2>2. pcache'[i] = perses[i] /\ \A j \in Instances \ {i} : pcache'[j] = pcache[j]
    BY <1>c, <2>1
  <2> QED
    BY <1>a, <1>b, <2>1, <2>2 DEF CachesFollow
<1>5. CASE Restart
  BY <1>a, <1>5 DEF Restart, CachesFollow, clusterVars
<1>6. CASE WorkerFacts
  BY <1>a, <1>b, <1>6 DEF WorkerFacts, StatusStep, CachesFollow
<1>7. CASE Unaffected
  BY <1>a, <1>b, <1>7 DEF Unaffected, CachesFollow
<1> QED
  BY <1>1, <1>2, <1>3, <1>4, <1>5, <1>6, <1>7, StepCases

\* A backend that does not run has nothing: what stops it empties it, and nothing
\* is written to it.
LEMMA StoppedIsEmptyNext ==
    ASSUME SyncInv, TypeOK', [Next]_vars
    PROVE  StoppedIsEmpty'
<1> USE DEF SyncInv
<1>a. \A i \in Instances : ~ Running(i) => \A o \in Objects : stored[i][o] = Absent /\ secret[i][o] = Absent
  BY DEF StoppedIsEmpty, Clean
<1> SUFFICES ASSUME NEW i \in Instances, NEW o \in Objects, ~ Running(i)'
             PROVE  stored'[i][o] = Absent /\ secret'[i][o] = Absent
  BY DEF StoppedIsEmpty, Clean
<1>1. ASSUME ~ Running(i), UNCHANGED <<stored, secret>>
      PROVE  stored'[i][o] = Absent /\ secret'[i][o] = Absent
  BY <1>a, <1>1
<1>2. ASSUME NEW p \in Objects, ResourceChange(p)
      PROVE  stored'[i][o] = Absent /\ secret'[i][o] = Absent
  BY <1>1, <1>2 DEF ResourceChange, Running
<1>3. ASSUME NEW j \in Instances, PersesChange(j)
      PROVE  stored'[i][o] = Absent /\ secret'[i][o] = Absent
  <2>1. ~ Running(i) \/ Wiped(i)
    BY <1>3 DEF PersesChange
  <2>2. CASE Wiped(i)
    BY <2>2 DEF Wiped
  <2>3. CASE ~ Running(i)
    BY <1>a, <1>3, <2>3 DEF PersesChange, Wiped
  <2> QED
    BY <2>1, <2>2, <2>3
<1>4. CASE WatchStep
  <2>1. pcache \in [Instances -> Perses]
    BY DEF TypeOK
  <2> QED
    BY <1>1, <1>4, <2>1 DEF WatchStep, ObserveResource, ObservePerses, Running, clusterVars, backendVars
<1>5. CASE Restart
  BY <1>1, <1>5 DEF Restart, Running, clusterVars, backendVars
<1>6. CASE WorkerFacts
  <2>1. ~ Running(i)
    BY <1>6 DEF WorkerFacts, Running
  <2>2. stored[i][o] = Absent /\ secret[i][o] = Absent
    BY <1>a, <2>1
  <2> QED
    BY <1>6, <2>1, <2>2 DEF WorkerFacts, BackendStep, TypeOK
<1>7. CASE Unaffected
  BY <1>1, <1>7 DEF Unaffected, Running
<1> QED
  BY <1>2, <1>3, <1>4, <1>5, <1>6, <1>7, StepCases DEF WatchStep

\* How far the pass is.
LEMMA LoopFacts ==
    /\ work.pc \in InstancePhases => Looping /\ ToVisit = work.todo \cup {work.inst}
    /\ work.pc \in {"next", "complete"} => Looping /\ ToVisit = work.todo
    /\ work.pc \in {"idle", "unknown", "list", "degrade"} => ~ Looping
  BY PhaseFacts DEF Looping, ToVisit

\* A call touches one instance, and leaves it up to date.
LEMMA DoneSoFarCalls ==
    ASSUME SyncInv, TypeOK', Calls
    PROVE  DoneSoFar'
<1>a. /\ work.pc \in InstancePhases /\ BackendStep
      /\ SamePass /\ work'.todo = work.todo /\ work'.inst = work.inst
      /\ work'.pc \in InstancePhases \cup {"next"}
  BY DEF Calls, Continues
<1>b. /\ stored \in [Instances -> [Objects -> Values \cup {Absent}]]
      /\ secret \in [Instances -> [Objects -> Nat \cup {Absent}]]
      /\ work.obj \in Objects /\ work.inst \in Instances
  BY <1>a, PhaseFacts DEF SyncInv, TypeOK
<1>c. Looping /\ ToVisit = work.todo \cup {work.inst}
  BY <1>a, LoopFacts
<1>d. ToVisit' = IF work'.pc = "next" THEN work.todo ELSE work.todo \cup {work.inst}
  BY <1>a, PhaseFacts DEF ToVisit
<1>e. \A i \in Instances \ {work.inst} :
         stored'[i][work.obj] = stored[i][work.obj] /\ secret'[i][work.obj] = secret[i][work.obj]
  BY <1>a, <1>b DEF BackendStep
<1>1. CASE work.deleting
  <2>1. \A i \in Instances \ ToVisit : stored[i][work.obj] = Absent /\ secret[i][work.obj] = Absent
    BY <1>1, <1>c DEF SyncInv, DoneSoFar, Clean
  <2>2. work'.pc = "delSecret" => stored'[work.inst][work.obj] = Absent
    BY <1>1 DEF Calls
  <2>3. work'.pc = "next" => stored'[work.inst][work.obj] = Absent /\ secret'[work.inst][work.obj] = Absent
    <3>1. ASSUME work.pc = "delSecret", secret'[work.inst][work.obj] = Absent, stored' = stored
          PROVE  stored'[work.inst][work.obj] = Absent /\ secret'[work.inst][work.obj] = Absent
      BY <1>1, <1>c, <3>1 DEF SyncInv, DoneSoFar
    <3>2. ASSUME Kind = "PersesDashboard", stored'[work.inst][work.obj] = Absent, secret' = secret
          PROVE  stored'[work.inst][work.obj] = Absent /\ secret'[work.inst][work.obj] = Absent
      BY <1>b, <3>2 DEF SyncInv, NoDashboardSecrets
    <3> QED
      BY <1>1, <3>1, <3>2 DEF Calls
  <2>4. \A i \in Instances \ ToVisit' : stored'[i][work.obj] = Absent /\ secret'[i][work.obj] = Absent
    BY <1>a, <1>c, <1>d, <1>e, <2>1, <2>3
  <2> QED
    BY <1>1, <1>a, <2>2, <2>4 DEF DoneSoFar, Clean, SamePass
<1>2. CASE ~ work.deleting
  <2>1. \A i \in work.listed \ ToVisit : stored[i][work.obj] = work.spec.value
    BY <1>2, <1>c DEF SyncInv, DoneSoFar
  <2>2. work'.pc = "next" => stored'[work.inst][work.obj] = work.spec.value
    BY <1>2 DEF Calls
  <2>3. work.listed \subseteq Instances
    BY DEF SyncInv, TypeOK, Work
  <2>4. \A i \in work.listed \ ToVisit' : stored'[i][work.obj] = work.spec.value
    BY <1>c, <1>d, <1>e, <2>1, <2>2, <2>3
  <2> QED
    BY <1>2, <1>a, <2>4 DEF DoneSoFar, SamePass
<1> QED
  BY <1>1, <1>2

\* The instances the pass has done hold what it wants them to.
LEMMA DoneSoFarNext ==
    ASSUME SyncInv, TypeOK', [Next]_vars
    PROVE  DoneSoFar'
<1>a. TypeOK /\ PassPhases /\ CachesFollow /\ DoneSoFar
  BY DEF SyncInv
<1>b. stored \in [Instances -> [Objects -> Values \cup {Absent}]]
      /\ work \in Work /\ (work.pc # "idle" => work.obj \in Objects)
  BY DEF SyncInv, TypeOK
<1>1. ASSUME UNCHANGED <<work, stored, secret>>
      PROVE  DoneSoFar'
  BY <1>a, <1>1 DEF DoneSoFar, Looping, ToVisit, Clean
<1>2. ASSUME ~ Looping'
      PROVE  DoneSoFar'
  BY <1>2 DEF DoneSoFar
<1>3. ASSUME NEW i \in Instances, PersesChange(i)
      PROVE  DoneSoFar'
  <2>1. CASE UNCHANGED <<stored, secret, work>>
    BY <1>1, <2>1
  <2>2. CASE Wiped(i)
    <3>1. /\ work'.pc = work.pc /\ work'.obj = work.obj /\ work'.spec = work.spec
          /\ work'.deleting = work.deleting /\ work'.todo = work.todo /\ work'.inst = work.inst
          /\ work'.listed = work.listed \ {i}
      BY <1>b, <2>2 DEF Wiped, Work
    <3>2. (Looping <=> Looping') /\ ToVisit' = ToVisit
      BY <3>1 DEF Looping, ToVisit
    <3>3. Looping => work.obj \in Objects
      BY <1>b, PhaseFacts DEF Looping
    <3>4. work.pc = "delSecret" => work.inst \in Instances
      BY <1>a DEF TypeOK, InstancePhases
    <3>5. work.listed \subseteq Instances
      BY <1>b DEF Work
    <3> QED
      BY <1>a, <2>2, <3>1, <3>2, <3>3, <3>4, <3>5 DEF DoneSoFar, Clean, Wiped
  <2> QED
    BY <1>3, <2>1, <2>2 DEF PersesChange
<1>4. CASE WatchStep
  BY <1>1, <1>4 DEF WatchStep, ObserveResource, ObservePerses, backendVars
<1>5. CASE Restart
  BY <1>5, IdleFacts DEF Restart, DoneSoFar, Looping, InstancePhases
<1>6. CASE WorkerFacts
  <2>1. CASE Skips
    BY <1>1, <2>1 DEF Skips
  <2>2. CASE (\E o \in Objects : Begins(o)) \/ Proceeds \/ GivesUp \/ Reports \/ Deletes
    <3>1. work'.pc \in {"idle", "unknown", "list", "degrade"}
      BY <2>2, IdleFacts DEF Begins, Proceeds, GivesUp, Reports, Deletes
    <3> QED
      BY <1>2, <3>1, PhaseFacts DEF Looping
  <2>3. CASE ListsAvailable
    BY <2>3, PhaseFacts DEF ListsAvailable, DoneSoFar, Looping, ToVisit
  <2>4. CASE ListsAll
    <3>1. /\ work'.pc = "next" /\ work'.deleting /\ UNCHANGED <<stored, secret>> /\ work'.obj = work.obj
          /\ work'.todo = {i \in Instances : pcache[i].exists} /\ work.obj \in Objects
      BY <1>b, <2>4, <1>a DEF ListsAll, SamePass
    <3>2. ASSUME NEW i \in Instances \ work'.todo
          PROVE  Clean(i, work.obj)
      BY <3>1, <3>2 DEF SyncInv, StoppedIsEmpty, Running
    <3>3. ToVisit' = work'.todo
      BY <3>1, PhaseFacts DEF ToVisit
    <3> QED
      BY <3>1, <3>2, <3>3 DEF DoneSoFar, Clean
  <2>5. ASSUME NEW i \in Instances, Visits(i)
        PROVE  DoneSoFar'
    <3>1. /\ SamePass /\ UNCHANGED <<stored, secret>> /\ work'.pc = "client" /\ work.pc = "next"
          /\ work'.todo = work.todo \ {i} /\ work'.inst = i /\ i \in work.todo
      BY <2>5 DEF Visits
    <3>2. Looping /\ ToVisit = work.todo
      BY <3>1, LoopFacts
    <3>3. ToVisit' = ToVisit
      BY <3>1, <3>2 DEF ToVisit, InstancePhases
    <3> QED
      BY <1>a, <3>1, <3>2, <3>3 DEF DoneSoFar, SamePass, Clean
  <2>6. CASE Completes
    <3>1. /\ SamePass /\ UNCHANGED <<stored, secret>> /\ work'.pc = "complete" /\ work.pc = "next"
          /\ work'.todo = {} /\ work.todo = {}
      BY <2>6 DEF Completes
    <3>2. Looping /\ ToVisit = {} /\ ToVisit' = {}
      BY <3>1, PhaseFacts DEF Looping, ToVisit
    <3> QED
      BY <1>a, <3>1, <3>2 DEF DoneSoFar, SamePass, Clean
  <2>7. CASE Calls
    BY <2>7, DoneSoFarCalls
  <2> QED
    BY <1>6, <2>1, <2>2, <2>3, <2>4, <2>5, <2>6, <2>7 DEF WorkerFacts, PassStep
<1>7. CASE (\E o \in Objects : ResourceChange(o)) \/ Unaffected
  BY <1>1, <1>7 DEF ResourceChange, Unaffected
<1> QED
  BY <1>a, <1>3, <1>4, <1>5, <1>6, <1>7, StepCases DEF WatchStep

\* The secret is written right before the datasource.
LEMMA SecretBeforeDatasourceNext ==
    ASSUME SyncInv, TypeOK', [Next]_vars
    PROVE  SecretBeforeDatasource'
<1>a. TypeOK /\ PassPhases /\ CachesFollow /\ SecretBeforeDatasource
  BY DEF SyncInv
<1>b. work \in Work /\ secret \in [Instances -> [Objects -> Nat \cup {Absent}]]
      /\ (work.pc = "write" => work.inst \in Instances /\ work.obj \in Objects)
  BY DEF SyncInv, TypeOK, InstancePhases
<1>1. ASSUME UNCHANGED <<work, secret>>
      PROVE  SecretBeforeDatasource'
  BY <1>a, <1>1 DEF SecretBeforeDatasource
<1>2. ASSUME work'.pc # "write"
      PROVE  SecretBeforeDatasource'
  BY <1>2 DEF SecretBeforeDatasource
<1>3. ASSUME NEW i \in Instances, PersesChange(i)
      PROVE  SecretBeforeDatasource'
  <2>1. CASE UNCHANGED <<stored, secret, work>>
    BY <1>1, <2>1
  <2>2. CASE Wiped(i)
    <3>1. /\ work'.pc = work.pc /\ work'.obj = work.obj /\ work'.spec = work.spec
          /\ work'.cred = work.cred /\ work'.inst = work.inst
          /\ work'.listed = work.listed \ {i}
      BY <1>b, <2>2 DEF Wiped, Work
    <3> QED
      BY <1>a, <1>b, <2>2, <3>1 DEF SecretBeforeDatasource, Wiped
  <2> QED
    BY <1>3, <2>1, <2>2 DEF PersesChange
<1>4. CASE WatchStep
  BY <1>1, <1>4 DEF WatchStep, ObserveResource, ObservePerses, backendVars
<1>5. CASE Restart
  BY <1>2, <1>5, IdleFacts DEF Restart
<1>6. CASE WorkerFacts
  <2>1. CASE Skips
    BY <1>1, <2>1 DEF Skips
  <2>2. CASE \/ (\E o \in Objects : Begins(o)) \/ Proceeds \/ ListsAvailable \/ ListsAll
             \/ (\E i \in Instances : Visits(i)) \/ Completes \/ GivesUp \/ Reports \/ Deletes
    BY <1>2, <2>2, IdleFacts DEF Begins, Proceeds, ListsAvailable, ListsAll, Visits, Completes, GivesUp, Reports, Deletes
  <2>3. CASE Calls
    <3> SUFFICES ASSUME work'.pc = "write", work'.spec.client
                 PROVE  secret'[work'.inst][work'.obj] = work'.cred
      BY DEF SecretBeforeDatasource
    <3>1. work'.inst = work.inst /\ work'.obj = work.obj /\ work'.spec = work.spec
      BY <2>3 DEF Calls, Continues, SamePass
    <3>2. work.pc \in InstancePhases /\ work.pc # "idle"
      BY <2>3, PhaseFacts DEF Calls
    <3>3. ~ work.deleting
      <4>1. PassPhases'
        BY <1>a, TypeNext
      <4>2. work'.deleting = work.deleting
        BY <2>3 DEF Calls, Continues, SamePass
      <4> QED
        BY <4>1, <4>2 DEF PassPhases
    <3> QED
      BY <2>3, <3>1, <3>2, <3>3 DEF Calls, SyncInv, NoDashboardSecrets
  <2> QED
    BY <1>6, <2>1, <2>2, <2>3 DEF WorkerFacts, PassStep
<1>7. CASE (\E o \in Objects : ResourceChange(o)) \/ Unaffected
  BY <1>1, <1>7 DEF ResourceChange, Unaffected
<1> QED
  BY <1>a, <1>3, <1>4, <1>5, <1>6, <1>7, StepCases DEF WatchStep

\* What a busy worker does to the requests: it takes none.
LEMMA BusySteps ==
    ASSUME TypeOK, WorkerFacts, work.pc # "idle"
    PROVE  /\ \A o \in Objects : Due(o) => Due(o)'
           /\ work'.pc # "idle" =>
                /\ work'.obj = work.obj /\ work'.spec = work.spec /\ (work'.deleting <=> work.deleting)
                /\ queue' = queue
<1>1. pending \subseteq pending'
  BY DEF WorkerFacts, StatusStep
<1>2. CASE Skips \/ GivesUp \/ Reports \/ Deletes
  BY <1>1, <1>2, IdleFacts DEF Skips, GivesUp, Reports, Deletes, Due, SamePass
<1>3. CASE Proceeds \/ ListsAvailable \/ ListsAll \/ (\E i \in Instances : Visits(i)) \/ Completes \/ Calls
  <2>1. /\ work'.obj = work.obj /\ work'.spec = work.spec /\ (work'.deleting <=> work.deleting)
        /\ queue' = queue
    BY <1>3 DEF Proceeds, ListsAvailable, ListsAll, Visits, Completes, Calls, Continues, SamePass
  <2> QED
    BY <1>1, <2>1 DEF Due
<1>4. ~ \E o \in Objects : Begins(o)
  BY DEF Begins
<1> QED
  BY <1>2, <1>3, <1>4 DEF WorkerFacts, PassStep

\* An event moves a request from the watch to the queue; the deliveries of the
\* Perses objects only add requests.
LEMMA WatchDue ==
    ASSUME WatchStep, NEW o
    PROVE  Due(o) => Due(o)'
  BY DEF WatchStep, ObserveResource, ObservePerses, Due

\* The pass works with what its object is now, or another pass is due.
LEMMA PassIsCurrentNext ==
    ASSUME SyncInv, TypeOK', [Next]_vars
    PROVE  PassIsCurrent'
<1>a. TypeOK /\ PassPhases /\ CachesFollow /\ PassIsCurrent
  BY DEF SyncInv
<1>b. work \in Work /\ (work.pc # "idle" => work.obj \in Objects)
  BY DEF SyncInv, TypeOK
<1>1. ASSUME work'.pc = work.pc, work'.obj = work.obj, work'.spec = work.spec, work'.deleting = work.deleting,
             work.pc # "idle" => (Due(work.obj) => Due(work.obj)'),
             work.pc # "idle" /\ ~ Due(work.obj)' => cr'[work.obj] = cr[work.obj]
      PROVE  PassIsCurrent'
  BY <1>a, <1>1 DEF PassIsCurrent, Due
<1>2. ASSUME NEW o \in Objects, ResourceChange(o)
      PROVE  PassIsCurrent'
  BY <1>b, <1>1, <1>2 DEF ResourceChange, Due
<1>3. ASSUME NEW i \in Instances, PersesChange(i)
      PROVE  PassIsCurrent'
  <2>1. /\ work'.pc = work.pc /\ work'.obj = work.obj /\ work'.spec = work.spec
        /\ work'.deleting = work.deleting
    BY <1>b, <1>3 DEF PersesChange, Wiped, Work
  <2> QED
    BY <1>1, <1>3, <2>1 DEF PersesChange, Due
<1>4. CASE WatchStep
  <2>1. UNCHANGED <<work, cr>>
    BY <1>4 DEF WatchStep, ObserveResource, ObservePerses, clusterVars
  <2> QED
    BY <1>1, <1>4, <2>1, WatchDue
<1>5. CASE Restart
  BY <1>5, IdleFacts DEF Restart, PassIsCurrent
<1>6. CASE WorkerFacts
  <2>1. CASE work'.pc = "idle"
    BY <2>1 DEF PassIsCurrent
  <2>2. CASE work.pc # "idle" /\ work'.pc # "idle"
    <3>1. /\ work'.obj = work.obj /\ work'.spec = work.spec /\ (work'.deleting <=> work.deleting)
          /\ Due(work.obj) => Due(work.obj)'
      BY <1>a, <1>b, <1>6, <2>2, BusySteps
    <3>2. /\ cr'[work.obj].exists = cr[work.obj].exists /\ cr'[work.obj].value = cr[work.obj].value
          /\ cr'[work.obj].selector = cr[work.obj].selector
      BY <1>b, <1>6, <2>2 DEF WorkerFacts, StatusStep
    <3> QED
      BY <1>a, <2>2, <3>1, <3>2 DEF PassIsCurrent, Due
  <2>3. CASE work.pc = "idle" /\ work'.pc # "idle"
    <3>1. PICK o \in Objects : Begins(o)
      BY <1>6, <2>3, PhaseFacts DEF WorkerFacts, PassStep, Skips, Proceeds, ListsAvailable, ListsAll, Visits, Completes,
         Calls, GivesUp, Reports, Deletes
    <3>2. /\ cr'[o].exists = cr[o].exists /\ cr'[o].value = cr[o].value /\ cr'[o].selector = cr[o].selector
      BY <1>6 DEF WorkerFacts, StatusStep
    <3> QED
      BY <3>1, <3>2 DEF Begins, PassIsCurrent
  <2> QED
    BY <2>1, <2>2, <2>3
<1>7. CASE Unaffected
  BY <1>1, <1>7 DEF Unaffected, Due
<1> QED
  BY <1>a, <1>2, <1>3, <1>4, <1>5, <1>6, <1>7, StepCases DEF WatchStep

\* An instance that becomes available is news to every object the operator knows:
\* for an object that no pass is due for, there is no new instance to reach.
LEMMA NewsMakeDue ==
    ASSUME TypeOK, CachesFollow, NEW i \in Instances, ObservePerses(i),
           NEW o \in Objects, cr[o].exists, ~ Due(o)'
    PROVE  \A j \in Instances : Seen(j)' => Seen(j) /\ pcache'[j].label = pcache[j].label
<1>1. pcache \in [Instances -> Perses] /\ perses \in [Instances -> Perses]
  BY DEF TypeOK
<1>2. UNCHANGED <<cr, perses, known, pending, unnoticed>> /\ pcache' = [pcache EXCEPT ![i] = perses[i]]
  BY DEF ObservePerses, clusterVars, historyVars
<1>3. pcache'[i] = perses[i] /\ \A j \in Instances \ {i} : pcache'[j] = pcache[j]
  BY <1>1, <1>2
<1>4. ~ (pcache[i].exists /\ perses[i].exists /\ ~ pcache[i].available /\ perses[i].available)
  <2>1. o \in known /\ o \notin queue'
    BY <1>2 DEF CachesFollow, Due
  <2> QED
    BY <2>1 DEF ObservePerses, PersesBecameAvailable, MetadataListToRequests
<1>5. /\ i \notin unnoticed => pcache[i].label = perses[i].label
      /\ perses[i].available => pcache[i].exists
  BY DEF CachesFollow
<1>6. Seen(i)' => Seen(i) /\ pcache'[i].label = pcache[i].label
  BY <1>2, <1>3, <1>4, <1>5 DEF Seen
<1>7. \A j \in Instances \ {i} : Seen(j)' => Seen(j) /\ pcache'[j].label = pcache[j].label
  BY <1>2, <1>3 DEF Seen
<1> QED
  BY <1>6, <1>7

\* A pass that nothing has overtaken has listed all there is to reach.
LEMMA ListedAllNext ==
    ASSUME SyncInv, TypeOK', [Next]_vars
    PROVE  ListedAll'
<1>a. TypeOK /\ PassPhases /\ CachesFollow /\ ListedAll /\ PassIsCurrent
  BY DEF SyncInv
<1>b. work \in Work /\ (work.pc # "idle" => work.obj \in Objects) /\ (Looping => work.pc # "idle")
  BY PhaseFacts DEF SyncInv, TypeOK, Looping
<1>1. ASSUME ~ Looping'
      PROVE  ListedAll'
  BY <1>1 DEF ListedAll
<1>3. ASSUME work'.obj = work.obj, work'.spec = work.spec, work'.deleting <=> work.deleting,
             Looping' => Looping, Looping => (Due(work.obj) => Due(work.obj)'),
             \/ work'.listed = work.listed
             \/ \E i \in Instances : work'.listed = work.listed \ {i} /\ ~ Seen(i)',
             Looping /\ ~ work.deleting /\ ~ Due(work.obj)' =>
                \A j \in Instances : Seen(j)' => Seen(j) /\ pcache'[j].label = pcache[j].label
      PROVE  ListedAll'
  <2> SUFFICES ASSUME Looping', ~ work'.deleting, ~ (Due(work.obj)'),
                      NEW j \in Instances, Seen(j)', work.spec.selector # BadSelector,
                      pcache'[j].label \in work.spec.selector
               PROVE  j \in work'.listed
    BY <1>3 DEF ListedAll, Reachable, Due
  <2>1. Seen(j) /\ pcache[j].label \in work.spec.selector
    BY <1>3
  <2>2. j \in work.listed
    BY <1>a, <1>3, <2>1 DEF ListedAll, Reachable
  <2> QED
    BY <1>3, <2>2
<1>4. ASSUME NEW o \in Objects, ResourceChange(o)
      PROVE  ListedAll'
  <2>1. UNCHANGED <<work, pcache>> /\ (Looping <=> Looping') /\ \A p : Due(p) => Due(p)'
    BY <1>4 DEF ResourceChange, Looping, Due
  <2>2. \A j \in Instances : Seen(j)' => Seen(j)
    BY <1>4 DEF ResourceChange, Seen
  <2> QED
    BY <1>3, <2>1, <2>2
<1>5. ASSUME NEW i \in Instances, PersesChange(i)
      PROVE  ListedAll'
  <2>1. /\ work'.pc = work.pc /\ work'.obj = work.obj /\ work'.spec = work.spec
        /\ work'.deleting = work.deleting
        /\ \/ work'.listed = work.listed
           \/ work'.listed = work.listed \ {i} /\ ~ Seen(i)'
    BY <1>b, <1>5 DEF PersesChange, Wiped, Work
  <2>2. (Looping <=> Looping') /\ UNCHANGED pcache /\ \A p : Due(p) => Due(p)'
    BY <1>5, <2>1 DEF PersesChange, Due, Looping
  <2>3. \A j \in Instances : Seen(j)' => Seen(j)
    BY <1>5 DEF PersesChange
  <2> QED
    BY <1>3, <2>1, <2>2, <2>3
<1>6. ASSUME NEW o \in Objects, ObserveResource(o)
      PROVE  ListedAll'
  <2>1. UNCHANGED <<work, pcache, perses, unnoticed>>
    BY <1>6 DEF ObserveResource, clusterVars, historyVars
  <2>2. (Looping <=> Looping') /\ \A j \in Instances : Seen(j)' => Seen(j)
    BY <2>1 DEF Looping, Seen
  <2>3. \A p \in Objects : Due(p) => Due(p)'
    BY <1>6 DEF ObserveResource, Due
  <2> QED
    BY <1>3, <1>b, <2>1, <2>2, <2>3
<1>7. ASSUME NEW i \in Instances, ObservePerses(i)
      PROVE  ListedAll'
  <2>1. UNCHANGED <<work, cr>> /\ \A p : Due(p) => Due(p)'
    BY <1>7 DEF ObservePerses, clusterVars, Due
  <2>2. Looping <=> Looping'
    BY <2>1 DEF Looping
  <2>3. Looping /\ ~ work.deleting /\ ~ Due(work.obj)' => cr[work.obj].exists
    BY <1>a, <1>b, <2>1 DEF PassIsCurrent
  <2>4. Looping /\ ~ work.deleting /\ ~ Due(work.obj)' =>
           \A j \in Instances : Seen(j)' => Seen(j) /\ pcache'[j].label = pcache[j].label
    <3> SUFFICES ASSUME Looping, ~ work.deleting, ~ (Due(work.obj)')
                 PROVE  \A j \in Instances : Seen(j)' => Seen(j) /\ pcache'[j].label = pcache[j].label
      OBVIOUS
    <3> DEFINE o == work.obj
    <3>1. o \in Objects /\ cr[o].exists
      BY <1>b, <2>3
    <3>2. o \notin pending' \cup queue'
      BY <2>1 DEF Due
    <3> QED
      BY <1>a, <1>7, <3>1, <3>2, NewsMakeDue DEF Due
  <2>5. Due(work.obj) => Due(work.obj)'
    BY <2>1 DEF Due
  <2> QED
    BY <1>3, <2>1, <2>2, <2>4, <2>5
<1>8. CASE Restart
  BY <1>8, <1>1, IdleFacts, PhaseFacts DEF Restart, Looping
<1>9. CASE WorkerFacts
  <2>0. \A j \in Instances : (Seen(j)' <=> Seen(j)) /\ UNCHANGED pcache
    BY <1>9 DEF WorkerFacts, Seen
  <2>1. CASE (\E o \in Objects : Begins(o)) \/ Proceeds \/ GivesUp \/ Reports \/ Deletes
    <3>1. work'.pc \in {"idle", "unknown", "list", "degrade"}
      BY <2>1, IdleFacts DEF Begins, Proceeds, GivesUp, Reports, Deletes
    <3> QED
      BY <1>1, <3>1, PhaseFacts DEF Looping
  <2>2. CASE ListsAvailable
    BY <2>0, <2>2 DEF ListsAvailable, ListedAll, Reachable, Seen
  <2>3. CASE ListsAll
    BY <2>3 DEF ListsAll, ListedAll, SamePass
  <2>4. CASE Skips
    <3>1. UNCHANGED <<work, queue>> /\ pending \subseteq pending'
      BY <1>9, <2>4 DEF WorkerFacts, StatusStep, Skips
    <3>2. (Looping <=> Looping') /\ (Due(work.obj) => Due(work.obj)')
      BY <3>1 DEF Looping, Due
    <3> QED
      BY <1>3, <2>0, <3>1, <3>2
  <2>5. CASE (\E i \in Instances : Visits(i)) \/ Completes \/ Calls
    <3>1. SamePass /\ Looping
      BY <2>5, LoopFacts DEF Visits, Completes, Calls, Continues
    <3>2. Due(work.obj) => Due(work.obj)'
      BY <1>a, <1>b, <1>9, <3>1, BusySteps DEF Due, SamePass
    <3> QED
      BY <1>3, <2>0, <3>1, <3>2 DEF SamePass
  <2> QED
    BY <1>9, <2>1, <2>2, <2>3, <2>4, <2>5 DEF WorkerFacts, PassStep
<1>10. CASE Unaffected
  <2>1. UNCHANGED <<work, pcache, perses, unnoticed, pending, queue>>
    BY <1>10 DEF Unaffected
  <2> QED
    BY <1>3, <2>1 DEF Looping, Seen, Due
<1> QED
  BY <1>a, <1>4, <1>5, <1>6, <1>7, <1>8, <1>9, <1>10, StepCases

\* What a step must leave alone for an object to stay at rest.
LEMMA RestingFrame ==
    ASSUME SyncInv, NEW o \in Objects, Due(o) => Due(o)',
           cr'[o] = cr[o], tracked'[o] = tracked[o], reported'[o] = reported[o],
           Busy(o) <=> Busy(o)', o \in lost => o \in lost',
           \/ \A i \in Instances : stored'[i][o] = stored[i][o] /\ secret'[i][o] = secret[i][o]
           \/ \E i \in Instances : Wiped(i),
           ~ (Due(o)') /\ cr[o].exists =>
              \A j \in Instances : Seen(j)' => Seen(j) /\ pcache'[j].label = pcache[j].label
    PROVE  RestingAt(o)'
<1> SUFFICES ASSUME ~ (Due(o)')
             PROVE  /\ cr'[o].exists /\ ~ (Busy(o)') =>
                          /\ \A i \in (Reachable(cr[o].selector))' : stored'[i][o] = cr'[o].value
                          /\ cr'[o].status.available = "True" /\ cr'[o].status.degraded = "False"
                          /\ tracked'[o] = "ok" /\ "synced" \in reported'[o]
                    /\ ~ cr'[o].exists => tracked'[o] = "none" /\ reported'[o] = {}
                    /\ ~ cr'[o].exists /\ ~ (Busy(o)') /\ o \notin lost' =>
                          \A i \in Instances : stored'[i][o] = Absent /\ secret'[i][o] = Absent
  BY DEF RestingAt, Clean
<1>1. RestingAt(o) /\ ~ Due(o)
  BY DEF SyncInv, RestingObjects
<1>2. /\ cr[o].exists /\ ~ Busy(o) =>
            /\ \A i \in Reachable(cr[o].selector) : stored[i][o] = cr[o].value
            /\ cr[o].status.available = "True" /\ cr[o].status.degraded = "False"
            /\ tracked[o] = "ok" /\ "synced" \in reported[o]
      /\ ~ cr[o].exists => tracked[o] = "none" /\ reported[o] = {}
      /\ ~ cr[o].exists /\ ~ Busy(o) /\ o \notin lost =>
            \A i \in Instances : stored[i][o] = Absent /\ secret[i][o] = Absent
  BY <1>1 DEF RestingAt, Clean
<1>3. ASSUME cr'[o].exists, ~ (Busy(o)'), NEW i \in Instances, Seen(i)',
             cr[o].selector # BadSelector, pcache'[i].label \in cr[o].selector
      PROVE  stored'[i][o] = cr'[o].value
  <2>1. Seen(i) /\ pcache[i].label \in cr[o].selector
    BY <1>3
  <2>2. stored[i][o] = cr[o].value
    BY <1>2, <1>3, <2>1 DEF Reachable
  <2>3. ASSUME NEW j \in Instances, Wiped(j)
        PROVE  stored'[i][o] = stored[i][o]
    BY <1>3, <2>3 DEF Wiped
  <2> QED
    BY <2>2, <2>3
<1>4. cr'[o].exists /\ ~ (Busy(o)') =>
         \A i \in (Reachable(cr[o].selector))' : stored'[i][o] = cr'[o].value
  BY <1>3 DEF Reachable
<1>5. ASSUME ~ cr'[o].exists, ~ (Busy(o)'), o \notin lost', NEW i \in Instances
      PROVE  stored'[i][o] = Absent /\ secret'[i][o] = Absent
  <2>1. stored[i][o] = Absent /\ secret[i][o] = Absent
    BY <1>2, <1>5
  <2>2. ASSUME NEW j \in Instances, Wiped(j)
        PROVE  stored'[i][o] = Absent /\ secret'[i][o] = Absent
    BY <2>1, <2>2 DEF Wiped
  <2> QED
    BY <2>1, <2>2
<1> QED
  BY <1>2, <1>4, <1>5

\* The object of the pass, when the pass goes on: only that a deleted object is
\* forgotten has to be kept.
LEMMA RestingWhileBusy ==
    ASSUME SyncInv, WorkerFacts, NEW o \in Objects, Busy(o), work'.pc # "idle"
    PROVE  RestingAt(o)'
<1>1. /\ work'.obj = o
      /\ Due(o) => Due(o)'
  BY BusySteps DEF SyncInv, Busy
<1>2. cr'[o].exists = cr[o].exists /\ tracked'[o] = tracked[o] /\ reported'[o] = reported[o]
  BY IdleFacts DEF WorkerFacts, StatusStep, MetricStep, Busy
<1>3. Busy(o)'
  BY <1>1 DEF Busy
<1>4. ~ (Due(o)') /\ ~ cr[o].exists => tracked[o] = "none" /\ reported[o] = {}
  BY <1>1 DEF SyncInv, RestingObjects, RestingAt
<1> QED
  BY <1>2, <1>3, <1>4 DEF RestingAt

\* The object of a pass that ends without an error is in place everywhere, or gone
\* everywhere, or changed meanwhile and then due for another pass.
LEMMA RestingWhenDone ==
    ASSUME SyncInv, WorkerFacts, NEW o \in Objects, Busy(o), work'.pc = "idle"
    PROVE  RestingAt(o)'
<1>a. TypeOK /\ PassPhases /\ PassIsCurrent /\ ListedAll /\ DoneSoFar /\ work.obj = o /\ work.pc # "idle"
  BY DEF SyncInv, Busy
<1>b. Due(o) => Due(o)'
  BY <1>a, BusySteps
<1>c. /\ cr'[o].exists = cr[o].exists /\ cr'[o].value = cr[o].value /\ cr'[o].selector = cr[o].selector
      /\ UNCHANGED <<perses, pcache, unnoticed, lost>>
  BY DEF WorkerFacts, StatusStep
<1>1. CASE GivesUp
  <2>1. Due(o)'
    BY <1>1, <1>a DEF GivesUp, Due
  <2> QED
    BY <2>1 DEF RestingAt
<1>2. CASE Reports
  <2> SUFFICES ASSUME ~ (Due(o)') PROVE RestingAt(o)'
    BY DEF RestingAt
  <2>1. /\ ~ work.deleting /\ cr[o].exists
        /\ cr[o].value = work.spec.value /\ cr[o].selector = work.spec.selector
    BY <1>2, <1>a, <1>b DEF Reports, PassIsCurrent, PassPhases
  <2>2. work.pc = "complete" /\ work.todo = {} /\ stored' = stored
    BY <1>2, <1>a, <2>1 DEF Reports, PassPhases
  <2>3. Looping /\ ToVisit = {}
    BY <2>2, LoopFacts
  <2>4. \A i \in Reachable(cr[o].selector) : stored[i][o] = cr[o].value
    BY <1>a, <1>b, <2>1, <2>3 DEF ListedAll, DoneSoFar
  <2>5. (Reachable(cr[o].selector))' = Reachable(cr[o].selector)
    BY <1>c DEF Reachable, Seen
  <2>6. \A i \in (Reachable(cr[o].selector))' : stored'[i][o] = cr'[o].value
    BY <1>c, <2>2, <2>4, <2>5
  <2>7. /\ cr'[o].status.available = "True" /\ cr'[o].status.degraded = "False"
        /\ tracked'[o] = "ok" /\ "synced" \in reported'[o]
    BY <1>2, <1>a, <2>1 DEF Reports
  <2> QED
    BY <1>c, <2>1, <2>6, <2>7 DEF RestingAt
<1>3. CASE Deletes
  <2> SUFFICES ASSUME ~ (Due(o)') PROVE RestingAt(o)'
    BY DEF RestingAt
  <2>1. ~ cr[o].exists
    BY <1>3, <1>a, <1>b DEF Deletes, PassIsCurrent
  <2>2. tracked'[o] = "none" /\ reported'[o] = {}
    BY <1>3, <1>b, <2>1 DEF Deletes, SyncInv, RestingObjects, RestingAt
  <2>3. Looping /\ ToVisit = {} /\ work.deleting /\ UNCHANGED <<stored, secret>>
    BY <1>3, LoopFacts DEF Deletes
  <2>4. \A i \in Instances : Clean(i, o)'
    BY <1>a, <2>3 DEF DoneSoFar, Clean
  <2> QED
    BY <1>c, <2>1, <2>2, <2>4 DEF RestingAt
<1>4. Skips \/ GivesUp \/ Reports \/ Deletes
  BY <1>a, PhaseFacts DEF WorkerFacts, PassStep, Begins, Proceeds, ListsAvailable, ListsAll, Visits, Completes, Calls, Continues
<1>5. ~ Skips
  BY <1>a DEF Skips
<1> QED
  BY <1>1, <1>2, <1>3, <1>4, <1>5

\* Objects at rest stay in place, in the tracker and in the metrics, until another
\* pass is due for them.
LEMMA RestingObjectsNext ==
    ASSUME SyncInv, TypeOK', [Next]_vars
    PROVE  RestingObjects'
<1>a. TypeOK /\ PassPhases /\ CachesFollow
  BY DEF SyncInv
<1>b. /\ stored \in [Instances -> [Objects -> Values \cup {Absent}]]
      /\ secret \in [Instances -> [Objects -> Nat \cup {Absent}]]
      /\ work \in Work
  BY DEF SyncInv, TypeOK
<1> SUFFICES ASSUME NEW o \in Objects PROVE RestingAt(o)'
  BY DEF RestingObjects
<1>1. ASSUME NEW p \in Objects, ResourceChange(p)
      PROVE  RestingAt(o)'
  <2>1. CASE p = o
    BY <1>1, <2>1 DEF ResourceChange, RestingAt, Due
  <2>2. CASE p # o
    <3>1. /\ cr'[o] = cr[o] /\ (o \in lost => o \in lost')
          /\ UNCHANGED <<perses, pcache, work, stored, secret, tracked, reported, unnoticed>>
      BY <1>1, <2>2 DEF ResourceChange
    <3>2. Due(o) => Due(o)'
      BY <1>1 DEF ResourceChange, Due
    <3>3. Busy(o) <=> Busy(o)'
      BY <3>1 DEF Busy
    <3>4. \A j \in Instances : Seen(j)' => Seen(j)
      BY <3>1 DEF Seen
    <3> QED
      BY <3>1, <3>2, <3>3, <3>4, RestingFrame
  <2> QED
    BY <2>1, <2>2
<1>2. ASSUME NEW i \in Instances, PersesChange(i)
      PROVE  RestingAt(o)'
  <2>1. work'.pc = work.pc /\ work'.obj = work.obj
    BY <1>b, <1>2 DEF PersesChange, Wiped, Work
  <2>2. (Busy(o) <=> Busy(o)') /\ (Due(o) => Due(o)')
    BY <1>2, <2>1 DEF PersesChange, Busy, Due
  <2> QED
    BY <1>2, <2>2, RestingFrame DEF PersesChange
<1>3. ASSUME NEW p \in Objects, ObserveResource(p)
      PROVE  RestingAt(o)'
  <2>1. UNCHANGED <<cr, perses, pcache, work, stored, secret, tracked, reported, lost, unnoticed>>
    BY <1>3 DEF ObserveResource, clusterVars, backendVars, metricVars, historyVars
  <2>2. (Busy(o) <=> Busy(o)') /\ (Due(o) => Due(o)')
    BY <1>3, <2>1 DEF ObserveResource, Busy, Due
  <2>3. \A j \in Instances : Seen(j)' => Seen(j)
    BY <2>1 DEF Seen
  <2> QED
    BY <2>1, <2>2, <2>3, RestingFrame
<1>4. ASSUME NEW i \in Instances, ObservePerses(i)
      PROVE  RestingAt(o)'
  <2>1. UNCHANGED <<cr, work, stored, secret, tracked, reported, lost>>
    BY <1>4 DEF ObservePerses, clusterVars, backendVars, metricVars, historyVars
  <2>2. (Busy(o) <=> Busy(o)') /\ (Due(o) => Due(o)')
    BY <1>4, <2>1 DEF ObservePerses, Busy, Due
  <2> QED
    BY <1>a, <1>4, <2>1, <2>2, RestingFrame, NewsMakeDue
<1>5. CASE Restart
  <2>1. /\ queue' = {p \in Objects : cr[p].exists} /\ cr' = cr /\ UNCHANGED <<stored, secret>>
        /\ tracked'[o] = "none" /\ reported'[o] = {}
        /\ lost' = lost \cup {p \in pending \cup queue \cup {work.obj} : p \in Objects /\ ~ cr[p].exists}
    BY <1>5 DEF Restart, clusterVars, backendVars
  <2>2. cr'[o].exists => Due(o)'
    BY <2>1 DEF Due
  <2>3. ~ cr[o].exists /\ o \notin lost' => ~ Due(o) /\ ~ Busy(o) /\ o \notin lost
    BY <2>1 DEF Due, Busy
  <2>4. ~ cr[o].exists /\ o \notin lost' => \A i \in Instances : stored[i][o] = Absent /\ secret[i][o] = Absent
    BY <2>3 DEF SyncInv, RestingObjects, RestingAt, Clean
  <2> QED
    BY <2>1, <2>2, <2>4 DEF RestingAt, Clean
<1>6. CASE WorkerFacts
  <2>1. CASE Busy(o)
    BY <1>6, <2>1, RestingWhileBusy, RestingWhenDone
  <2>2. CASE ~ Busy(o) /\ Begins(o)
    <3>1. work'.pc # "idle" /\ work'.obj = o /\ cr'[o].exists = cr[o].exists
      BY <1>6, <2>2 DEF Begins, WorkerFacts, StatusStep
    <3>2. ~ cr[o].exists => tracked'[o] = "none" /\ reported'[o] = {}
      BY <2>2 DEF Begins
    <3> QED
      BY <3>1, <3>2 DEF RestingAt, Busy
  <2>3. CASE ~ Busy(o) /\ ~ Begins(o)
    <3>1. ~ (Busy(o)') /\ (Due(o) => Due(o)')
      <4>1. pending \subseteq pending'
        BY <1>6 DEF WorkerFacts, StatusStep
      <4>2. ASSUME NEW p \in Objects, Begins(p)
            PROVE  work'.obj # o /\ (o \in queue => o \in queue')
        BY <2>3, <4>2 DEF Begins
      <4>3. CASE work.pc = "idle" /\ \E p \in Objects : Begins(p)
        BY <4>1, <4>2, <4>3 DEF Busy, Due
      <4>4. CASE Skips
        BY <2>3, <4>1, <4>4 DEF Skips, Busy, Due
      <4>5. CASE work.pc # "idle"
        BY <1>a, <1>6, <2>3, <4>5, BusySteps DEF Busy, Due
      <4> QED
        BY <1>6, <4>3, <4>4, <4>5, PhaseFacts DEF WorkerFacts, PassStep, Begins, Proceeds, ListsAvailable, ListsAll, Visits,
           Completes, Calls, GivesUp, Reports, Deletes
    <3>2. cr'[o] = cr[o] /\ UNCHANGED <<perses, pcache, unnoticed, lost>>
      BY <1>6, <2>3 DEF WorkerFacts, StatusStep
    <3>3. \A i \in Instances : stored'[i][o] = stored[i][o] /\ secret'[i][o] = secret[i][o]
      BY <1>b, <1>6, <2>3 DEF WorkerFacts, BackendStep, Busy
    <3>4. \A j \in Instances : Seen(j)' => Seen(j)
      BY <3>2 DEF Seen
    <3>5. ~ (Due(o)') => tracked'[o] = tracked[o] /\ reported'[o] = reported[o]
      BY <1>6, <2>3, <3>1 DEF WorkerFacts, MetricStep, SyncInv, RestingObjects, RestingAt
    <3>6. CASE Due(o)'
      BY <3>6 DEF RestingAt
    <3> QED
      BY <2>3, <3>1, <3>2, <3>3, <3>4, <3>5, <3>6, RestingFrame
  <2> QED
    BY <2>1, <2>2, <2>3
<1>7. CASE Unaffected
  <2>1. (Busy(o) <=> Busy(o)') /\ (Due(o) => Due(o)')
    BY <1>7 DEF Unaffected, Busy, Due
  <2>2. \A j \in Instances : Seen(j)' => Seen(j)
    BY <1>7 DEF Unaffected, Seen
  <2> QED
    BY <1>7, <2>1, <2>2, RestingFrame DEF Unaffected
<1> QED
  BY <1>a, <1>1, <1>2, <1>3, <1>4, <1>5, <1>6, <1>7, StepCases

-----------------------------------------------------------------------------
(***************************************************************************)
(* The theorems.                                                           *)
(***************************************************************************)

\* The invariant holds when the operator starts.
LEMMA SyncInit == Init => SyncInv
<1> SUFFICES ASSUME Init PROVE SyncInv
  OBVIOUS
<1>1. TypeOK
  BY TypeInit
<1>2. /\ \A o \in Objects : ~ cr[o].exists /\ ~ cr[o].client
      /\ \A i \in Instances, o \in Objects : stored[i][o] = Absent /\ secret[i][o] = Absent
      /\ \A o \in Objects : tracked[o] = "none" /\ reported[o] = {}
      /\ \A i \in Instances : perses[i] \in Perses /\ (perses[i].available => perses[i].exists)
      /\ pcache = perses /\ work.pc = "idle" /\ ~ work.deleting /\ known = {}
  BY IdleFacts DEF Init
<1>3. PassPhases /\ SecretBeforeDatasource /\ PassIsCurrent /\ NoDashboardSecrets
  BY <1>2 DEF PassPhases, SecretBeforeDatasource, PassIsCurrent, NoDashboardSecrets
<1>4. ~ Looping
  BY <1>2, LoopFacts
<1>5. DoneSoFar /\ ListedAll
  BY <1>4 DEF DoneSoFar, ListedAll
<1>6. CachesFollow /\ StoppedIsEmpty /\ RestingObjects
  BY <1>2 DEF CachesFollow, StoppedIsEmpty, Clean, RestingObjects, RestingAt
<1> QED
  BY <1>1, <1>3, <1>5, <1>6 DEF SyncInv

\* In every reachable state, what the caches hold, what the pass under way has done
\* and which objects another pass is due for account for every copy, every secret
\* and every reported status.
THEOREM SyncInvariant == Spec => []SyncInv
<1>1. SyncInv /\ [Next]_vars => SyncInv'
  <2> SUFFICES ASSUME SyncInv, [Next]_vars PROVE SyncInv'
    OBVIOUS
  <2>1. TypeOK' /\ PassPhases'
    BY TypeNext DEF SyncInv
  <2> QED
    BY <2>1, NoDashboardSecretsNext, CachesFollowNext, StoppedIsEmptyNext, DoneSoFarNext,
       SecretBeforeDatasourceNext, PassIsCurrentNext, ListedAllNext, RestingObjectsNext
       DEF SyncInv
<1> QED
  BY SyncInit, <1>1, PTL DEF Spec

\* At rest, nothing is due or under way, and the cache is the API server.
LEMMA QuietFacts ==
    ASSUME SyncInv, Quiet, NEW o \in Objects
    PROVE  ~ Due(o) /\ ~ Busy(o) /\ RestingAt(o) /\ pcache = perses
  BY DEF SyncInv, Quiet, Due, Busy, RestingObjects

\* When the controllers come to rest, every object is in every available instance
\* its selector names, with its last contents.
THEOREM SyncedWhenSettled == Spec => []SettledMeansSynced
<1>1. SyncInv => SettledMeansSynced
  <2> SUFFICES ASSUME SyncInv, Quiet, NEW o \in Objects, cr[o].exists, NEW i \in Targets(o)
               PROVE  stored[i][o] = cr[o].value
    BY DEF SettledMeansSynced
  <2>1. i \in Reachable(cr[o].selector)
    BY QuietFacts DEF Targets, Reachable, Seen
  <2> QED
    BY <2>1, QuietFacts DEF RestingAt
<1> QED
  BY SyncInvariant, <1>1, PTL

\* When they come to rest, every object is reported Available and not Degraded, and
\* tracked and counted as synced.
THEOREM ReportedWhenSettled == Spec => []SettledMeansReported
<1>1. SyncInv => SettledMeansReported
  BY QuietFacts DEF SettledMeansReported, RestingAt
<1> QED
  BY SyncInvariant, <1>1, PTL

\* When they come to rest, a deleted object is gone from every backend together with
\* its secret, unless a restart came in between.
THEOREM DeletedWhenSettled == Spec => []SettledMeansDeleted
<1>1. SyncInv => SettledMeansDeleted
  BY QuietFacts DEF SettledMeansDeleted, RestingAt, Clean
<1> QED
  BY SyncInvariant, <1>1, PTL

\* When they come to rest, the tracker and the metrics have forgotten every deleted
\* object.
THEOREM ForgottenWhenSettled == Spec => []SettledMeansForgotten
<1>1. SyncInv => SettledMeansForgotten
  BY QuietFacts DEF SettledMeansForgotten, RestingAt
<1> QED
  BY SyncInvariant, <1>1, PTL

\* A pass that is about to report success has brought every instance it listed up
\* to the spec it started from.
THEOREM HeldWhenComplete == Spec => []CompleteMeansHeld
<1>1. SyncInv => CompleteMeansHeld
  <2> SUFFICES ASSUME SyncInv, work.pc = "complete", NEW i \in work.listed
               PROVE  stored[i][work.obj] = work.spec.value
    BY DEF CompleteMeansHeld
  <2>1. Looping /\ ToVisit = {} /\ ~ work.deleting
    BY LoopFacts DEF SyncInv, PassPhases
  <2> QED
    BY <2>1 DEF SyncInv, DoneSoFar
<1> QED
  BY SyncInvariant, <1>1, PTL

\* A datasource with a secret config is written only after its secret.
THEOREM SecretFirst == Spec => []SecretBeforeDatasource
<1>1. SyncInv => SecretBeforeDatasource
  BY DEF SyncInv
<1> QED
  BY SyncInvariant, <1>1, PTL

\* No secret is ever written for an object that the backend has not validated.
THEOREM SecretsAreValidated == Spec => NoSecretForInvalid
<1> DEFINE Written ==
      /\ secret' # secret
      /\ \E i \in Instances, o \in Objects : secret'[i][o] # secret[i][o] /\ secret'[i][o] # Absent
<1>1. SyncInv /\ [Next]_vars => [Written => work.spec.value \notin InvalidValues]_vars
  <2> SUFFICES ASSUME SyncInv, [Next]_vars, Written PROVE work.spec.value \notin InvalidValues
    OBVIOUS
  <2>a. TypeOK /\ PassPhases /\ CachesFollow
    BY DEF SyncInv
  <2>b. secret \in [Instances -> [Objects -> Nat \cup {Absent}]]
    BY DEF SyncInv, TypeOK
  <2>1. PICK i \in Instances, o \in Objects : secret'[i][o] # secret[i][o] /\ secret'[i][o] # Absent
    OBVIOUS
  <2>2. WorkerFacts
    BY <2>a, <2>1, StepCases DEF ResourceChange, ObserveResource, PersesChange, Wiped, ObservePerses, Restart,
       Unaffected, backendVars
  <2>3. work.pc = "writeSecret"
    BY <2>b, <2>1, <2>2 DEF WorkerFacts, BackendStep
  <2> QED
    BY <2>a, <2>3 DEF PassPhases
<1> QED
  BY SyncInvariant, <1>1, PTL DEF Spec, NoSecretForInvalid

-----------------------------------------------------------------------------
(***************************************************************************)
(* The controllers implement the mirror.                                   *)
(***************************************************************************)
wanted == [o \in Objects |-> IF cr[o].exists THEN cr[o].value ELSE Absent]

\* Between two passes there is no snapshot, during a pass there is one.
LEMMA SnapshotFacts ==
    ASSUME TypeOK
    PROVE  /\ work.pc = "idle" => Snapshot = Mirror!NoSnapshot
           /\ work.pc # "idle" => Snapshot # Mirror!NoSnapshot /\ Snapshot.obj = work.obj
           /\ work.pc # "idle" => Snapshot.value = IF work.deleting THEN Absent ELSE work.spec.value
<1>1. work.pc # "idle" => work.obj # Absent
  BY AbsentAssumption DEF TypeOK
<1> QED
  BY <1>1 DEF Snapshot, Mirror!NoSnapshot

\* Initial states map to initial states of the mirror.
LEMMA MirrorInit == Init => Mirror!Init
<1> SUFFICES ASSUME Init PROVE Mirror!Init
  OBVIOUS
<1>1. work.pc = "idle"
  BY IdleFacts DEF Init
<1>2. \A o \in Objects : ~ cr[o].exists
  BY DEF Init
<1> QED
  BY <1>1, <1>2 DEF Init, Mirror!Init, Mirror!NoSnapshot, Snapshot

\* Steps that leave the objects and the copies alone and the pass as it is.
LEMMA MirrorStutters ==
    ASSUME \A o \in Objects : cr'[o].exists = cr[o].exists /\ cr'[o].value = cr[o].value,
           Snapshot' = Snapshot, stored' = stored
    PROVE  UNCHANGED Mirror!vars
  BY DEF Mirror!vars

\* Every step maps to a step of the mirror, or changes nothing of it.
LEMMA MirrorNext ==
    ASSUME SyncInv, TypeOK', [Next]_vars
    PROVE  [Mirror!Next]_(Mirror!vars)
<1>a. TypeOK /\ PassPhases /\ CachesFollow
  BY DEF SyncInv
<1>b. /\ stored \in [Instances -> [Objects -> Values \cup {Absent}]]
      /\ stored' \in [Instances -> [Objects -> Values \cup {Absent}]]
      /\ cr \in [Objects -> Resource] /\ cr' \in [Objects -> Resource]
      /\ work \in Work /\ (work.pc # "idle" => work.obj \in Objects)
  BY DEF SyncInv, TypeOK
<1>1. ASSUME NEW o \in Objects, ResourceChange(o)
      PROVE  Mirror!Next
  <2>1. (IF cr'[o].exists THEN cr'[o].value ELSE Absent) \in Mirror!Contents
    BY <1>b DEF Mirror!Contents, Resource
  <2>2. PICK v \in Mirror!Contents : v = IF cr'[o].exists THEN cr'[o].value ELSE Absent
    BY <2>1
  <2>3. wanted' = [wanted EXCEPT ![o] = v]
    BY <1>1, <2>2 DEF ResourceChange, wanted
  <2>4. Snapshot' = Snapshot /\ stored' = stored
    BY <1>1 DEF ResourceChange, Snapshot
  <2>5. Mirror!Change(o, v)
    BY <2>3, <2>4 DEF Mirror!Change, wanted
  <2> QED
    BY <2>5 DEF Mirror!Next
<1>2. ASSUME NEW i \in Instances, PersesChange(i)
      PROVE  [Mirror!Next]_(Mirror!vars)
  <2>1. cr' = cr
    BY <1>2 DEF PersesChange
  <2>2. CASE UNCHANGED <<stored, secret, work>>
    BY <2>1, <2>2, MirrorStutters DEF Snapshot
  <2>3. CASE Wiped(i)
    <3>1. Snapshot' = Snapshot
      BY <1>b, <2>3 DEF Wiped, Work, Snapshot
    <3>2. stored' = [stored EXCEPT ![i] = [o \in Objects |-> Absent]]
      BY <1>b, <2>3 DEF Wiped
    <3>3. Mirror!Lose(i)
      BY <2>1, <3>1, <3>2 DEF Mirror!Lose
    <3> QED
      BY <3>3 DEF Mirror!Next
  <2> QED
    BY <1>2, <2>2, <2>3 DEF PersesChange
<1>3. CASE WatchStep \/ Unaffected
  <2>1. UNCHANGED <<cr, work, stored>>
    BY <1>3 DEF WatchStep, ObserveResource, ObservePerses, Unaffected, clusterVars, backendVars
  <2> QED
    BY <2>1, MirrorStutters DEF Snapshot
<1>4. ASSUME \A o \in Objects : cr'[o].exists = cr[o].exists /\ cr'[o].value = cr[o].value,
             stored' = stored, work' = IdleWork
      PROVE  Mirror!Next
  <2>1. Snapshot' = Mirror!NoSnapshot
    BY <1>4, IdleFacts DEF Snapshot, Mirror!NoSnapshot
  <2>2. Mirror!Drop
    BY <1>4, <2>1 DEF Mirror!Drop
  <2> QED
    BY <2>2 DEF Mirror!Next
<1>5. CASE Restart
  BY <1>4, <1>5 DEF Restart, clusterVars, backendVars
<1>6. CASE WorkerFacts
  <2>a. \A o \in Objects : cr'[o].exists = cr[o].exists /\ cr'[o].value = cr[o].value
    BY <1>6 DEF WorkerFacts, StatusStep
  <2>1. CASE \/ Proceeds \/ ListsAvailable \/ ListsAll \/ (\E i \in Instances : Visits(i)) \/ Completes
    <3>1. /\ work.pc # "idle" /\ work'.pc # "idle" /\ stored' = stored
          /\ work'.obj = work.obj /\ work'.spec = work.spec /\ (work'.deleting <=> work.deleting)
      BY <2>1 DEF Proceeds, ListsAvailable, ListsAll, Visits, Completes, SamePass
    <3> QED
      BY <2>a, <3>1, MirrorStutters DEF Snapshot
  <2>2. CASE Skips
    BY <2>a, <2>2, MirrorStutters DEF Skips, Snapshot
  <2>3. CASE GivesUp \/ Reports \/ Deletes
    <3>1. stored' = stored
      BY <2>3 DEF GivesUp, Reports, Deletes
    <3>2. CASE work' = IdleWork
      BY <1>4, <2>a, <3>1, <3>2
    <3>3. CASE work.pc # "idle" /\ work'.pc = "degrade" /\ SamePass
      BY <2>a, <3>1, <3>3, MirrorStutters DEF Snapshot, SamePass
    <3> QED
      BY <2>3, <3>2, <3>3 DEF GivesUp, Reports, Deletes
  <2>4. ASSUME NEW o \in Objects, Begins(o)
        PROVE  Mirror!Next
    <3>1. Snapshot = Mirror!NoSnapshot /\ stored' = stored
      BY <1>a, <2>4, SnapshotFacts DEF Begins
    <3>2. Snapshot' = [obj |-> o, value |-> wanted[o]]
      BY <2>4 DEF Begins, Snapshot, wanted
    <3>3. Mirror!Take(o)
      BY <2>a, <3>1, <3>2 DEF Mirror!Take, wanted
    <3> QED
      BY <3>3 DEF Mirror!Next
  <2>5. CASE Calls
    <3>1. /\ work.pc # "idle" /\ work'.pc # "idle" /\ SamePass
          /\ work.inst \in Instances
      BY <1>a, <2>5, PhaseFacts DEF Calls, Continues, TypeOK
    <3>2. Snapshot' = Snapshot
      BY <3>1 DEF Snapshot, SamePass
    <3>3. CASE stored' = stored
      BY <2>a, <3>2, <3>3, MirrorStutters
    <3>4. ASSUME stored' = [stored EXCEPT ![work.inst][work.obj] = Snapshot.value]
          PROVE  Mirror!Next
      <4>1. Snapshot # Mirror!NoSnapshot /\ Snapshot.obj = work.obj
        BY <1>a, <3>1, SnapshotFacts
      <4>2. Mirror!Apply(work.inst)
        BY <2>a, <3>2, <3>4, <4>1 DEF Mirror!Apply
      <4> QED
        BY <3>1, <4>2 DEF Mirror!Next
    <3>5. CASE work.pc = "write" /\ stored' = [stored EXCEPT ![work.inst][work.obj] = work.spec.value]
      BY <1>a, <3>1, <3>4, <3>5, SnapshotFacts DEF PassPhases
    <3>6. CASE work.pc = "delete" /\ stored' = [stored EXCEPT ![work.inst][work.obj] = Absent]
      BY <1>a, <3>1, <3>4, <3>6, SnapshotFacts DEF PassPhases
    <3> QED
      BY <1>6, <3>3, <3>5, <3>6 DEF WorkerFacts, BackendStep
  <2> QED
    BY <1>6, <2>1, <2>2, <2>3, <2>4, <2>5 DEF WorkerFacts, PassStep
<1> QED
  BY <1>a, <1>1, <1>2, <1>3, <1>5, <1>6, StepCases DEF WatchStep

\* The controllers implement the mirror: a pass writes what it read at its start,
\* to one object's copies, and a copy changes in no other way but by a lost backend.
THEOREM Refinement == Spec => ImplementsMirror
<1>1. SyncInv /\ TypeOK' /\ [Next]_vars => [Mirror!Next]_(Mirror!vars)
  BY MirrorNext
<1>2. SyncInv => TypeOK
  BY DEF SyncInv
<1> QED
  BY MirrorInit, SyncInvariant, <1>1, <1>2, PTL DEF Spec, ImplementsMirror, Mirror!Spec

============================================================================
