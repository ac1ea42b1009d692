# A TLA+ verification project for perses-operator

This directory models the Kubernetes operator in this repository: how its
custom resources are converted between API versions, what it deploys for a
Perses object, how it copies dashboards and datasources into the servers it
deployed, the client cache its controllers share, and the process they run in.
The modules are checked with TLC on small instances; the safety properties of all
of them are also proved with TLAPS for every size. `PROJECT.json` maps each
definition to the lines it models, and lists the runs, the mutants that show each property can
fail, the hazards, the findings and the theorems.

## The system

| Component | Code | State it keeps | Operations |
|---|---|---|---|
| Perses controller | `controllers/perses/` | none of its own; the Perses object's status, four children in the API server | one pass of ten sub-reconcilers |
| Dashboard, datasource and global datasource controllers | `controllers/dashboards/`, `controllers/datasources/`, `controllers/globaldatasources/` | status of the resource; copies of it (and a secret) in every Perses backend | reconcile in all instances, delete in all instances |
| REST client factory | `internal/perses/common/perses_client_factory.go` | map of clients, time of the last sweep, a read/write lock | `CreateClient`, `ForgetInstance`, sweep |
| Watch predicates, reasons | `internal/perses/common/constants.go` | none | which events enqueue which keys |
| Reconciliation tracker, metrics | `internal/metrics/` | last result and states per key | set, forget, collect |
| Cache options | `internal/cache/options.go` | none | what the informers hold (full objects, metadata, label filters) |
| Sub-reconciler results | `internal/subreconciler/` | none | continue, halt, requeue |
| Pod building helpers | `internal/perses/common/` (volumes, labels, args, probes, tags, image) and the `create...` functions of `controllers/perses/` | none | from a spec to a workload, a Service and a client URL |
| API types and conversion | `api/v1alpha1`, `api/v1alpha2` | the stored object | defaults, validation rules, conversion between versions |
| TLS flags, TLS profile watcher, entry point | `internal/tls`, `internal/openshift`, `main.go` | the settings the process started with | start, restart on a change |

How they interact. controller-runtime runs one worker goroutine per controller;
the four workers run concurrently and share the client factory, the tracker and
the metrics. A worker takes a key from its work queue, reads objects from an
informer cache (which lags behind the API server) or from the API server
itself, and makes one call after another to the API server and to Perses
backends. An error puts the key back into the queue; anything else does not.
Users, the garbage collector, the other controllers and restarts of the
operator change the cluster between any two of these calls. Clients of two API
versions write the same stored object; the webhook converts on the way in and
on the way out. The process itself ends when it cannot start, when the cluster's
TLS profile changes, or when it crashes, and forgets everything.

What is hard in it:

- passes run on old copies, and an edit, a deletion or an availability change
  during a pass must lead to another pass;
- the pass over the instances stops at the first error, with some backends
  written and others not;
- resources have no finalizer, so a deletion exists only as an event in memory;
- the Perses controller relies on the events of its own writes: two of its
  early returns ask for a delayed requeue that `Reconcile` drops;
- children of a deleted and re-created Perses look right but are about to be
  garbage collected, and owners are not compared; children without the
  managed-by label are invisible;
- the client cache does a double-checked insertion and sweeps lazily;
- five files read port, TLS and storage settings from the spec, each on its own,
  and the conversion turns absent values into pointers to zero values;
- the TLS profile is read before there is a watch on it;
- tracker and metrics are keyed by namespace/name, whatever the kind.

## Modules

| Module | Models |
|---|---|
| `PersesClientCache` | the factory: lookup under the read lock, build without a lock, second lookup and insertion under the write lock, sweep, `ForgetInstance`; any number of callers; the clock; edits, deletion and re-creation of instances |
| `PersesClientCacheProofs` | the theorems about it |
| `ResourceMirror` | abstract specification of a resource controller: backends mirror the objects through one snapshot at a time |
| `ResourceSync` | one of the three resource controllers, chosen by the constant `Kind`; implements `ResourceMirror` |
| `ResourceSyncProofs` | the theorems about it, the refinement among them |
| `PersesController` | the Perses controller for one Perses object |
| `PersesControllerProofs` | the theorems about it |
| `ApiConversion` | the fields of both API versions and the conversions, as operators |
| `PodTemplate` | what the operator makes of a Perses spec, as operators; extends `ApiConversion` |
| `PersesApi` | one object written by clients of both versions; extends `PodTemplate` |
| `PersesApiProofs` | the theorems about the three modules above |
| `OperatorProcess` | `main.go`, TLS settings, the profile watcher, and the tracker and metrics shared by four controllers |
| `OperatorProcessProofs` | the theorems about it |
| `MCPersesClientCache`, `MCResourceSync`, `MCPersesController`, `MCPersesApi`, `MCOperatorProcess` | small instances: bounds, values, symmetry |

Definitions named "Faulty variant" are not part of any specification. Each is a
plausible bug in the definition that follows it; substituting it must break the
property that `PROJECT.json` lists with it.

### PersesClientCache

`cache`, `lastSweep` and `holder` are the factory's map, time and write lock.
`pc`, `req`, `readAt` and `client` are the locals of the callers. `CreateClient`
is four steps, one per critical section: `Lookup`, `buildClient` (or
`buildClientFails`), `Store`, `sweepExpiredLocked`. Insertion and sweep hold the
same lock; they are two steps with `holder` set in between so that the release
of the lock is a step that can go wrong. A fingerprint is the instance, its
generation and the shape of its config; two specs may have the same shape,
since certificate references are not part of it. A re-created object starts at
generation 1 again, so two different specs can have equal fingerprints.
`readAt` is the instant at which `buildClient` read the credentials. Two
counters are bounded: the clock by `MaxTime`, edits, deletions and re-creations
together by `MaxChanges` (counted in `changes`).

### ResourceSync and ResourceMirror

`cr` are the custom resources, `perses`/`pcache` the Perses objects in the API
server and in the informer cache, `known` the metadata cache from which all
keys are enqueued when a Perses becomes available, `pending`/`queue` the
undelivered events and the work queue, `work` the worker's locals,
`project`/`stored`/`secret` the backends, `tracked`/`reported` tracker and
metrics. The three controllers are the same code except for the calls they make
in one instance, so these are given as flows (`syncPersesDatasource`,
`deleteDashboard`, ...: from each call to the next) and everything else is
shared. Every call is a step that succeeds, is refused, or fails, but for the
secret's: the lookup that decides between create and update is one step with the
write that follows it (`writeSecret`), since both leave the same secret. The resource
itself is read live: the cache holds only metadata. What a backend holds goes with its
Perses object (`DeletePerses`, `Wipe`); see Divergences for storage that stays.

`lost` (a deletion whose event a restart dropped), `unnoticed` (an instance that
was relabelled or lost its data, which is no event for the controller) and
`work.listed` (what the pass found when it listed the instances) are history
variables, used only by the properties.

A Perses object changes again only after its last change has reached the cache
(`ChangePerses`): the watch delivers every version, and the predicate compares
consecutive ones. A backend runs (`Running`) from the time the Perses controller
can have seen its object, in the informer cache that the resource controllers use
too, until the object is deleted.

`ResourceMirror` says what this promises of the backends: a copy changes only by
applying the snapshot of the pass under way, or by a backend losing everything.
The property `ImplementsMirror` is its `Spec` with the objects' contents for
`wanted`, the worker's copy for `snapshot` and the backends for `copy`. It rules
out a pass that mixes two versions of an object, a copy that goes back to older
contents, and a write to an object the pass is not about.

### PersesController

`live`/`cache` are the object in the API server and in the informer cache,
`kids`/`kcache` the children, `version` the resourceVersions of the
provisioning secrets. Optimistic locking needs no version numbers: a copy of
the cache is current exactly when no event is undelivered (`~ pdirty`), and the
copy in the worker's context is current while `current` is TRUE. A pass is
`Reconcile`, `handleDelete`, `setStatusToUnknown`, `removeFinalizer`,
`validateVolumes`, `readSecret`/`reconcileProvisioning`, `reconcileService`,
`reconcileConfigMap`, `reconcileDeployment`, `reconcileStatefulSet`,
`setStatusToComplete`; each may end the pass. `setStatusToUnknown` retries after a
conflict and keeps its `needsRequeue` from the first attempt, so it may halt having
written nothing (`NothingSet`). What ends up in a child is one
`content` value, the pod labels, the annotations and, for a workload, the
versions behind the provisioning hash. `createPersesService` writes into the
annotation map of the spec itself, which later steps of the same pass use
(`AfterService`). A child has a `managed` label, which someone may remove
(`UnlabelChild`): the informer cache holds only labelled children (`Cached`), so
the child is not found and its creation is refused as a conflict. A workload's
selector cannot be changed by an update (`Refused`): that is the API server's
rule.

### ApiConversion, PodTemplate, PersesApi

A pointer is a sequence of length 0 or 1, so that nil and a pointer to a zero
value are two things. `ApiConversion` has one operator per conversion function
and direction; fields that are only ever copied together are one field.
`PodTemplate` has the functions that read a Perses spec: volumes, mounts,
arguments, labels, probe and container port, claim, replicas, image and its tag
(without one the `create...` functions return nothing), Service, client URL. A
volume name is a pair of a prefix and a rest and a path the sequence of its
components, so that the rules on reserved names and paths can be stated.
`PersesApi` lets clients of both versions create an object and set one field at
a time, with the schema's defaults for v1alpha1 and the validation rules of
v1alpha2, and lets the operator write the status. What a client sends is of the
schema of its version (`SchemaAssumption`); the shapes of the v1alpha1 structs
(`IsClient`, `IsTLS` and their likes) say which fields there are and which are
pointers to another struct, and leave open what the other fields hold. Of the hub
only what is read in parts has a shape: lists, certificates, storage (`HubField`).

### OperatorProcess

`phase` is how far `main` has come: flags parsed, profile fetched, manager set
up, running, stopping, down. `settings` and `initial` are what it read;
`view`/`watcher` are the informer's copy of the profile and the watcher's
request. `CheckProfile` compares with `initial` and cancels the process. The
workers of the four kinds are reduced to what they report: a pass ends with
`ReportStatus` and `ReportResources` (two steps, with other workers in between),
or with `EndDeletion`, two steps as well. The `SetReasonAndMessage` that follows a
successful `SetStatus` is part of `ReportStatus`: it only adds words to the entry. A
pass whose first read of the object fails reports nothing and is tried again, which
is as if it had not begun; it is not an action. `operand` are the TLS arguments of the
pods of each Perses. The first pass over a Perses halts without an error before it
comes to the workload; `begun` are the objects that have had it (`PersesPassed`).
The command line must parse, the selector of `--watch-secret-labels` included
(`FlagsParse`). `created` is a history variable.

## Runs

Every action and every disjunct of every next-state relation is taken in some
passing run. Deadlock is not checked where the system may come to rest
(`CHECK_DEADLOCK FALSE`): when the environment's moves are used up and every
controller is idle, nothing happens any more, and that is what the
`SettledMeans...` properties are about.

| Run | Instance | Shows |
|---|---|---|
| `ClientCache` | 2 instances, 2 callers, 2 specs of one shape, TTL 1, clock to 2, 3 changes | the inductive invariant of the proofs; the right client is returned; live entries are not overwritten; a cached client is handed out only while the TTL of its entry runs, to whichever caller, and any other is the caller's own; an insertion leaves nothing two TTLs old |
| `DatasourceSync` | 2 objects, 2 instances, a valid and an invalid value; 2 edits with a fault, an availability change or a restart, or 1 edit with an availability change and a fault | the inductive invariant of the proofs (`SyncInv`); at rest: synced, reported, deleted, forgotten; success is reported only when held; secret before datasource, no secret for an invalid datasource; the controller implements the mirror |
| `DashboardSelectors` | 2 instances with labels, a malformed selector; 2 edits with 2 availability changes and a project made by someone else, with a relabelling, or with lost data | at rest: synced wherever selected, except where nothing told the controller |
| `GlobalDatasource` | 2 instances; 2 edits with a fault and a credential change, or with a restart and lost data; fair | a valid object reaches every available instance; a deletion comes to an end and, unless a restart dropped it, leaves nothing |
| `PersesRollout` | 5 specs (volume, emptyDir, bad mounts, SQL and file without a tag); 2 edits with a secret change or an unlabelled child | the inductive invariant of the proofs (`RolloutInv`); at rest: children, exactly one kind of workload, provisioning hash, annotations and conditions are those of the last spec; conditions are never set back |
| `PersesLifecycle` | legacy object; 2 edits with a fault, or 1 edit with a restart, a tampering or an unlabelling; fair | children edited by hand or left by a dead incarnation are repaired; deployment converges; a deletion with the legacy finalizer ends and leaves nothing |
| `PersesApi` | a Perses or a dashboard, 4 writes out of some 90 single-field edits in both versions, two operator command lines | the inductive invariant of the proofs (`ApiInv`); a v1alpha1 client reads back what it wrote; its rewrite changes nothing that runs; a pod is refused exactly for references that name one volume or a mount of a missing volume; server, container, probes, Service and client agree on the port |
| `OperatorProcess` | 4 command lines (one with a malformed label selector), 3 profiles (one unusable), 4 kinds, 1 name; 2 profile changes with 2 edits and a fault, or 4 edits with a fault; fair | the inductive invariant of the proofs (`ProcessInv`); the process and its pods never rest on an old profile and end up running when they can; at rest tracker and gauge hold no object that is gone and every object whose key is its own |
| `DashboardDeleteStuck` | violation | see Findings |
| `PersesRelabel` | violation | see Findings |
| `DatasourceClientLost` | violation | see Findings |
| `RenamedServiceUnreachable` | violation | see Findings |

**Bounds.** `Budgets` is a set of scenarios; each says how often the environment
may make each of its moves (edits, faults, restarts, ...), and a behaviour picks
one at the start. The controllers themselves are not bounded. The hazards need
few moves: an edit that races a pass is a creation and an edit; a deletion that
overtakes a pass is a creation and a deletion; a dead incarnation is a deletion
and a creation (the legacy object exists at the start); a partial failure is one
fault with two instances. Moves that do not act on the same state are put into
different scenarios instead of being multiplied. Two instances are enough to
have one done and one to do, one selected and one not; two objects, to have a
pass over one while the other changes. In `PersesApi` a behaviour that matters
is a creation, up to two edits that together make an unusual spec, and a
rewrite. In `OperatorProcess` two profile changes are one before and one after
the watch starts, or one away and one back; one name suffices because kinds of
one name share a key. In the cache, a clock of two TTLs lets an entry reach the
age the bound speaks of, and two callers are the smallest race. For the safety
properties of every module the proofs lift these bounds altogether.

**Fairness.** `ResourceSync`: weak fairness of the worker goroutine and of each
watch; `Reconcile(o)` is strongly fair, since the work queue is first-in
first-out and a waiting key is therefore taken however often others come back.
Nothing is assumed of the order in which a pass visits the instances.
`PersesController`: weak fairness of the worker and the watches; the API server
finishes deletions and the garbage collector runs. `OperatorProcess`: weak
fairness of `main` and the kubelet's restart (`MainStep`), of the profile watch
and the watcher, and of each worker; `BeginPass(o)` is strongly fair, again
because of the queue. Faults, edits, restarts, crashes and tampering are never
fair, and finitely many. `PersesClientCache` and `PersesApi` assume no fairness.

## Proofs

Each of the four concurrent modules, and `PersesApi`, has one inductive invariant.
TLC checks it in a run; TLAPS proves that it holds initially and is kept by every
step, and the other results follow from it. The number of moves of the environment is any
natural number in all of them (`BudgetsAssumption`).

### PersesClientCacheProofs

For any sets of instances, callers and specs, any shape function, any TTL at
least 1 and any bounds on clock and changes (`ShapeAssumption`, `TTLAssumption`,
`BoundsAssumption`, `NoneAssumption`):

- `TypeCorrect`: `Spec => []TypeOK`;
- `CacheInvariant`: `Spec => []CacheInv`, and from it
  `RequestedClientReturned` (`ClientMatchesRequest`) and `SweepKeepsUp`
  (`SweptRecently`);
- `InsertionAgeBound`, `DoubleCheckedStore` and `HandOutBound`: the action
  properties `InsertionBoundsAge`, `LiveEntryKept`, `HandedOutWithinTTL`.

Neither state property is inductive alone. That the returned client matches the
request needs `EntryMatchesClient` (an entry is filed under the fingerprint of
its own client), for the hit compares fingerprints and not clients. That sweeps
keep up needs `SweepNotAhead` and the types: an insertion at `now` is no older
than any sweep, and a sweep at `now` removes what is a TTL old. The bound at an
insertion needs `LockHeldWhileSweeping`: the step that releases the lock is a
sweep, which either is due, or finds the last one less than a TTL ago and adds
that to `SweptRecently`. `HandOutBound` is about every way out of
`CreateClient`: a hit in either lookup compares the age of the entry with the TTL, and
the caller that leaves after its insertion has the client it built itself, which is
what `SweeperReturnsOwn` says of the holder of the lock.

### ResourceSyncProofs

For each of the three kinds and any sets of objects, instances, labels, values
and selectors. The assumptions only say that the special values are special:
an invalid value is a value, a selector is a set of labels or the malformed one,
and `Absent` is none of the things that can be present (`ValuesAssumption`,
`SelectorsAssumption`, `AbsentAssumption`).

- `TypeCorrect` and `SyncInvariant` (`Spec => []SyncInv`);
- `SyncedWhenSettled`, `ReportedWhenSettled`, `DeletedWhenSettled`,
  `ForgottenWhenSettled`: the `SettledMeans...` properties;
- `HeldWhenComplete` (`CompleteMeansHeld`), `SecretFirst`
  (`SecretBeforeDatasource`) and the action property `SecretsAreValidated`
  (`NoSecretForInvalid`);
- `Refinement`: `Spec => ImplementsMirror`.

The settled properties speak of states in which nothing is under way, so they
say nothing of the step before. The invariant says it for all states, object by
object, in terms of whether a pass is *due* (an event is undelivered or the key
is queued). If none is due, the pass under way works with what the object is now
(`PassIsCurrent`), has listed every instance the operator can know of
(`ListedAll`), and every instance it has done holds its spec (`DoneSoFar`);
an object with neither a pass under way nor one due is in all of them, or in none
if it is gone (`RestingObjects`). `CachesFollow` is what makes a stale cache
harmless: what it misses has an event under way. `StoppedIsEmpty` is needed where
a deletion skips an instance it does not list, `PassPhases` and
`NoDashboardSecrets` where a flow leaves out a call. That the status says
Available at rest is part of `RestingObjects` and not of the pass: the last step
of a pass both reports and ends it.

The refinement has the initial state (`MirrorInit`) and one case per kind of
step. A pass begins with a snapshot of the object as it is: `Reconcile` reads it
live. Every write stores the value of the snapshot under the object of the
snapshot, and a deletion stores nothing, which is the snapshot's value then
(`PassPhases`). Everything else leaves the mirror alone.

### PersesControllerProofs

For any sets of specs, contents, labels, annotations, service names and secrets
(`SpecsAssumption`, `NoMapAssumption`: a nil map is no set of annotations;
`NamesAssumption`: a Service is not named like another child).

- `TypeCorrect` and `RolloutInvariant` (`Spec => []RolloutInv`);
- `DeployedWhenSettled`, `OneWorkloadWhenSettled`, `ProvisionedWhenSettled`,
  `AnnotatedWhenSettled`, `AvailableWhenSettled`, `GoneWhenSettled`: the
  `SettledMeans...` properties;
- the action property `ConditionsKept` (`ConditionsNeverReset`).

The argument is that whatever a pass has to write makes another pass due: a write
of the object or of a child is an event, and a failure is requeued. A due pass
stays due until `Reconcile` takes it (`StaysDue`), so only states with no pass due
need looking at, and there the step of the pass that led there has written
nothing and has found the cache equal to the API server (`QuietSteps`). `Behind(pc)`
says what each sub-reconciler before phase `pc` has therefore found: versions
recorded, Service, ConfigMap and workload as they should be, conditions set. One
lemma per sub-reconciler (`reconcileServiceFinds`, ...) extends it by what that
one looked at, and at rest everything is behind. `VersionsAreCurrent` is about
the secrets, which are read one by one: a change of one that the spec refers to
makes a pass due. Owners are not compared by the code and are not in the
invariant: they come from the garbage collector having nothing to do
(`Quiet`). `ConditionsKept` needs that an update of the status starts from a copy
of the cache and is refused unless that is current (`StatusFacts`).

### OperatorProcessProofs

For any command lines, profiles, versions, cipher suites, kinds and names
(`KindsAssumption`; `FlagSetsAssumption`, the type of a command line).

- `TypeCorrect` and `ProcessInvariant` (`Spec => []ProcessInv`);
- `FollowedWhenSettled`, `NoGhostsWhenSettled`, `CountedWhenSettled`.

`SettingsFollow` ties the settings to the profile `main` read and that to what the
watcher has seen, or has a request for. `OperandsFollow` and `Counted` say of each
object that it is right or a pass is due that makes it so; `NoGhosts` that
whatever is remembered belongs to an object that exists or is about to be
forgotten, which needs `WorkersOnObjects`: a worker that reports an object just
deleted has another request waiting. `Counted` is limited to keys one kind has
ever had (`OwnKey`), since the forgetting of one kind erases the status of another.

### PersesApiProofs

For any sets of specs, of edits and of operator settings, any number of writes,
any flat and volume-safe names. One assumption bounds what clients send:
`SchemaAssumption`, that a request has the fields, lists and optional structs of
its version's schema; the API server drops or refuses anything else.

- `ApiInvariant` (`Spec => []ApiInv`): every stored object has the hub's fields,
  its lists are lists, its claim is one, its port is not zero, its volumes and
  mounts keep the v1alpha2 rules, and after a v1alpha1 write it is the conversion
  of what was written, with no default left to fill in. The rules need an argument
  of their own, since a v1alpha1 write is not validated by them: the conversion
  drops volumes and mounts, the default replaces a port of zero, and what is left
  keeps them. The part of `TypeOK` about the fields follows from the rest
  (`StoredInv`, `StoredInvIsApiInv`), so the steps are proved for that;
- `TypeCorrect`; `ReadsBack`, from one round-trip lemma per struct, the two
  conversions written by hand (OAuth, storage) among them. It has the hypothesis
  that the kind is not `PersesDatasource`, whose client the conversion loses (the
  finding of `DatasourceClientLost`); `RestReadsBack` has no such hypothesis and
  says that the client is all that is lost;
- `RewriteSettles`: after a v1alpha1 write of a Perses or a dashboard, a client that
  sends back what it reads leaves the stored spec as it is. The defaults filled in
  once are not filled in again (`DefaultedV1`), and the round trip does the rest;
- `RewriteKeepsDeployment`: what runs for a Perses does not change when it is read
  and sent back through v1alpha1. With the stored spec `a` and the one stored
  afterwards, `b`, the proof goes through what the operator reads of them: labels,
  image, names and account (`NamesKept`), the TLS setting with its certificates
  (`TLSKept`), the port (`PortKept`, which needs that a stored port is not zero: a
  zero would read as no port and come back as the default), the claim
  (`ClaimKept`), volumes and mounts (`VolumesKept`). `b` differs from `a` in its
  pointers, nil in one and to a zero value in the other; each lemma says that its
  reader does not tell them apart. The arguments of `b` have the default listen
  address after the first where `a` had no port: the two lists stay one entry apart
  while the same ends are joined to both (`OneMore`, `OneMoreConcat`), and taking
  the entry out of the longer gives the shorter (`OneMoreRemoved`). The theorem is
  about specs v1alpha1 has fields for (`HasV1Form`). A claim that asks for zero
  bytes is not among them: it would come back as one that asks for nothing;
- `OnePort` (`PortsAgree`): of all the arguments `GetPersesArgs` joins, at most one is a
  listen address, and it is the port of the spec (`ListensOnPort`). The property
  is about specs whose own arguments leave that flag alone (`LeavesPort`). The code
  does not enforce this: a user who passes the flag moves the server away from
  the port everything else uses;
- `PodStarts`: the volumes are the operator's own, those of the secret references
  and the user's, told apart by reserved name, by prefix and by rule
  (`OwnVolumesPart`, `SecretParts`, `VolumesApart`); the mounts by path in the same
  way (`OwnMountsPart`, `UserPaths`, `MountsApart`). Lists without duplicates whose
  keys are disjoint join to one without duplicates (`ConcatApart`, `JoinParts`), and
  the other way round the parts of one without duplicates have none (`ApartParts`).
  `PodCanStart` is an equivalence without hypotheses on the spec: the schema lets two
  mistakes through, references with one volume name (`RefsApart`) and a mount of a
  volume the pod lacks (`MountsPresent`), and the pod is refused exactly for these.

### Only model-checked

Liveness (`Converges`, `DeletionSettles`, `DeletionFinishes`, `FollowsProfile`)
is out of the prover's reach. Every invariant, action property and refinement that
a passing run checks is stated by a theorem.

## Findings

- `DashboardDeleteStuck`. `deleteDashboard` (and `deleteDatasource`) first asks
  each instance for the project and treats NotFound as a failure. One instance
  that never had the project, because the dashboard does not select it or it
  never was available, makes the deletion fail and be retried for ever.
  Global datasources, which have no project, are not affected
  (`GlobalDatasource`).
- `PersesRelabel`. `spec.metadata.labels` go into the selector of the workload,
  which cannot be changed; after an edit of the labels every pass fails.
- `DatasourceClientLost`. The hand-written conversion of a datasource's spec to
  v1alpha1 copies only `config`. A v1alpha1 client reads its datasource back
  without `spec.client`; when it sends that back, the stored client is gone.
- `RenamedServiceUnreachable`. The client factory builds its URL from the name
  of the Perses object. With `spec.service.name` set, the Service has that name
  and no other, and dashboards and datasources cannot be synced.

### Divergences without a run

Met while modelling; each is in the model, but no run is spent on it.

Client cache:

- `perses_client_factory.go:158` says the TTL bounds the staleness of
  credentials; it bounds the time since insertion, and credentials were read
  before that, with no lock held (`buildClient`, `Store`).

Resource controllers:

- `constants.go:210` says the predicate also triggers when a Perses is deleted;
  `DeleteFunc` returns false (`ObservePerses`).
- A Perses object that gains a label a dashboard selects, or whose storage is
  replaced while it stays available, does not receive the dashboard: neither is
  an event that passes a predicate (`persesdashboard_controller.go:233`). The
  variable `unnoticed` excuses these pairs in `SettledMeansSynced`.
- An instance that is deleted and created again may come back with old copies: the
  StatefulSet sets no retention policy for its claims (`statefulset_controller.go:192`)
  and a SQL database is outside the cluster. Objects deleted in the meantime stay in
  it, since a deletion goes to the instances there are. In the model a deleted
  instance has lost its storage, so besides a deletion that a restart dropped (`lost`)
  this is a second exception to `SettledMeansDeleted`.
- A rotated credential of a datasource does not reach the backend's secret: an
  in-sync datasource returns before the secret is looked at, and the resource
  controllers watch no secrets (`docs/user-guide.md:487`; `getExisting`).

Perses controller:

- `perses_controller.go:232` announces a requeue after the first condition; the
  result is dropped and the event of the status write does the work (`EndOK`;
  `SettledMeansAvailable` shows that it suffices).
- `spec.service.annotations` leak into ConfigMap and pods when
  `spec.metadata.annotations` is set, because its map is written through an
  alias (`service_controller.go:147`, `perses_types.go:184`; `AfterService`).
  `SettledMeansAnnotated` is about the Service itself.
- A child that loses its managed-by label (`options.go:69`) is not seen any
  more: its creation conflicts on every pass, and a workload that is no longer
  needed is not deleted. The failing request stays in the queue, so the
  controller never rests with a needed child unlabelled
  (`SettledMeansDeployed`); the one that is not needed is excepted in
  `SettledMeansOneWorkload`.
- After a change of `spec.service.name` the Service of the old name stays until the
  Perses object is deleted (`service_controller.go:46`); `SettledMeansDeployed` looks
  at the current name.
- Selector and claim templates of a StatefulSet are immutable: an edit of them
  is refused on every pass while the status still says Available
  (`statefulset_controller.go:99`).

Conversion and pod building:

- A v1alpha1 source without name and namespace (type `file`) becomes a pair of
  pointers to empty strings, which the hub's own `MinLength=1` would refuse.
- A v1alpha1 edit drops what that version cannot say: `emptyDir` (the Deployment
  becomes a StatefulSet), access modes, `instanceSelector`, provisioning and
  its status, volumes. `V1RewriteKeepsDeployment` is about specs without these.
- A server certificate of type `file` gets a volume without a source; probes use
  HTTP although the server speaks TLS; TLS enabled without a user certificate
  makes the client use https for a server that does not.
- A claim with a storage class or access modes but no size is not admissible,
  and nothing fills the size in.
- The names of two secret references can become equal when they are made safe
  for volume names (`common_types.go:46`); the schema does not see it, and
  the pod is refused. `PodCanStart` says that it is, and that the mistake below is the
  only other one that gets past the schema.
- The schema lets in a mount of a volume that is not there; `validateVolumes`
  (`perses_controller.go:308`) stops the pass before a workload is made of it. It
  stops the mount of a volume of the operator's own too, which the pod would have.
- The rule on reserved mount paths does not reserve `/etc` itself.

Process, tracker and metrics:

- `docs/metrics.md:35` describes the states of a resource as exclusive; neither
  `SetSyncedResources` nor `SetFailedResources` removes the other's entry
  (`metrics.go:146`), so a resource that failed once is counted in both.
- The tracker's key has no kind: deleting a dashboard forgets the status of the
  datasource of the same name, and a success of one overwrites a failure of the
  other. `SettledMeansCounted` is limited to keys that one kind has.
- The readiness gauges are set before the manager starts, so before any pass.
- The TLS flags must parse even when the cluster profile overrides them, and a
  profile that does not parse leaves the process in a crash loop. A profile
  change between the fetch and the watch is noticed, because the watcher compares
  with the fetched profile.

## Not modelled

- What is only copied (probe settings, scheduling constraints, resources,
  configuration contents) is one value each; logging and wording.
- The transport of the REST client (TLS setup, OAuth, basic auth): library code
  behind `buildClient`.
- Rate limiting and backoff: a failed key is simply queued again. Leader
  election and a second replica.
- Generated deep copies, mocks, CRD manifests and release scripts: no behaviour
  of their own.
- Validation of the embedded dashboard and datasource plugins, which is done by
  the Perses server: a value is valid or not.

## Plan

1. Done: the client cache; the resource controllers and the mirror they implement;
   the Perses controller; conversion, pod building and the API; the process with
   tracker, metrics and the TLS profile. Done: the safety properties of all of
   these, and the refinement, as theorems.
2. Composition of the resource controllers with the client cache; a standby
   replica with leader election.
