------------------------- MODULE PersesClientCache -------------------------
(***************************************************************************)
(* The REST client cache the dashboard, datasource and global datasource   *)
(* controllers share: PersesClientFactoryWithConfig of                     *)
(* internal/perses/common/perses_client_factory.go.                        *)
(*                                                                         *)
(* A caller passes the Perses object of its own (possibly old) list; the   *)
(* cache is looked up under the read lock, a missing client is built with  *)
(* no lock held, and the result is stored under the write lock after a     *)
(* second lookup.  The Perses controller forgets the entry of an instance  *)
(* it finds deleted.  Several callers, the Perses controller, the user of  *)
(* the cluster and the clock interleave freely between those steps.        *)
(*                                                                         *)
(* Abstracted: a client is the object it was built from plus the instant   *)
(* its credentials were read; a fingerprint is the generation and the      *)
(* config shape (port, prefix, TLS and auth flags, OAuth references).      *)
(***************************************************************************)
EXTENDS Integers

CONSTANTS
    Instances,      \* Perses keys, "namespace/name"
    Callers,        \* the controllers that call CreateClient
    Specs,          \* contents of a Perses spec
    Shapes,         \* what configFingerprint prints of a spec
    Shape,          \* the shape of each spec
    TTL,            \* defaultClientCacheTTL, in ticks
    MaxTime,        \* bound: the clock stops here
    MaxChanges,     \* bound: edits, deletions and re-creations of Perses objects
    None            \* no entry, no client, no holder of the lock

ASSUME ShapeAssumption == Shape \in [Specs -> Shapes]
ASSUME TTLAssumption == TTL \in Nat \ {0}
ASSUME BoundsAssumption == MaxTime \in Nat /\ MaxChanges \in Nat

VARIABLES
    now,            \* time.Now(), monotonic
    perses,         \* the Perses objects of the API server; gen 0: absent
    gone,           \* deletions the Perses controller has not handled yet
    changes,        \* number of changes of Perses objects so far
    cache,          \* f.cache
    lastSweep,      \* f.lastSweep
    holder,         \* the caller inside the write-locked section, or None
    pc,             \* where each caller is
    req,            \* the Perses object each caller was given
    readAt,         \* when the caller's buildClient read the credentials
    client          \* the client CreateClient returned to the caller

vars == <<now, perses, gone, changes, cache, lastSweep, holder, pc, req, readAt, client>>
clusterVars == <<perses, gone, changes>>
callVars == <<pc, req, readAt, client>>

Object == [gen : Nat, spec : Specs]
Request == [inst : Instances, gen : Nat, spec : Specs]
Fingerprints == [inst : Instances, gen : Nat, shape : Shapes]
Client == [builtFrom : Request, readAt : Nat]
Entry == [client : Client, fingerprint : Fingerprints, createdAt : Nat]

ASSUME NoneAssumption == None \notin Callers /\ None \notin Client

\* NoEntry is a record so that every cache slot has the same fields.
NoEntry == [client |-> None, fingerprint |-> None, createdAt |-> 0]
IsEntry(e) == e.client # None

-----------------------------------------------------------------------------
(***************************************************************************)
(* The factory's functions.                                                *)
(***************************************************************************)

configFingerprint(p) ==
    [inst |-> p.inst, gen |-> p.gen, shape |-> Shape[p.spec]]

\* Faulty variant: a lookup that forgets to compare the age with the TTL.
cacheHitIgnoringAge(e, fingerprint) ==
    IsEntry(e) /\ e.fingerprint = fingerprint

\* Faulty variant: a lookup by key alone.
cacheHitIgnoringFingerprint(e, fingerprint) ==
    IsEntry(e) /\ now - e.createdAt < TTL

\* The entry may be returned for this fingerprint now.
cacheHit(e, fingerprint) ==
    /\ IsEntry(e)
    /\ e.fingerprint = fingerprint
    /\ now - e.createdAt < TTL

Expired(e) == now - e.createdAt >= TTL

\* Faulty variant: keeps the entries whose age is exactly the TTL or above.
SweptOffByTTL(c) ==
    [i \in Instances |-> IF IsEntry(c[i]) /\ now - c[i].createdAt > 2 * TTL
                            THEN NoEntry ELSE c[i]]

\* The map after the loop of sweepExpiredLocked.
Swept(c) ==
    [i \in Instances |-> IF IsEntry(c[i]) /\ Expired(c[i]) THEN NoEntry ELSE c[i]]

-----------------------------------------------------------------------------
Init ==
    /\ now = 0
    /\ perses \in [Instances -> [gen : {1}, spec : Specs]]
    /\ gone = {}
    /\ changes = 0
    /\ cache = [i \in Instances |-> NoEntry]
    \* The zero time: at least a TTL before the first insertion.
    /\ lastSweep = 0 - TTL
    /\ holder = None
    /\ pc = [c \in Callers |-> "idle"]
    /\ \E i \in Instances :
         req = [c \in Callers |-> [inst |-> i, gen |-> perses[i].gen, spec |-> perses[i].spec]]
    /\ readAt = [c \in Callers |-> 0]
    /\ client = [c \in Callers |-> None]

(***************************************************************************)
(* The cluster: a spec edit increments the generation, a re-created object *)
(* starts again at generation 1.                                           *)
(***************************************************************************)
Change == changes < MaxChanges /\ changes' = changes + 1

EditPerses(i, s) ==
    /\ Change
    /\ perses[i].gen > 0
    /\ perses[i].spec # s
    /\ perses' = [perses EXCEPT ![i] = [gen |-> perses[i].gen + 1, spec |-> s]]
    /\ UNCHANGED <<now, gone, cache, lastSweep, holder, callVars>>

DeletePerses(i) ==
    /\ Change
    /\ perses[i].gen > 0
    /\ perses' = [perses EXCEPT ![i] = [gen |-> 0, spec |-> perses[i].spec]]
    /\ gone' = gone \cup {i}
    /\ UNCHANGED <<now, cache, lastSweep, holder, callVars>>

RecreatePerses(i, s) ==
    /\ Change
    /\ perses[i].gen = 0
    /\ perses' = [perses EXCEPT ![i] = [gen |-> 1, spec |-> s]]
    /\ UNCHANGED <<now, gone, cache, lastSweep, holder, callVars>>

Tick ==
    /\ now < MaxTime
    /\ now' = now + 1
    /\ UNCHANGED <<clusterVars, cache, lastSweep, holder, callVars>>

(***************************************************************************)
(* The Perses controller handles a deletion: ForgetInstance under the      *)
(* write lock when its Get says NotFound; nothing when the object is       *)
(* there again, the delete and the create having become one request.       *)
(***************************************************************************)
ForgetInstance(i) ==
    /\ i \in gone
    /\ holder = None
    /\ gone' = gone \ {i}
    /\ cache' = [cache EXCEPT ![i] = NoEntry]
    /\ UNCHANGED <<now, perses, changes, lastSweep, holder, callVars>>

FindRecreated(i) ==
    /\ i \in gone
    /\ perses[i].gen > 0
    /\ gone' = gone \ {i}
    /\ UNCHANGED <<now, perses, changes, cache, lastSweep, holder, callVars>>

(***************************************************************************)
(* CreateClient, one step per critical section.                            *)
(***************************************************************************)

\* A controller lists the Perses objects and reaches instance i.
Call(c, i) ==
    /\ pc[c] = "idle"
    /\ perses[i].gen > 0
    /\ pc' = [pc EXCEPT ![c] = "lookup"]
    /\ req' = [req EXCEPT ![c] = [inst |-> i, gen |-> perses[i].gen, spec |-> perses[i].spec]]
    /\ UNCHANGED <<now, clusterVars, cache, lastSweep, holder, readAt, client>>

\* Under the read lock: a hit returns, a miss goes on to build.
Lookup(c) ==
    LET e == cache[req[c].inst] IN
    /\ pc[c] = "lookup"
    /\ holder = None
    /\ IF cacheHit(e, configFingerprint(req[c]))
          THEN /\ client' = [client EXCEPT ![c] = e.client]
               /\ pc' = [pc EXCEPT ![c] = "use"]
          ELSE /\ pc' = [pc EXCEPT ![c] = "build"]
               /\ UNCHANGED client
    /\ UNCHANGED <<now, clusterVars, cache, lastSweep, holder, req, readAt>>

\* buildClient reads token, certificates and OAuth data, with no lock held.
buildClient(c) ==
    /\ pc[c] = "build"
    /\ pc' = [pc EXCEPT ![c] = "store"]
    /\ readAt' = [readAt EXCEPT ![c] = now]
    /\ UNCHANGED <<now, clusterVars, cache, lastSweep, holder, req, client>>

\* buildClient fails: CreateClient returns the error.
buildClientFails(c) ==
    /\ pc[c] = "build"
    /\ pc' = [pc EXCEPT ![c] = "idle"]
    /\ UNCHANGED <<now, clusterVars, cache, lastSweep, holder, req, readAt, client>>

\* Faulty variant: stores what was built without looking again.
StoreBlindly(c) ==
    LET i == req[c].inst
        built == [builtFrom |-> req[c], readAt |-> readAt[c]] IN
    /\ pc[c] = "store"
    /\ holder = None
    /\ cache' = [cache EXCEPT ![i] = [client |-> built,
                                      fingerprint |-> configFingerprint(req[c]),
                                      createdAt |-> now]]
    /\ client' = [client EXCEPT ![c] = built]
    /\ pc' = [pc EXCEPT ![c] = "sweep"]
    /\ holder' = c
    /\ UNCHANGED <<now, clusterVars, lastSweep, req, readAt>>

\* Under the write lock: look again; a client another caller stored meanwhile
\* wins, otherwise the new one replaces what is there and the sweep follows.
Store(c) ==
    LET i == req[c].inst
        fp == configFingerprint(req[c])
        built == [builtFrom |-> req[c], readAt |-> readAt[c]] IN
    /\ pc[c] = "store"
    /\ holder = None
    /\ IF cacheHit(cache[i], fp)
          THEN /\ client' = [client EXCEPT ![c] = cache[i].client]
               /\ pc' = [pc EXCEPT ![c] = "use"]
               /\ UNCHANGED <<cache, holder>>
          ELSE /\ cache' = [cache EXCEPT ![i] = [client |-> built,
                                                 fingerprint |-> fp,
                                                 createdAt |-> now]]
               /\ client' = [client EXCEPT ![c] = built]
               /\ pc' = [pc EXCEPT ![c] = "sweep"]
               /\ holder' = c
    /\ UNCHANGED <<now, clusterVars, lastSweep, req, readAt>>

\* Faulty variant: the write lock is not released on the early return.
sweepExpiredLockedNoUnlock(c) ==
    /\ pc[c] = "sweep"
    /\ holder = c
    /\ IF now - lastSweep < TTL
          THEN UNCHANGED <<cache, lastSweep, holder>>
          ELSE /\ cache' = Swept(cache)
               /\ lastSweep' = now
               /\ holder' = None
    /\ pc' = [pc EXCEPT ![c] = "use"]
    /\ UNCHANGED <<now, clusterVars, req, readAt, client>>

\* Still under the write lock: at most once per TTL, drop what has expired;
\* then unlock and return.
sweepExpiredLocked(c) ==
    /\ pc[c] = "sweep"
    /\ holder = c
    /\ IF now - lastSweep < TTL
          THEN UNCHANGED <<cache, lastSweep>>
          ELSE /\ cache' = Swept(cache)
               /\ lastSweep' = now
    /\ holder' = None
    /\ pc' = [pc EXCEPT ![c] = "use"]
    /\ UNCHANGED <<now, clusterVars, req, readAt, client>>

\* The caller is done with the instance.
Return(c) ==
    /\ pc[c] = "use"
    /\ pc' = [pc EXCEPT ![c] = "idle"]
    /\ client' = [client EXCEPT ![c] = None]
    /\ readAt' = [readAt EXCEPT ![c] = 0]
    /\ UNCHANGED <<now, clusterVars, cache, lastSweep, holder, req>>

CallerStep(c) ==
    \/ Lookup(c)
    \/ buildClient(c)
    \/ buildClientFails(c)
    \/ Store(c)
    \/ sweepExpiredLocked(c)
    \/ Return(c)

Next ==
    \/ Tick
    \/ \E i \in Instances :
        \/ \E s \in Specs : EditPerses(i, s) \/ RecreatePerses(i, s)
        \/ DeletePerses(i)
        \/ ForgetInstance(i)
        \/ FindRecreated(i)
    \/ \E c \in Callers :
        \/ \E i \in Instances : Call(c, i)
        \/ CallerStep(c)

Spec == Init /\ [][Next]_vars

-----------------------------------------------------------------------------
(***************************************************************************)
(* Properties.                                                             *)
(***************************************************************************)

\* Type invariant of the factory's fields and of the callers' locals.
TypeOK ==
    /\ now \in Nat
    /\ perses \in [Instances -> Object]
    /\ gone \subseteq Instances
    /\ changes \in Nat
    /\ cache \in [Instances -> Entry \cup {NoEntry}]
    /\ lastSweep \in Int
    /\ holder \in Callers \cup {None}
    /\ pc \in [Callers -> {"idle", "lookup", "build", "store", "sweep", "use"}]
    /\ req \in [Callers -> Request]
    /\ readAt \in [Callers -> Nat]
    /\ client \in [Callers -> Client \cup {None}]

\* Whatever other callers stored, replaced or swept between a caller's two
\* lookups, the client CreateClient returns carries the fingerprint of the
\* Perses object the caller passed: never one built for another instance,
\* another generation or another config shape.
ClientMatchesRequest ==
    \A c \in Callers : pc[c] \in {"sweep", "use"} =>
        /\ client[c] # None
        /\ configFingerprint(client[c].builtFrom) = configFingerprint(req[c])

\* sweepExpiredLocked runs at most once per TTL, so entries outlive their TTL;
\* yet no entry is ever a whole TTL older than the last sweep...
SweptRecently ==
    \A i \in Instances :
        IsEntry(cache[i]) => lastSweep - cache[i].createdAt < TTL

InsertionStep ==
    (holder # None /\ holder' = None) =>
        \A i \in Instances :
            IsEntry(cache'[i]) => now - cache'[i].createdAt < 2 * TTL

\* ...and therefore every insertion leaves a map without an entry of two TTLs
\* of age: what ForgetInstance missed (a client stored for an instance that
\* was deleted while it was being built) is closed by then.
InsertionBoundsAge == [][InsertionStep]_vars

LiveEntryStep ==
    \A i \in Instances :
        (/\ IsEntry(cache[i]) /\ IsEntry(cache'[i])
         /\ cache'[i] # cache[i]
         /\ now - cache[i].createdAt < TTL)
            => cache'[i].fingerprint # cache[i].fingerprint

\* The double-checked store: a live entry is only ever replaced by a client
\* of another fingerprint (or dropped); two callers that miss at the same time
\* never overwrite each other's client.
LiveEntryKept == [][LiveEntryStep]_vars

HandOutStep ==
    \A c \in Callers : (pc[c] # "use" /\ pc'[c] = "use") =>
        LET e == cache[req[c].inst] IN
        \/ /\ holder # c
           /\ e.client = client'[c]
           /\ now - e.createdAt < TTL
        \/ /\ holder = c
           /\ client'[c] = [builtFrom |-> req[c], readAt |-> readAt[c]]

\* Whatever CreateClient returns, on either lookup or after an insertion, is
\* the cached client of the instance asked for while the TTL of its entry
\* runs, or the client this very call has built and stored, from the object it
\* was given and with the credentials it read itself: an expired entry is
\* never handed out, not to a caller with an unchanged spec either.
HandedOutWithinTTL == [][HandOutStep]_vars

-----------------------------------------------------------------------------
\* The parts of the inductive invariant that are not properties themselves.
LockHeldWhileSweeping ==
    \A c \in Callers : pc[c] = "sweep" <=> holder = c

EntryMatchesClient ==
    \A i \in Instances : IsEntry(cache[i]) =>
        cache[i].fingerprint = configFingerprint(cache[i].client.builtFrom)

SweepNotAhead == lastSweep <= now

\* The caller that sweeps returns the client it has built itself.
SweeperReturnsOwn ==
    \A c \in Callers : pc[c] = "sweep" =>
        client[c] = [builtFrom |-> req[c], readAt |-> readAt[c]]

\* The inductive invariant: the lock excludes, every entry is filed under the
\* fingerprint of its own client, no sweep lies in the future, and with them
\* the two state properties above.
CacheInv ==
    /\ TypeOK
    /\ LockHeldWhileSweeping
    /\ EntryMatchesClient
    /\ SweepNotAhead
    /\ SweeperReturnsOwn
    /\ ClientMatchesRequest
    /\ SweptRecently
=============================================================================
