---------------------- MODULE PersesClientCacheProofs ----------------------
(***************************************************************************)
(* Proofs about the client cache, for any number of instances and callers, *)
(* any TTL and any bound on the clock and on generations.                  *)
(***************************************************************************)
EXTENDS PersesClientCache, TLAPS

\* What the provers need to know about a cache slot.
LEMMA EntryFacts ==
    ASSUME NEW e \in Entry \cup {NoEntry}
    PROVE  /\ IsEntry(e) <=> e \in Entry
           /\ e.createdAt \in Nat
           /\ IsEntry(e) => /\ e.client \in Client
                            /\ e.fingerprint \in Fingerprints
  BY NoneAssumption DEF IsEntry, Entry, NoEntry

\* The fingerprint of a request is a fingerprint.
LEMMA FingerprintType ==
    ASSUME NEW p \in Request
    PROVE  configFingerprint(p) \in Fingerprints
  BY ShapeAssumption DEF configFingerprint, Request, Fingerprints

\* Type correctness of the factory and of every CreateClient call.
THEOREM TypeCorrect == Spec => []TypeOK
<1>1. Init => TypeOK
  BY TTLAssumption DEF Init, TypeOK, Object, Request, NoEntry
<1>2. TypeOK /\ [Next]_vars => TypeOK'
  <2> SUFFICES ASSUME TypeOK, [Next]_vars PROVE TypeOK'
    OBVIOUS
  <2> USE DEF TypeOK
  <2>1. CASE Tick
    BY <2>1 DEF Tick, clusterVars, callVars
  <2>2. ASSUME NEW i \in Instances, NEW s \in Specs, EditPerses(i, s)
        PROVE  TypeOK'
    BY <2>2 DEF EditPerses, Change, callVars, Object
  <2>3. ASSUME NEW i \in Instances, NEW s \in Specs, RecreatePerses(i, s)
        PROVE  TypeOK'
    BY <2>3 DEF RecreatePerses, Change, callVars, Object
  <2>4. ASSUME NEW i \in Instances, DeletePerses(i)
        PROVE  TypeOK'
    BY <2>4 DEF DeletePerses, Change, callVars, Object
  <2>5. ASSUME NEW i \in Instances, ForgetInstance(i)
        PROVE  TypeOK'
    BY <2>5 DEF ForgetInstance, callVars
  <2>6. ASSUME NEW i \in Instances, FindRecreated(i)
        PROVE  TypeOK'
    BY <2>6 DEF FindRecreated, callVars
  <2>7. ASSUME NEW c \in Callers, NEW i \in Instances, Call(c, i)
        PROVE  TypeOK'
    BY <2>7 DEF Call, clusterVars, Object, Request
  <2>8. ASSUME NEW c \in Callers, Lookup(c)
        PROVE  TypeOK'
    <3>1. /\ req[c].inst \in Instances
          /\ cache[req[c].inst] \in Entry \cup {NoEntry}
      BY DEF Request
    <3>2. CASE cacheHit(cache[req[c].inst], configFingerprint(req[c]))
      <4>1. cache[req[c].inst].client \in Client
        BY <3>1, <3>2, EntryFacts DEF cacheHit
      <4> QED
        BY <2>8, <3>2, <4>1 DEF Lookup, clusterVars
    <3>3. CASE ~ cacheHit(cache[req[c].inst], configFingerprint(req[c]))
      BY <2>8, <3>3 DEF Lookup, clusterVars
    <3> QED
      BY <3>2, <3>3
  <2>9. ASSUME NEW c \in Callers, buildClient(c)
        PROVE  TypeOK'
    BY <2>9 DEF buildClient, clusterVars
  <2>10. ASSUME NEW c \in Callers, buildClientFails(c)
         PROVE  TypeOK'
    BY <2>10 DEF buildClientFails, clusterVars
  <2>11. ASSUME NEW c \in Callers, Store(c)
         PROVE  TypeOK'
    <3> DEFINE i == req[c].inst
               fp == configFingerprint(req[c])
               built == [builtFrom |-> req[c], readAt |-> readAt[c]]
    <3>1. /\ i \in Instances
          /\ cache[i] \in Entry \cup {NoEntry}
          /\ fp \in Fingerprints
          /\ built \in Client
      BY FingerprintType DEF Request, Client
    <3>2. [client |-> built, fingerprint |-> fp, createdAt |-> now] \in Entry
      BY <3>1 DEF Entry
    <3>3. CASE cacheHit(cache[i], fp)
      <4>1. cache[i].client \in Client
        BY <3>1, <3>3, EntryFacts DEF cacheHit
      <4> QED
        BY <2>11, <3>3, <4>1 DEF Store, clusterVars
    <3>4. CASE ~ cacheHit(cache[i], fp)
      <4> HIDE DEF i, fp, built
      <4> QED
        BY <2>11, <3>1, <3>2, <3>4 DEF Store, clusterVars, i, fp, built
    <3> QED
      BY <3>3, <3>4
  <2>12. ASSUME NEW c \in Callers, sweepExpiredLocked(c)
         PROVE  TypeOK'
    <3>1. Swept(cache) \in [Instances -> Entry \cup {NoEntry}]
      BY DEF Swept
    <3> QED
      BY <2>12, <3>1 DEF sweepExpiredLocked, clusterVars
  <2>13. ASSUME NEW c \in Callers, Return(c)
         PROVE  TypeOK'
    BY <2>13 DEF Return, clusterVars
  <2>14. CASE UNCHANGED vars
    BY <2>14 DEF vars
  <2> QED
    BY <2>1, <2>2, <2>3, <2>4, <2>5, <2>6, <2>7, <2>8, <2>9, <2>10, <2>11,
       <2>12, <2>13, <2>14 DEF Next, CallerStep
<1> QED
  BY <1>1, <1>2, PTL DEF Spec

-----------------------------------------------------------------------------
(***************************************************************************)
(* The inductive invariant.  The lock part is what lets the store and the  *)
(* sweep count as one critical section; EntryMatchesClient is what makes a *)
(* hit return the right client; SweepNotAhead and SweptRecently together   *)
(* bound the age of what a sweep left behind.                              *)
(***************************************************************************)

\* An empty cache has it.
LEMMA CacheInvInit == Init => CacheInv
<1> SUFFICES ASSUME Init PROVE CacheInv
  OBVIOUS
<1>1. TypeOK
  BY TTLAssumption DEF Init, TypeOK, Object, Request, NoEntry
<1>2. \A i \in Instances : ~ IsEntry(cache[i])
  BY DEF Init, IsEntry, NoEntry
<1>3. LockHeldWhileSweeping /\ SweepNotAhead /\ ClientMatchesRequest /\ SweeperReturnsOwn
  BY NoneAssumption, TTLAssumption
     DEF Init, LockHeldWhileSweeping, SweepNotAhead, ClientMatchesRequest, SweeperReturnsOwn
<1> QED
  BY <1>1, <1>2, <1>3 DEF CacheInv, EntryMatchesClient, SweptRecently

\* Every step keeps it.
LEMMA CacheInvNext == CacheInv /\ TypeOK' /\ [Next]_vars => CacheInv'
<1> SUFFICES ASSUME CacheInv, TypeOK', [Next]_vars PROVE CacheInv'
  OBVIOUS
<1> DEFINE Goal == /\ LockHeldWhileSweeping' /\ EntryMatchesClient'
                   /\ SweepNotAhead' /\ ClientMatchesRequest' /\ SweptRecently'
                   /\ SweeperReturnsOwn'
<1> USE DEF CacheInv
<1>1. CASE Tick
  BY <1>1 DEF Tick, clusterVars, callVars, TypeOK, LockHeldWhileSweeping,
     EntryMatchesClient, SweepNotAhead, ClientMatchesRequest, SweptRecently, SweeperReturnsOwn
<1>2. ASSUME NEW i \in Instances,
             \/ \E s \in Specs : EditPerses(i, s) \/ RecreatePerses(i, s)
             \/ DeletePerses(i)
             \/ FindRecreated(i)
      PROVE  Goal
  <2>1. UNCHANGED <<now, cache, lastSweep, holder, callVars>>
    BY <1>2 DEF EditPerses, RecreatePerses, DeletePerses, FindRecreated
  <2> QED
    BY <2>1 DEF callVars, LockHeldWhileSweeping, EntryMatchesClient,
       SweepNotAhead, ClientMatchesRequest, SweptRecently, SweeperReturnsOwn
<1>3. ASSUME NEW i \in Instances, ForgetInstance(i)
      PROVE  Goal
  <2>1. \A j \in Instances : IsEntry(cache'[j]) => cache'[j] = cache[j]
    BY <1>3 DEF ForgetInstance, TypeOK, IsEntry, NoEntry
  <2> QED
    BY <1>3, <2>1 DEF ForgetInstance, callVars, LockHeldWhileSweeping,
       EntryMatchesClient, SweepNotAhead, ClientMatchesRequest, SweptRecently, SweeperReturnsOwn
<1>4. ASSUME NEW c \in Callers,
             \/ \E i \in Instances : Call(c, i)
             \/ buildClient(c)
             \/ buildClientFails(c)
             \/ Return(c)
      PROVE  Goal
  <2>1. /\ UNCHANGED <<now, cache, lastSweep, holder>>
        /\ pc[c] # "sweep" /\ pc'[c] \notin {"sweep", "use"}
        /\ \A d \in Callers \ {c} : /\ pc'[d] = pc[d] /\ req'[d] = req[d]
                                    /\ client'[d] = client[d] /\ readAt'[d] = readAt[d]
    BY <1>4 DEF Call, buildClient, buildClientFails, Return, TypeOK
  <2>2. LockHeldWhileSweeping'
    BY <2>1 DEF LockHeldWhileSweeping
  <2>3. ClientMatchesRequest' /\ SweeperReturnsOwn'
    BY <2>1 DEF ClientMatchesRequest, configFingerprint, SweeperReturnsOwn
  <2> QED
    BY <2>1, <2>2, <2>3 DEF EntryMatchesClient, SweepNotAhead, SweptRecently
<1>5. ASSUME NEW c \in Callers, Lookup(c)
      PROVE  Goal
  <2> DEFINE e == cache[req[c].inst]
  <2>1. /\ UNCHANGED <<now, cache, lastSweep, holder, req, readAt>>
        /\ pc[c] # "sweep" /\ pc'[c] # "sweep"
        /\ \A d \in Callers \ {c} : pc'[d] = pc[d] /\ client'[d] = client[d]
    BY <1>5 DEF Lookup, TypeOK
  <2>2. LockHeldWhileSweeping'
    BY <2>1 DEF LockHeldWhileSweeping
  <2>3. pc'[c] = "use" => /\ client'[c] = e.client
                          /\ cacheHit(e, configFingerprint(req[c]))
    BY <1>5 DEF Lookup, TypeOK
  <2>4. e \in Entry \cup {NoEntry} /\ req[c].inst \in Instances
    BY DEF TypeOK, Request
  <2>5. pc'[c] = "use" =>
           /\ client'[c] # None
           /\ configFingerprint(client'[c].builtFrom) = configFingerprint(req[c])
    BY <2>3, <2>4 DEF cacheHit, IsEntry, EntryMatchesClient
  <2>6. ClientMatchesRequest' /\ SweeperReturnsOwn'
    BY <2>1, <2>5 DEF ClientMatchesRequest, configFingerprint, SweeperReturnsOwn
  <2> QED
    BY <2>1, <2>2, <2>6 DEF EntryMatchesClient, SweepNotAhead, SweptRecently
<1>6. ASSUME NEW c \in Callers, Store(c)
      PROVE  Goal
  <2> DEFINE i == req[c].inst
             fp == configFingerprint(req[c])
             built == [builtFrom |-> req[c], readAt |-> readAt[c]]
             new == [client |-> built, fingerprint |-> fp, createdAt |-> now]
  <2>1. /\ UNCHANGED <<now, lastSweep, req, readAt>>
        /\ pc[c] # "sweep" /\ holder = None
        /\ \A d \in Callers \ {c} : pc'[d] = pc[d] /\ client'[d] = client[d]
        /\ i \in Instances /\ cache[i] \in Entry \cup {NoEntry}
    BY <1>6 DEF Store, TypeOK, Request
  <2>2. CASE cacheHit(cache[i], fp)
    <3>1. /\ UNCHANGED <<cache, holder>>
          /\ pc'[c] = "use" /\ client'[c] = cache[i].client
      BY <1>6, <2>2 DEF Store, TypeOK
    <3>2. /\ client'[c] # None
          /\ configFingerprint(client'[c].builtFrom) = fp
      BY <2>1, <2>2, <3>1, SMTT(30) DEF cacheHit, IsEntry, EntryMatchesClient
    <3>3. ClientMatchesRequest' /\ SweeperReturnsOwn'
      BY <2>1, <3>1, <3>2 DEF ClientMatchesRequest, configFingerprint, SweeperReturnsOwn
    <3>4. LockHeldWhileSweeping'
      BY <2>1, <3>1 DEF LockHeldWhileSweeping
    <3> QED
      BY <2>1, <3>1, <3>3, <3>4 DEF EntryMatchesClient, SweepNotAhead, SweptRecently
  <2>3. CASE ~ cacheHit(cache[i], fp)
    <3>1. /\ cache' = [cache EXCEPT ![i] = new]
          /\ holder' = c /\ pc'[c] = "sweep" /\ client'[c] = built
      BY <1>6, <2>3 DEF Store, TypeOK
    <3>2. /\ cache'[i] = new
          /\ \A j \in Instances \ {i} : cache'[j] = cache[j]
      BY <2>1, <3>1 DEF TypeOK
    <3>3. LockHeldWhileSweeping'
      BY <2>1, <3>1, NoneAssumption DEF LockHeldWhileSweeping
    <3>4. built # None /\ built.builtFrom = req[c]
      <4>1. built \in Client
        BY DEF TypeOK, Client
      <4> QED
        BY <4>1, NoneAssumption
    <3>5. ClientMatchesRequest' /\ SweeperReturnsOwn'
      BY <2>1, <3>1, <3>4 DEF ClientMatchesRequest, configFingerprint, SweeperReturnsOwn
    <3>6. EntryMatchesClient'
      BY <2>1, <3>2, <3>4 DEF EntryMatchesClient, configFingerprint
    <3>7. SweptRecently'
      BY <2>1, <3>2, TTLAssumption DEF SweptRecently, SweepNotAhead, TypeOK
    <3> QED
      BY <2>1, <3>3, <3>5, <3>6, <3>7 DEF SweepNotAhead
  <2> QED
    BY <2>2, <2>3
<1>7. ASSUME NEW c \in Callers, sweepExpiredLocked(c)
      PROVE  Goal
  <2>1. /\ UNCHANGED <<now, req, readAt, client>>
        /\ holder = c /\ holder' = None /\ pc[c] = "sweep" /\ pc'[c] = "use"
        /\ \A d \in Callers \ {c} : pc'[d] = pc[d]
    BY <1>7 DEF sweepExpiredLocked, TypeOK
  <2>2. LockHeldWhileSweeping'
    BY <2>1, NoneAssumption DEF LockHeldWhileSweeping
  <2>3. ClientMatchesRequest' /\ SweeperReturnsOwn'
    BY <2>1 DEF ClientMatchesRequest, configFingerprint, SweeperReturnsOwn
  <2>4. \A j \in Instances : IsEntry(cache'[j]) =>
           /\ IsEntry(cache[j]) /\ cache'[j] = cache[j]
           /\ lastSweep' # lastSweep => now - cache[j].createdAt < TTL
    <3>1. CASE now - lastSweep < TTL
      BY <1>7, <3>1 DEF sweepExpiredLocked
    <3>2. CASE ~ (now - lastSweep < TTL)
      <4>1. cache' = Swept(cache)
        BY <1>7, <3>2 DEF sweepExpiredLocked
      <4> QED
        <5> SUFFICES ASSUME NEW j \in Instances, IsEntry(cache'[j])
                     PROVE  /\ IsEntry(cache[j]) /\ cache'[j] = cache[j]
                            /\ now - cache[j].createdAt < TTL
          OBVIOUS
        <5>1. cache[j] \in Entry \cup {NoEntry}
          BY DEF TypeOK
        <5>2. cache[j].createdAt \in Nat
          BY <5>1, EntryFacts
        <5>3. ~ IsEntry(NoEntry)
          BY DEF IsEntry, NoEntry
        <5> QED
          BY <4>1, <5>2, <5>3, TTLAssumption DEF Swept, Expired, TypeOK
    <3> QED
      BY <3>1, <3>2
  <2>5. lastSweep' = now \/ lastSweep' = lastSweep
    BY <1>7 DEF sweepExpiredLocked
  <2>6. EntryMatchesClient'
    BY <2>4 DEF EntryMatchesClient, configFingerprint
  <2>7. SweptRecently' /\ SweepNotAhead'
    BY <2>1, <2>4, <2>5 DEF SweptRecently, SweepNotAhead, TypeOK
  <2> QED
    BY <2>2, <2>3, <2>6, <2>7
<1>8. CASE UNCHANGED vars
  BY <1>8 DEF vars, LockHeldWhileSweeping, EntryMatchesClient, SweepNotAhead,
     ClientMatchesRequest, SweptRecently, SweeperReturnsOwn
<1> QED
  BY <1>1, <1>2, <1>3, <1>4, <1>5, <1>6, <1>7, <1>8 DEF Next, CallerStep

\* The inductive invariant holds in every reachable state.
THEOREM CacheInvariant == Spec => []CacheInv
<1>1. Spec => []TypeOK
  BY TypeCorrect
<1>2. TypeOK /\ CacheInv /\ TypeOK' /\ [Next]_vars => CacheInv'
  BY CacheInvNext
<1> QED
  BY <1>1, <1>2, CacheInvInit, PTL DEF Spec

\* CreateClient returns a client of the fingerprint the caller asked for.
THEOREM RequestedClientReturned == Spec => []ClientMatchesRequest
<1>1. CacheInv => ClientMatchesRequest
  BY DEF CacheInv
<1> QED
  BY <1>1, CacheInvariant, PTL

\* No entry is ever a whole TTL older than the last sweep.
THEOREM SweepKeepsUp == Spec => []SweptRecently
<1>1. CacheInv => SweptRecently
  BY DEF CacheInv
<1> QED
  BY <1>1, CacheInvariant, PTL

\* Every insertion leaves entries younger than two TTLs: those a sweep has
\* just spared are younger than one, and when the sweep is skipped the last
\* one is less than a TTL away and SweptRecently covers the rest.
THEOREM InsertionAgeBound == Spec => InsertionBoundsAge
<1>1. CacheInv /\ CacheInv' /\ [Next]_vars => [InsertionStep]_vars
  <2> SUFFICES ASSUME CacheInv, CacheInv', Next,
                      holder # None, holder' = None,
                      NEW i \in Instances, IsEntry(cache'[i])
               PROVE  now - cache'[i].createdAt < 2 * TTL
    BY DEF InsertionStep, vars
  <2>1. PICK c \in Callers : sweepExpiredLocked(c)
    BY DEF Next, CallerStep, Tick, EditPerses, RecreatePerses, DeletePerses,
       ForgetInstance, FindRecreated, Call, Lookup, buildClient,
       buildClientFails, Store, Return
  <2>2. now' = now /\ now \in Nat /\ lastSweep' \in Int /\ cache'[i].createdAt \in Nat
    <3>1. cache'[i] \in Entry \cup {NoEntry}
      BY DEF CacheInv, TypeOK
    <3> QED
      BY <2>1, <3>1, EntryFacts DEF sweepExpiredLocked, CacheInv, TypeOK
  <2>3. now - lastSweep' < TTL
    <3>1. CASE now - lastSweep < TTL
      BY <2>1, <3>1 DEF sweepExpiredLocked
    <3>2. CASE ~ (now - lastSweep < TTL)
      <4>1. lastSweep' = now
        BY <2>1, <3>2 DEF sweepExpiredLocked
      <4> QED
        BY <2>2, <4>1, TTLAssumption
    <3> QED
      BY <3>1, <3>2
  <2>4. lastSweep' - cache'[i].createdAt < TTL
    BY DEF CacheInv, SweptRecently
  <2>5. now - cache'[i].createdAt = (now - lastSweep') + (lastSweep' - cache'[i].createdAt)
    BY <2>2
  <2>6. \A a, b \in Int : a < TTL /\ b < TTL => a + b < 2 * TTL
    BY TTLAssumption
  <2>7. now - lastSweep' \in Int /\ lastSweep' - cache'[i].createdAt \in Int
    BY <2>2
  <2> QED
    BY <2>3, <2>4, <2>5, <2>6, <2>7
<1> QED
  BY <1>1, CacheInvariant, PTL DEF Spec, InsertionBoundsAge

\* The double-checked store never replaces a live client by one of the same
\* fingerprint.
THEOREM DoubleCheckedStore == Spec => LiveEntryKept
<1>1. CacheInv /\ [Next]_vars => [LiveEntryStep]_vars
  <2> SUFFICES ASSUME CacheInv, Next, NEW i \in Instances,
                      IsEntry(cache[i]), IsEntry(cache'[i]), cache'[i] # cache[i],
                      now - cache[i].createdAt < TTL
               PROVE  cache'[i].fingerprint # cache[i].fingerprint
    BY DEF LiveEntryStep, vars
  <2>1. PICK c \in Callers : Store(c)
    <3>1. ASSUME NEW j \in Instances, ForgetInstance(j)
          PROVE  FALSE
      BY <3>1 DEF ForgetInstance, CacheInv, TypeOK, IsEntry, NoEntry
    <3>2. ASSUME NEW d \in Callers, sweepExpiredLocked(d)
          PROVE  FALSE
      BY <3>2 DEF sweepExpiredLocked, Swept, IsEntry, NoEntry
    <3> QED
      BY <3>1, <3>2 DEF Next, CallerStep, Tick, EditPerses, RecreatePerses,
         DeletePerses, FindRecreated, Call, Lookup, buildClient,
         buildClientFails, Return
  <2>2. /\ i = req[c].inst
        /\ ~ cacheHit(cache[i], configFingerprint(req[c]))
        /\ cache'[i].fingerprint = configFingerprint(req[c])
    BY <2>1 DEF Store, CacheInv, TypeOK
  <2> QED
    BY <2>2 DEF cacheHit
<1> QED
  BY <1>1, CacheInvariant, PTL DEF Spec, LiveEntryKept

\* What CreateClient returns comes from an entry whose TTL still runs, or was
\* built by the call itself.
THEOREM HandOutBound == Spec => HandedOutWithinTTL
<1>1. CacheInv /\ [Next]_vars => [HandOutStep]_vars
  <2> DEFINE e(c) == cache[req[c].inst]
             FromCache(c) == holder # c /\ e(c).client = client'[c] /\ now - e(c).createdAt < TTL
             Own(c) == holder = c /\ client'[c] = [builtFrom |-> req[c], readAt |-> readAt[c]]
  <2> SUFFICES ASSUME CacheInv, Next, NEW c \in Callers, pc[c] # "use", pc'[c] = "use"
               PROVE  FromCache(c) \/ Own(c)
    BY DEF HandOutStep, vars
  <2>1. Lookup(c) \/ Store(c) \/ sweepExpiredLocked(c)
    <3>1. pc' # pc
      OBVIOUS
    <3>2. PICK d \in Callers : CallerStep(d) \/ \E i \in Instances : Call(d, i)
      BY <3>1 DEF Next, Tick, EditPerses, RecreatePerses, DeletePerses,
         ForgetInstance, FindRecreated, callVars
    <3>3. d = c
      BY <3>2 DEF CallerStep, Call, Lookup, buildClient, buildClientFails,
         Store, sweepExpiredLocked, Return, CacheInv, TypeOK
    <3> QED
      BY <3>2, <3>3 DEF CallerStep, Call, buildClient, buildClientFails,
         Return, CacheInv, TypeOK
  <2>2. CASE Lookup(c)
    BY <2>2, NoneAssumption DEF Lookup, cacheHit, CacheInv, TypeOK
  <2>3. CASE Store(c)
    BY <2>3, NoneAssumption DEF Store, cacheHit, CacheInv, TypeOK
  <2>4. CASE sweepExpiredLocked(c)
    BY <2>4 DEF sweepExpiredLocked, CacheInv, SweeperReturnsOwn
  <2> QED
    BY <2>1, <2>2, <2>3, <2>4
<1> QED
  BY <1>1, CacheInvariant, PTL DEF Spec, HandedOutWithinTTL
=============================================================================
