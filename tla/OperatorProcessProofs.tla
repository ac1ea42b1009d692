----------------------- MODULE OperatorProcessProofs -----------------------
(***************************************************************************)
(* Proofs about the operator's process: for any command lines, profiles,   *)
(* kinds and names of objects, and any number of changes and faults.       *)
(***************************************************************************)
EXTENDS OperatorProcess, TLAPS

-----------------------------------------------------------------------------
(***************************************************************************)
(* Facts about the operators of the model.                                 *)
(***************************************************************************)

\* An idle worker.
LEMMA IdleFacts ==
    /\ Idle.pc = "idle" /\ Idle.name = Missing /\ Idle.ok = FALSE
    /\ Idle \in [pc : {"idle", "pass", "forget", "count"}, name : Names \cup {Missing}, ok : BOOLEAN]
  BY DEF Idle

\* Spending a move keeps the type of the budget.
LEMMA SpendType ==
    ASSUME budget \in [EnvironmentMoves -> Nat], NEW move \in EnvironmentMoves, Spend(move)
    PROVE  budget' \in [EnvironmentMoves -> Nat]
  BY DEF Spend

\* The moves of the environment.
LEMMA MoveFacts ==
    "profile" \in EnvironmentMoves /\ "edit" \in EnvironmentMoves /\ "fault" \in EnvironmentMoves
  BY DEF EnvironmentMoves

\* Objects are pairs, and their keys are keys of the tracker.
LEMMA ObjectFacts ==
    ASSUME NEW o \in Objects
    PROVE  o[1] \in Kinds /\ o[2] \in Names /\ o = <<o[1], o[2]>> /\ objKey(o) \in Keys
  BY DEF Objects, Keys

\* Kind and key determine the object: only namespaced objects of different kinds
\* share a key.
LEMMA KeyFacts ==
    ASSUME NEW o \in Objects, NEW p \in Objects
    PROVE  /\ objKey(o) = objKey(p) <=> o[2] = p[2] /\ Namespaced(o) = Namespaced(p)
           /\ o[1] = p[1] /\ objKey(o) = objKey(p) => o = p
<1>1. o = <<o[1], o[2]>> /\ p = <<p[1], p[2]>>
  BY ObjectFacts
<1>2. objKey(o) = objKey(p) <=> o[2] = p[2] /\ Namespaced(o) = Namespaced(p)
  BY DEF objKey, Namespaced
<1> QED
  BY <1>1, <1>2

\* What main() takes from a profile or its flags are settings, if it parses.
LEMMA SettingsType ==
    /\ NoSettings \in [min : Versions \cup {""}, ciphers : SUBSET CipherSuites]
    /\ \A p : Parses(FetchTLSProfile(p)) =>
          FetchTLSProfile(p) \in [min : Versions \cup {""}, ciphers : SUBSET CipherSuites]
    /\ \A f \in FlagSets : Parses(f.settings) =>
          f.settings \in [min : Versions \cup {""}, ciphers : SUBSET CipherSuites]
<1>1. NoSettings \in [min : Versions \cup {""}, ciphers : SUBSET CipherSuites]
  BY DEF NoSettings
<1>2. ASSUME NEW p, Parses(FetchTLSProfile(p))
      PROVE  FetchTLSProfile(p) \in [min : Versions \cup {""}, ciphers : SUBSET CipherSuites]
  <2>1. \A m, c : Parses([min |-> m, ciphers |-> c]) =>
          [min |-> m, ciphers |-> c] \in [min : Versions \cup {""}, ciphers : SUBSET CipherSuites]
    BY DEF Parses, ParseTLSVersion, ParseCipherSuites
  <2>2. PICK m, c : FetchTLSProfile(p) = [min |-> m, ciphers |-> c]
    BY Zenon DEF FetchTLSProfile
  <2>3. Parses([min |-> m, ciphers |-> c])
    BY <1>2, <2>2
  <2>4. [min |-> m, ciphers |-> c] \in [min : Versions \cup {""}, ciphers : SUBSET CipherSuites]
    BY <2>1, <2>3
  <2> QED
    BY <2>2, <2>4
<1>3. ASSUME NEW f \in FlagSets, Parses(f.settings)
      PROVE  f.settings \in [min : Versions \cup {""}, ciphers : SUBSET CipherSuites]
  <2>1. f.settings \in [min : STRING, ciphers : SUBSET STRING]
    BY FlagSetsAssumption
  <2> QED
    BY <1>3, <2>1 DEF Parses, ParseTLSVersion, ParseCipherSuites
<1> QED
  BY <1>1, <1>2, <1>3

-----------------------------------------------------------------------------
(***************************************************************************)
(* Steps of main() and of the watcher.                                     *)
(***************************************************************************)

\* A step that leaves objects and the workers alone, in a process that goes on
\* with its settings or does not run.
LEMMA SteadyStep ==
    ASSUME WorkersOnObjects, DownIsEmpty, OperandsFollow, NoGhosts, Counted,
           UNCHANGED <<flags, objects, created, operand, workVars>>,
           Up' <=> Up, Up => settings' = settings
    PROVE  WorkersOnObjects' /\ DownIsEmpty' /\ OperandsFollow' /\ NoGhosts' /\ Counted'
<1>0. UNCHANGED <<flags, objects, created, operand, queue, worker, statusByObject, resources>>
  BY DEF workVars, metricVars
<1>1. WorkersOnObjects'
  BY <1>0 DEF WorkersOnObjects
<1>2. DownIsEmpty'
  BY <1>0 DEF DownIsEmpty
<1>3. OperandsFollow'
  BY <1>0 DEF OperandsFollow, Due, At, GetPersesArgs
<1>4. NoGhosts'
  BY <1>0 DEF NoGhosts, At
<1>5. Counted'
  BY <1>0 DEF Counted, OwnKey, Due, At
<1> QED
  BY <1>1, <1>2, <1>3, <1>4, <1>5

\* The end of the process leaves nothing but the cluster.
LEMMA ExitStep ==
    ASSUME TypeOK, Exit, UNCHANGED <<flags, clusterVars>>,
           budget' \in [EnvironmentMoves -> Nat]
    PROVE  ProcessInv'
<1>0. /\ phase' = "down" /\ settings' = NoSettings /\ initial' = Missing /\ view' = Missing
      /\ watcher' = FALSE /\ queue' = {} /\ worker' = [k \in Kinds |-> Idle]
      /\ statusByObject' = [k \in Keys |-> "none"] /\ resources' = {}
      /\ UNCHANGED <<flags, profile, objects, begun, operand, created>>
  BY DEF Exit, clusterVars
<1>1. TypeOK'
  BY <1>0, SettingsType, IdleFacts DEF TypeOK
<1>2. \A k \in Kinds : worker'[k] = Idle
  BY <1>0
<1>3. ~ Up'
  BY <1>0 DEF Up
<1>4. WorkersOnObjects' /\ DownIsEmpty'
  BY <1>0, <1>2, IdleFacts DEF WorkersOnObjects, DownIsEmpty
<1>5. SettingsFollow' /\ OperandsFollow' /\ Counted'
  BY <1>0, <1>3 DEF SettingsFollow, OperandsFollow, Counted
<1>6. NoGhosts'
  BY <1>0 DEF NoGhosts
<1> QED
  BY <1>1, <1>4, <1>5, <1>6 DEF ProcessInv

\* Starting: until the manager runs, there is nothing to remember.
LEMMA StartSteps ==
    ASSUME ProcessInv, StartContainer \/ ParseFlags \/ FetchProfile \/ SetupManager
    PROVE  ProcessInv'
<1> USE DEF ProcessInv
<1>a. ~ Up /\ budget \in [EnvironmentMoves -> Nat]
  BY DEF StartContainer, ParseFlags, FetchProfile, SetupManager, Up, TypeOK
<1>b. "fault" \in EnvironmentMoves
  BY MoveFacts
<1>1. ASSUME UNCHANGED <<flags, clusterVars, watchVars, workVars, budget>>, ~ Up',
             TypeOK', SettingsFollow'
      PROVE  ProcessInv'
  BY <1>a, <1>1, SteadyStep DEF clusterVars
<1>2. ASSUME Exit, UNCHANGED <<flags, clusterVars>>, UNCHANGED budget \/ Spend("fault")
      PROVE  ProcessInv'
  <2>1. budget' \in [EnvironmentMoves -> Nat]
    BY <1>a, <1>b, <1>2, SpendType
  <2> QED
    BY <1>2, <2>1, ExitStep
<1>3. CASE StartContainer
  <2>1. phase' = "flags" /\ UNCHANGED <<flags, clusterVars, watchVars, workVars, budget, settings, initial>>
    BY <1>3 DEF StartContainer, Goto
  <2>2. TypeOK'
    BY <2>1 DEF TypeOK, clusterVars, watchVars, workVars, metricVars
  <2> QED
    BY <1>1, <2>1, <2>2 DEF Up, SettingsFollow
<1>4. CASE ParseFlags
  <2>1. CASE FlagsParse
    <3>1. /\ phase' = IF flags.clusterProfile THEN "fetch" ELSE "setup"
          /\ settings' = flags.settings
          /\ UNCHANGED <<flags, clusterVars, watchVars, workVars, budget, initial>>
      BY <1>4, <2>1 DEF ParseFlags
    <3>2. settings' \in [min : Versions \cup {""}, ciphers : SUBSET CipherSuites]
      BY <2>1, <3>1, SettingsType DEF TypeOK, FlagsParse
    <3>3. phase' \in {"fetch", "setup"}
      BY <3>1
    <3>4. TypeOK'
      BY <3>1, <3>2, <3>3 DEF TypeOK, clusterVars, watchVars, workVars, metricVars
    <3>5. SettingsFollow'
      BY <3>1 DEF SettingsFollow
    <3> QED
      BY <1>1, <3>1, <3>3, <3>4, <3>5 DEF Up
  <2>2. CASE ~ FlagsParse
    BY <1>2, <1>4, <2>2 DEF ParseFlags
  <2> QED
    BY <2>1, <2>2
<1>5. CASE FetchProfile
  <2>1. CASE /\ ProfileUsable /\ phase' = "setup" /\ settings' = FetchTLSProfile(profile)
             /\ initial' = profile /\ UNCHANGED <<watchVars, workVars, budget, flags, clusterVars>>
    <3>1. settings' \in [min : Versions \cup {""}, ciphers : SUBSET CipherSuites]
      BY <2>1, SettingsType DEF ProfileUsable
    <3>2. TypeOK'
      BY <2>1, <3>1 DEF TypeOK, clusterVars, watchVars, workVars, metricVars
    <3>3. flags.clusterProfile
      BY <1>5 DEF FetchProfile, SettingsFollow
    <3>4. SettingsFollow'
      BY <2>1, <3>3 DEF SettingsFollow
    <3> QED
      BY <1>1, <2>1, <3>2, <3>4 DEF Up
  <2>2. CASE ~ ProfileUsable /\ Exit /\ UNCHANGED budget
    BY <1>2, <1>5, <2>2 DEF FetchProfile
  <2>3. CASE Spend("fault") /\ Exit
    BY <1>2, <1>5, <2>3 DEF FetchProfile
  <2> QED
    BY <1>5, <2>1, <2>2, <2>3 DEF FetchProfile
<1>6. CASE SetupManager
  <2>1. CASE Goto("start") /\ UNCHANGED <<watchVars, workVars, budget, flags, clusterVars>>
    <3>1. phase = "setup" /\ phase' = "start" /\ UNCHANGED <<settings, initial, flags>>
      BY <1>6, <2>1 DEF SetupManager, Goto
    <3>2. TypeOK'
      BY <2>1, <3>1 DEF TypeOK, clusterVars, watchVars, workVars, metricVars
    <3>3. SettingsFollow'
      BY <3>1 DEF SettingsFollow, FetchTLSProfile
    <3> QED
      BY <1>1, <2>1, <3>1, <3>2, <3>3 DEF Up
  <2>2. CASE Spend("fault") /\ Exit
    BY <1>2, <1>6, <2>2 DEF SetupManager
  <2> QED
    BY <1>6, <2>1, <2>2 DEF SetupManager
<1> QED
  BY <1>3, <1>4, <1>5, <1>6

\* The manager starts with a request for every object that exists.
LEMMA StartManagerStep ==
    ASSUME ProcessInv, StartManager
    PROVE  ProcessInv'
<1> USE DEF ProcessInv
<1>1. CASE Spend("fault") /\ Exit
  <2>1. budget' \in [EnvironmentMoves -> Nat]
    BY <1>1, MoveFacts, SpendType DEF TypeOK
  <2> QED
    BY <1>1, <2>1, ExitStep DEF StartManager
<1>2. CASE /\ Goto("running") /\ view' = (IF flags.clusterProfile THEN profile ELSE Missing)
           /\ watcher' = flags.clusterProfile /\ queue' = objects
           /\ UNCHANGED <<worker, metricVars, budget>>
  <2>1. /\ phase = "start" /\ phase' = "running" /\ UNCHANGED <<settings, initial>>
        /\ UNCHANGED <<flags, profile, objects, begun, operand, created, worker, statusByObject, resources, budget>>
        /\ queue' = objects
    BY <1>2 DEF StartManager, Goto, clusterVars, metricVars
  <2>2. ~ Up /\ flags.clusterProfile \in BOOLEAN
    BY <2>1, FlagSetsAssumption DEF Up, TypeOK
  <2>3. (\A k \in Kinds : worker[k] = Idle) /\ resources = {} /\ (\A key \in Keys : statusByObject[key] = "none")
    BY <2>2 DEF DownIsEmpty
  <2>4. TypeOK'
    <3>1. view' \in Profiles \cup {Missing}
      BY <1>2 DEF TypeOK
    <3> QED
      BY <1>2, <2>1, <2>2, <3>1 DEF TypeOK
  <2>5. WorkersOnObjects' /\ NoGhosts'
    BY <2>1, <2>3, IdleFacts DEF WorkersOnObjects, NoGhosts
  <2>6. Up'
    BY <2>1 DEF Up
  <2>7. DownIsEmpty' /\ OperandsFollow' /\ Counted'
    BY <2>1, <2>6 DEF DownIsEmpty, OperandsFollow, Counted, Due
  <2>8. SettingsFollow'
    BY <1>2, <2>1 DEF SettingsFollow, FetchTLSProfile
  <2> QED
    BY <2>4, <2>5, <2>7, <2>8
<1> QED
  BY <1>1, <1>2 DEF StartManager

\* The end of the manager, and a crash.
LEMMA EndSteps ==
    ASSUME ProcessInv, StopManager \/ Crash
    PROVE  ProcessInv'
<1>1. budget' \in [EnvironmentMoves -> Nat]
  BY MoveFacts, SpendType DEF StopManager, Crash, ProcessInv, TypeOK
<1> QED
  BY <1>1, ExitStep DEF StopManager, Crash, ProcessInv

\* The profile changes, its cached copy follows and the watcher compares: the
\* comparison with the remembered profile decides, so that no change is missed.
LEMMA ProfileSteps ==
    ASSUME ProcessInv, (\E p \in Profiles : ChangeProfile(p)) \/ ObserveProfile \/ CheckProfile
    PROVE  ProcessInv'
<1> USE DEF ProcessInv
<1>1. ASSUME UNCHANGED <<flags, objects, created, operand, workVars, settings>>, Up' <=> Up,
             TypeOK', SettingsFollow'
      PROVE  ProcessInv'
  BY <1>1, SteadyStep
<1>2. ASSUME NEW p \in Profiles, ChangeProfile(p)
      PROVE  ProcessInv'
  <2>1. profile' = p /\ UNCHANGED <<flags, objects, begun, operand, created, mainVars, watchVars, workVars>>
    BY <1>2 DEF ChangeProfile
  <2>2. budget' \in [EnvironmentMoves -> Nat]
    BY <1>2, MoveFacts, SpendType DEF ChangeProfile, TypeOK
  <2>3. TypeOK'
    BY <2>1, <2>2 DEF TypeOK, mainVars, watchVars, workVars, metricVars
  <2>4. SettingsFollow' /\ (Up' <=> Up) /\ UNCHANGED settings
    BY <2>1 DEF SettingsFollow, FetchTLSProfile, Up, mainVars, watchVars
  <2> QED
    BY <1>1, <2>1, <2>3, <2>4
<1>3. CASE ObserveProfile
  <2>1. /\ view' = profile /\ watcher' = TRUE
        /\ UNCHANGED <<flags, clusterVars, mainVars, workVars, budget>>
    BY <1>3 DEF ObserveProfile
  <2>2. TypeOK'
    BY <2>1 DEF TypeOK, clusterVars, mainVars, workVars, metricVars
  <2>3. SettingsFollow' /\ (Up' <=> Up) /\ UNCHANGED <<settings, objects, created, operand>>
    BY <2>1 DEF SettingsFollow, FetchTLSProfile, Up, mainVars, clusterVars
  <2> QED
    BY <1>1, <2>1, <2>2, <2>3
<1>4. CASE CheckProfile
  <2>1. /\ phase = "running" /\ watcher' = FALSE
        /\ UNCHANGED <<flags, settings, clusterVars, view, workVars, budget>>
        /\ \/ phase' = "stopping" /\ initial' = view
           \/ view = initial /\ UNCHANGED <<phase, initial>>
    BY <1>4 DEF CheckProfile, OnProfileChange
  <2>2. TypeOK'
    BY <2>1 DEF TypeOK, clusterVars, workVars, metricVars
  <2>3. SettingsFollow' /\ (Up' <=> Up) /\ UNCHANGED <<objects, created, operand>>
    BY <2>1 DEF SettingsFollow, FetchTLSProfile, Up, clusterVars
  <2> QED
    BY <1>1, <2>1, <2>2, <2>3
<1> QED
  BY <1>2, <1>3, <1>4

-----------------------------------------------------------------------------
(***************************************************************************)
(* Steps of the users and of the workers.                                  *)
(***************************************************************************)

\* A process that has something to do or to remember is up.
LEMMA WorkMeansUp ==
    ASSUME DownIsEmpty
    PROVE  /\ (\E k \in Kinds : worker[k].pc # "idle") => Up
           /\ resources # {} => Up
           /\ (\E key \in Keys : statusByObject[key] # "none") => Up
  BY IdleFacts DEF DownIsEmpty

\* A new object is requested from a process that is up.
LEMMA CreateStep ==
    ASSUME ProcessInv, NEW o \in Objects, CreateObject(o)
    PROVE  ProcessInv'
<1> USE DEF ProcessInv
<1>1. /\ objects' = objects \cup {o} /\ created' = created \cup {o}
      /\ queue' = IF Up THEN queue \cup {o} ELSE queue
      /\ UNCHANGED <<flags, profile, begun, operand, phase, settings, initial, view, watcher, worker,
                    statusByObject, resources>>
  BY DEF CreateObject, Notify, Up, mainVars, watchVars, metricVars
<1>2. /\ objects \subseteq objects' /\ queue \subseteq queue' /\ created \subseteq created'
      /\ Up' <=> Up
      /\ Up => o \in queue'
  BY <1>1 DEF Up
<1>3. TypeOK'
  <2>1. budget' \in [EnvironmentMoves -> Nat]
    BY MoveFacts, SpendType DEF CreateObject, TypeOK
  <2>2. created' \subseteq Objects /\ objects' \subseteq created' /\ queue' \subseteq created'
    BY <1>1 DEF TypeOK
  <2> QED
    BY <1>1, <2>1, <2>2 DEF TypeOK
<1>4. WorkersOnObjects'
  BY <1>1, <1>2, WorkMeansUp DEF WorkersOnObjects
<1>5. DownIsEmpty' /\ SettingsFollow'
  BY <1>1, <1>2 DEF DownIsEmpty, SettingsFollow, FetchTLSProfile
<1>6. OperandsFollow'
  BY <1>1, <1>2 DEF OperandsFollow, Due, At, GetPersesArgs
<1>7. NoGhosts'
  BY <1>1, <1>2 DEF NoGhosts, At
<1>8. Counted'
  BY <1>1, <1>2 DEF Counted, OwnKey, Due, At
<1> QED
  BY <1>3, <1>4, <1>5, <1>6, <1>7, <1>8

\* So is the end of a deleted one: whatever is remembered of it will be forgotten.
LEMMA DeleteStep ==
    ASSUME ProcessInv, NEW o \in Objects, DeleteObject(o)
    PROVE  ProcessInv'
<1> USE DEF ProcessInv
<1>1. /\ objects' = objects \ {o} /\ o \in objects
      /\ operand' = IF o[1] = "Perses" THEN [operand EXCEPT ![o[2]] = Missing] ELSE operand
      /\ begun' \subseteq begun
      /\ queue' = IF Up THEN queue \cup {o} ELSE queue
      /\ UNCHANGED <<flags, profile, created, phase, settings, initial, view, watcher, worker,
                    statusByObject, resources>>
  BY DEF DeleteObject, Notify, Up, mainVars, watchVars, metricVars
<1>2. queue \subseteq queue' /\ (Up' <=> Up) /\ (Up => o \in queue' /\ objects' \cup queue' = objects \cup queue')
  BY <1>1 DEF Up
<1>3. TypeOK'
  <2>1. budget' \in [EnvironmentMoves -> Nat]
    BY MoveFacts, SpendType DEF DeleteObject, TypeOK
  <2>2. objects' \subseteq created' /\ queue' \subseteq created'
    BY <1>1 DEF TypeOK
  <2> QED
    BY <1>1, <2>1, <2>2 DEF TypeOK
<1>4. WorkersOnObjects'
  BY <1>1, <1>2, WorkMeansUp DEF WorkersOnObjects
<1>5. DownIsEmpty' /\ SettingsFollow'
  BY <1>1, <1>2 DEF DownIsEmpty, SettingsFollow, FetchTLSProfile
<1>6. OperandsFollow'
  <2> SUFFICES ASSUME Up', NEW n \in Names, <<"Perses", n>> \in objects', ~ Due(<<"Perses", n>>)'
               PROVE  operand'[n] = GetPersesArgs(settings)'
    BY DEF OperandsFollow
  <2>1. o # <<"Perses", n>> /\ o = <<o[1], o[2]>>
    BY <1>1, ObjectFacts
  <2>2. operand'[n] = operand[n]
    BY <1>1, <2>1 DEF TypeOK
  <2>3. ~ Due(<<"Perses", n>>)
    BY <1>1, <1>2 DEF Due, At
  <2> QED
    BY <1>1, <1>2, <2>2, <2>3 DEF OperandsFollow, GetPersesArgs
<1>7. NoGhosts'
  BY <1>1, <1>2, WorkMeansUp DEF NoGhosts, At
<1>8. Counted'
  BY <1>1, <1>2 DEF Counted, OwnKey, Due, At
<1> QED
  BY <1>3, <1>4, <1>5, <1>6, <1>7, <1>8

\* Objects with a key of their own share it with nothing that ever existed.
LEMMA OwnKeyFacts ==
    ASSUME created \subseteq Objects, NEW p \in Objects, OwnKey(p), NEW o \in created, o # p
    PROVE  objKey(p) # objKey(o)
  BY KeyFacts DEF OwnKey

\* What a step of the worker of one kind leaves alone.
WorkerFrame(k) ==
    /\ UNCHANGED <<flags, profile, objects, created, phase, settings, initial, view, watcher>>
    /\ worker' \in [Kinds -> [pc : {"idle", "pass", "forget", "count"},
                              name : Names \cup {Missing}, ok : BOOLEAN]]
    /\ \A j \in Kinds \ {k} : worker'[j] = worker[j]
    /\ begun' \subseteq Names
    /\ budget' \in [EnvironmentMoves -> Nat]

\* The worker of one kind changes.
LEMMA WorkerUpdate ==
    ASSUME worker \in [Kinds -> [pc : {"idle", "pass", "forget", "count"},
                                 name : Names \cup {Missing}, ok : BOOLEAN]],
           NEW k \in Kinds,
           NEW w \in [pc : {"idle", "pass", "forget", "count"},
                      name : Names \cup {Missing}, ok : BOOLEAN],
           worker' = [worker EXCEPT ![k] = w]
    PROVE  /\ worker' \in [Kinds -> [pc : {"idle", "pass", "forget", "count"},
                                     name : Names \cup {Missing}, ok : BOOLEAN]]
           /\ worker'[k] = w
           /\ \A j \in Kinds \ {k} : worker'[j] = worker[j]
  OBVIOUS

\* A step of a worker keeps all types if it keeps those of what it may write.
LEMMA WorkerType ==
    ASSUME TypeOK, NEW k \in Kinds, WorkerFrame(k), WorkersOnObjects', queue' \subseteq created,
           DOMAIN operand' = Names, statusByObject' \in [Keys -> {"none", "ok", "failed"}],
           resources' \subseteq Kinds \X {"synced", "failed"} \X Keys
    PROVE  TypeOK'
<1>1. \A j \in Kinds : worker'[j].pc = "idle" \/ worker'[j].name \in Names
  BY DEF WorkerFrame, WorkersOnObjects, TypeOK, Objects
<1> QED
  BY <1>1 DEF TypeOK, WorkerFrame

\* The workers of the other kinds stay on their objects.
LEMMA WorkersStep ==
    ASSUME WorkersOnObjects, NEW k \in Kinds, WorkerFrame(k),
           \A j \in Kinds : \A n : j # k => (<<j, n>> \in queue' <=> <<j, n>> \in queue),
           worker'[k].pc = "idle" => worker'[k] = Idle,
           worker'[k].pc # "idle" => <<k, worker'[k].name>> \in created,
           worker'[k].pc \in {"pass", "count"} => <<k, worker'[k].name>> \in objects \cup queue',
           worker'[k].pc = "forget" => <<k, worker'[k].name>> \notin objects \ queue'
    PROVE  WorkersOnObjects'
<1> SUFFICES ASSUME NEW j \in Kinds
             PROVE  /\ worker'[j].pc = "idle" => worker'[j] = Idle
                    /\ worker'[j].pc # "idle" => <<j, worker'[j].name>> \in created'
                    /\ worker'[j].pc \in {"pass", "count"} => <<j, worker'[j].name>> \in objects' \cup queue'
                    /\ worker'[j].pc = "forget" => <<j, worker'[j].name>> \notin objects' \ queue'
  BY DEF WorkersOnObjects
<1>1. CASE j = k
  BY <1>1 DEF WorkerFrame
<1>2. CASE j # k
  BY <1>2 DEF WorkerFrame, WorkersOnObjects
<1> QED
  BY <1>1, <1>2

\* The worker takes a request for an object that exists.
LEMMA BeginStep ==
    ASSUME ProcessInv, NEW k \in Kinds, NEW n \in Names, BeginPass(<<k, n>>), <<k, n>> \in objects
    PROVE  ProcessInv'
<1> USE DEF ProcessInv
<1> DEFINE o == <<k, n>>
<1>1. /\ o \in queue /\ worker[k] = Idle /\ queue' = queue \ {o} /\ o \in Objects /\ o \in created
      /\ worker' = [worker EXCEPT ![k] = [pc |-> "pass", name |-> n, ok |-> FALSE]]
      /\ UNCHANGED <<operand, statusByObject, resources>>
  BY DEF BeginPass, TypeOK, Objects, clusterVars
<1>2. /\ WorkerFrame(k)
      /\ worker'[k].pc = "pass" /\ worker'[k].name = n
  BY <1>1 DEF BeginPass, WorkerFrame, TypeOK, clusterVars, mainVars, watchVars
<1>3. o[1] = k /\ o[2] = n /\ o \in objects
  OBVIOUS
<1> HIDE DEF o
<1>4. \A p \in Objects : p[1] # k => At(p, {"pass"})' = At(p, {"pass"}) /\ At(p, {"count"})' = At(p, {"count"})
                                  /\ At(p, {"forget"})' = At(p, {"forget"}) /\ worker'[p[1]] = worker[p[1]]
  BY <1>2, ObjectFacts DEF At, WorkerFrame
<1>5. \A p \in Objects : p[1] = k => ~ At(p, {"pass"}) /\ ~ At(p, {"count"}) /\ ~ At(p, {"forget"})
  BY <1>1, IdleFacts DEF At
<1>6. At(o, {"pass"})' /\ \A p \in Objects : p[1] = k => ~ At(p, {"forget"})' /\ ~ At(p, {"count"})'
  BY <1>2, <1>3 DEF At
<1>7. \A p \in Objects : ~ Due(p)' => p # o /\ ~ Due(p) /\ (At(p, {"count"})' <=> At(p, {"count"}))
  BY <1>1, <1>4, <1>5, <1>6 DEF Due
<1>8. TypeOK'
  BY <1>1, <1>2 DEF TypeOK, WorkerFrame
<1>9. WorkersOnObjects'
  BY <1>1, <1>2, <1>3, WorkersStep DEF WorkerFrame, o
<1>10. (Up' <=> Up) /\ Up
  BY <1>2 DEF Up, WorkerFrame, BeginPass
<1>11. DownIsEmpty' /\ SettingsFollow'
  BY <1>2, <1>10 DEF WorkerFrame, DownIsEmpty, SettingsFollow, FetchTLSProfile
<1>12. OperandsFollow'
  BY <1>1, <1>2, <1>7, <1>10 DEF OperandsFollow, WorkerFrame, GetPersesArgs, TypeOK
<1>13. NoGhosts'
  BY <1>1, <1>2, <1>3, <1>4, <1>5 DEF NoGhosts, WorkerFrame
<1>14. Counted'
  BY <1>1, <1>2, <1>7, <1>10 DEF Counted, WorkerFrame, OwnKey, TypeOK
<1> QED
  BY <1>8, <1>9, <1>11, <1>12, <1>13, <1>14

\* The worker takes a request for an object that is gone, and its status is
\* forgotten; nobody else with a key of its own loses one.
LEMMA BeginForgetStep ==
    ASSUME ProcessInv, NEW k \in Kinds, NEW n \in Names, BeginPass(<<k, n>>), <<k, n>> \notin objects
    PROVE  ProcessInv'
<1> USE DEF ProcessInv
<1> DEFINE o == <<k, n>>
<1>1. /\ o \in queue /\ worker[k] = Idle /\ queue' = queue \ {o} /\ o \in Objects /\ o \in created
      /\ worker' = [worker EXCEPT ![k] = [pc |-> "forget", name |-> n, ok |-> FALSE]]
      /\ statusByObject' = [statusByObject EXCEPT ![objKey(o)] = "none"]
      /\ UNCHANGED <<operand, resources>>
  BY DEF BeginPass, ForgetTracked, TypeOK, Objects, clusterVars
<1>2. /\ WorkerFrame(k)
      /\ worker'[k].pc = "forget" /\ worker'[k].name = n
  BY <1>1 DEF BeginPass, WorkerFrame, TypeOK, clusterVars, mainVars, watchVars
<1>3. o[1] = k /\ o[2] = n /\ o \notin objects /\ objKey(o) \in Keys
  BY <1>1, ObjectFacts
<1>4. WorkersOnObjects'
  BY <1>1, <1>2, <1>3, WorkersStep DEF WorkerFrame, o
<1> HIDE DEF o
<1>5. \A p \in Objects : p[1] # k => At(p, {"pass"})' = At(p, {"pass"}) /\ At(p, {"count"})' = At(p, {"count"})
                                  /\ At(p, {"forget"})' = At(p, {"forget"}) /\ worker'[p[1]] = worker[p[1]]
  BY <1>2, ObjectFacts DEF At, WorkerFrame
<1>6. \A p \in Objects : p[1] = k => /\ ~ At(p, {"pass"}) /\ ~ At(p, {"count"}) /\ ~ At(p, {"forget"})
                                     /\ ~ At(p, {"count"})'
  BY <1>1, <1>2, IdleFacts DEF At
<1>7. At(o, {"forget"})'
  BY <1>2, <1>3 DEF At
<1>8. \A p \in objects : ~ Due(p)' => p # o /\ ~ Due(p) /\ (At(p, {"count"})' <=> At(p, {"count"}))
  BY <1>1, <1>3, <1>5, <1>6 DEF Due, TypeOK
<1>9. statusByObject' \in [Keys -> {"none", "ok", "failed"}]
      /\ \A key \in Keys : statusByObject'[key] = IF key = objKey(o) THEN "none" ELSE statusByObject[key]
  BY <1>1, <1>3 DEF TypeOK
<1>10. TypeOK'
  BY <1>1, <1>2, <1>9 DEF TypeOK, WorkerFrame
<1>11. (Up' <=> Up) /\ Up
  BY <1>2 DEF Up, WorkerFrame, BeginPass
<1>12. DownIsEmpty' /\ SettingsFollow'
  BY <1>2, <1>11 DEF WorkerFrame, DownIsEmpty, SettingsFollow, FetchTLSProfile
<1>13. OperandsFollow'
  BY <1>1, <1>2, <1>8, <1>11 DEF OperandsFollow, WorkerFrame, GetPersesArgs, TypeOK
<1>14. NoGhosts'
  <2>1. ASSUME NEW r \in resources'
        PROVE  \E p \in Objects : /\ p[1] = r[1] /\ objKey(p) = r[3]
                                  /\ p \in objects' \cup queue' \/ At(p, {"forget"})'
    BY <1>1, <1>2, <1>5, <1>6, <1>7 DEF NoGhosts, WorkerFrame
  <2>2. ASSUME NEW key \in Keys, statusByObject'[key] # "none"
        PROVE  \E p \in Objects : objKey(p) = key /\ p \in objects' \cup queue'
    BY <1>1, <1>2, <1>9, <2>2 DEF NoGhosts, WorkerFrame
  <2> QED
    BY <2>1, <2>2 DEF NoGhosts
<1>15. Counted'
  <2> SUFFICES ASSUME NEW p \in objects, OwnKey(p), ~ Due(p)'
               PROVE  /\ statusByObject'[objKey(p)] = "ok"
                      /\ ~ At(p, {"count"})' => <<p[1], "synced", objKey(p)>> \in resources
    BY <1>1, <1>2 DEF Counted, WorkerFrame, OwnKey
  <2>1. p # o /\ ~ Due(p) /\ (At(p, {"count"})' <=> At(p, {"count"}))
    BY <1>8
  <2>2. objKey(p) # objKey(o) /\ objKey(p) \in Keys
    BY <1>1, <2>1, OwnKeyFacts, ObjectFacts DEF TypeOK
  <2> QED
    BY <1>9, <1>11, <2>1, <2>2 DEF Counted
<1> QED
  BY <1>4, <1>10, <1>12, <1>13, <1>14, <1>15

\* The metrics forget the object of the worker, too, and with it every kind's
\* entry of that key; an object that was created again meanwhile is requested.
LEMMA EndDeletionStep ==
    ASSUME ProcessInv, NEW k \in Kinds, EndDeletion(k)
    PROVE  ProcessInv'
<1> USE DEF ProcessInv
<1> DEFINE o == <<k, worker[k].name>>
<1>1. /\ worker[k].pc = "forget" /\ o \in created /\ o \in Objects
      /\ worker' = [worker EXCEPT ![k] = Idle]
      /\ resources' = {r \in resources : r[3] # objKey(o)}
      /\ queue' = queue \/ queue' = queue \cup {o}
      /\ UNCHANGED <<operand, statusByObject>>
  BY DEF EndDeletion, ForgetResources, WorkersOnObjects, TypeOK, clusterVars
<1>2. WorkerFrame(k) /\ worker'[k] = Idle
  <2>1. budget' \in [EnvironmentMoves -> Nat]
    BY MoveFacts, SpendType DEF EndDeletion, TypeOK
  <2>2. UNCHANGED <<flags, profile, objects, begun, created, phase, settings, initial, view, watcher>>
    BY DEF EndDeletion, clusterVars, mainVars, watchVars
  <2> QED
    BY <1>1, <2>1, <2>2, WorkerUpdate, IdleFacts DEF WorkerFrame, TypeOK
<1>3. /\ o[1] = k /\ o[2] = worker[k].name /\ queue \subseteq queue' /\ queue' \subseteq created
      /\ o \notin objects \ queue
  BY <1>1 DEF WorkersOnObjects, TypeOK
<1>4. WorkersOnObjects'
  BY <1>1, <1>2, <1>3, IdleFacts, WorkersStep DEF WorkerFrame, o
<1> HIDE DEF o
<1>5. \A p \in Objects : p[1] # k => At(p, {"pass"})' = At(p, {"pass"}) /\ At(p, {"count"})' = At(p, {"count"})
                                  /\ At(p, {"forget"})' = At(p, {"forget"}) /\ worker'[p[1]] = worker[p[1]]
  BY <1>2, ObjectFacts DEF At, WorkerFrame
<1>6. \A p \in Objects : p[1] = k => /\ ~ At(p, {"pass"}) /\ ~ At(p, {"count"})
                                     /\ ~ At(p, {"count"})' /\ (At(p, {"forget"}) => p = o)
  BY <1>1, <1>2, <1>3, IdleFacts, ObjectFacts DEF At
<1>7. \A p \in objects : ~ Due(p)' => p # o /\ ~ Due(p) /\ (At(p, {"count"})' <=> At(p, {"count"}))
  BY <1>1, <1>3, <1>5, <1>6 DEF Due, TypeOK
<1>8. TypeOK'
  <2>1. resources' \subseteq Kinds \X {"synced", "failed"} \X Keys
    BY <1>1 DEF TypeOK
  <2>2. DOMAIN operand' = Names /\ statusByObject' \in [Keys -> {"none", "ok", "failed"}]
    BY <1>1 DEF TypeOK
  <2> QED
    BY <1>2, <1>3, <1>4, <2>1, <2>2, WorkerType
<1>9. (Up' <=> Up) /\ Up
  BY <1>1, <1>2, WorkMeansUp DEF Up, WorkerFrame
<1>10. DownIsEmpty' /\ SettingsFollow'
  BY <1>2, <1>9 DEF WorkerFrame, DownIsEmpty, SettingsFollow, FetchTLSProfile
<1>11. OperandsFollow'
  BY <1>1, <1>2, <1>7, <1>9 DEF OperandsFollow, WorkerFrame, GetPersesArgs, TypeOK
<1>12. NoGhosts'
  <2>1. ASSUME NEW r \in resources'
        PROVE  \E p \in Objects : /\ p[1] = r[1] /\ objKey(p) = r[3]
                                  /\ p \in objects' \cup queue' \/ At(p, {"forget"})'
    BY <1>1, <1>2, <1>3, <1>5, <1>6 DEF NoGhosts, WorkerFrame
  <2>2. ASSUME NEW key \in Keys, statusByObject'[key] # "none"
        PROVE  \E p \in Objects : objKey(p) = key /\ p \in objects' \cup queue'
    BY <1>1, <1>2, <1>3, <2>2 DEF NoGhosts, WorkerFrame
  <2> QED
    BY <2>1, <2>2 DEF NoGhosts
<1>13. Counted'
  <2> SUFFICES ASSUME NEW p \in objects, OwnKey(p), ~ Due(p)'
               PROVE  /\ statusByObject[objKey(p)] = "ok"
                      /\ ~ At(p, {"count"})' => <<p[1], "synced", objKey(p)>> \in resources'
    BY <1>1, <1>2 DEF Counted, WorkerFrame, OwnKey
  <2>1. p # o /\ ~ Due(p) /\ (At(p, {"count"})' <=> At(p, {"count"}))
    BY <1>7
  <2>2. objKey(p) # objKey(o)
    BY <1>1, <2>1, OwnKeyFacts DEF TypeOK
  <2> QED
    BY <1>1, <1>9, <2>1, <2>2 DEF Counted
<1> QED
  BY <1>4, <1>8, <1>10, <1>11, <1>12, <1>13

\* The tracker hears how the pass went, and the pods of a Perses that is still
\* there have the arguments of this process if it went well.
LEMMA ReportStatusStep ==
    ASSUME ProcessInv, NEW k \in Kinds, ReportStatus(k)
    PROVE  ProcessInv'
<1> USE DEF ProcessInv
<1> DEFINE o == <<k, worker[k].name>>
<1>1. PICK ok \in BOOLEAN :
        /\ IF ok THEN UNCHANGED budget ELSE Spend("fault")
        /\ worker' = [worker EXCEPT ![k].pc = "count", ![k].ok = ok]
        /\ SetStatus(objKey(o), ok)
        /\ IF ok /\ k = "Perses" /\ o \in objects
              THEN PersesPassed(o)
              ELSE UNCHANGED <<begun, operand, queue>>
  BY DEF ReportStatus
<1>2. /\ worker[k].pc = "pass" /\ o \in created /\ o \in Objects /\ o \in objects \cup queue
      /\ UNCHANGED resources /\ queue \subseteq queue' /\ queue' \subseteq queue \cup {o}
      /\ operand' = operand \/ operand' = [operand EXCEPT ![o[2]] = GetPersesArgs(settings)]
      /\ (ok /\ k = "Perses" /\ o \in objects /\ o \notin queue' =>
            operand' = [operand EXCEPT ![o[2]] = GetPersesArgs(settings)])
      /\ operand' # operand => k = "Perses"
  BY <1>1 DEF ReportStatus, WorkersOnObjects, TypeOK, PersesPassed
<1>begun. begun' \subseteq Names
  <2>1. o[2] \in Names
    BY <1>2, ObjectFacts
  <2> QED
    BY <1>1, <2>1 DEF PersesPassed, TypeOK
<1>3. /\ WorkerFrame(k)
      /\ worker'[k].pc = "count" /\ worker'[k].name = worker[k].name /\ worker'[k].ok = ok
  <2>1. budget' \in [EnvironmentMoves -> Nat]
    BY <1>1, MoveFacts, SpendType DEF TypeOK
  <2>2. UNCHANGED <<flags, profile, objects, created, phase, settings, initial, view, watcher>>
    BY DEF ReportStatus, mainVars, watchVars
  <2>3. /\ worker' \in [Kinds -> [pc : {"idle", "pass", "forget", "count"},
                                 name : Names \cup {Missing}, ok : BOOLEAN]]
        /\ \A j \in Kinds \ {k} : worker'[j] = worker[j]
        /\ worker'[k].pc = "count" /\ worker'[k].name = worker[k].name /\ worker'[k].ok = ok
    BY <1>1 DEF TypeOK
  <2> QED
    BY <1>begun, <2>1, <2>2, <2>3 DEF WorkerFrame
<1>4. o[1] = k /\ o[2] = worker[k].name /\ objKey(o) \in Keys
  BY <1>2, ObjectFacts
<1>5. WorkersOnObjects'
  BY <1>2, <1>3, WorkersStep DEF WorkerFrame, o
<1> HIDE DEF o
<1>6. \A p \in Objects : p[1] # k => At(p, {"pass"})' = At(p, {"pass"}) /\ At(p, {"count"})' = At(p, {"count"})
                                  /\ At(p, {"forget"})' = At(p, {"forget"}) /\ worker'[p[1]] = worker[p[1]]
  BY <1>3, ObjectFacts DEF At, WorkerFrame
<1>7. \A p \in Objects : p[1] = k => /\ ~ At(p, {"forget"}) /\ ~ At(p, {"count"})
                                     /\ At(p, {"pass"}) => p = o
                                     /\ At(p, {"count"})' <=> p = o
  BY <1>2, <1>3, <1>4, ObjectFacts DEF At
<1>8. \A p \in objects : ~ Due(p)' =>
        IF p = o THEN ok /\ o \notin queue' /\ At(p, {"count"})'
        ELSE ~ Due(p) /\ (At(p, {"count"})' <=> At(p, {"count"}))
  BY <1>2, <1>3, <1>4, <1>6, <1>7 DEF Due, TypeOK
<1>9. statusByObject' \in [Keys -> {"none", "ok", "failed"}]
      /\ \A key \in Keys : statusByObject'[key] =
            IF key = objKey(o) THEN (IF ok THEN "ok" ELSE "failed") ELSE statusByObject[key]
  BY <1>1, <1>4 DEF TypeOK, SetStatus
<1>10. TypeOK'
  <2>1. DOMAIN operand' = Names
    BY <1>2 DEF TypeOK
  <2> QED
    BY <1>2, <1>3, <1>9, <2>1 DEF TypeOK, WorkerFrame
<1>11. (Up' <=> Up) /\ Up
  BY <1>2, <1>3, WorkMeansUp DEF Up, WorkerFrame
<1>12. DownIsEmpty' /\ SettingsFollow'
  BY <1>3, <1>11 DEF WorkerFrame, DownIsEmpty, SettingsFollow, FetchTLSProfile
<1>13. OperandsFollow'
  <2> SUFFICES ASSUME NEW n \in Names, <<"Perses", n>> \in objects, ~ Due(<<"Perses", n>>)'
               PROVE  operand'[n] = GetPersesArgs(settings)
    BY <1>3 DEF OperandsFollow, WorkerFrame, GetPersesArgs
  <2>1. CASE <<"Perses", n>> = o
    <3>1. ok /\ k = "Perses" /\ o \in objects /\ o[2] = n /\ o \notin queue'
      BY <1>4, <1>8, <2>1
    <3> QED
      BY <1>2, <3>1 DEF TypeOK
  <2>2. CASE <<"Perses", n>> # o
    <3>1. ~ Due(<<"Perses", n>>)
      BY <1>8, <2>2
    <3>2. operand'[n] = operand[n]
      BY <1>2, <1>4, <2>2, ObjectFacts DEF TypeOK
    <3> QED
      BY <1>11, <3>1, <3>2 DEF OperandsFollow
  <2> QED
    BY <2>1, <2>2
<1>14. NoGhosts'
  <2>1. ASSUME NEW r \in resources'
        PROVE  \E p \in Objects : /\ p[1] = r[1] /\ objKey(p) = r[3]
                                  /\ p \in objects' \cup queue' \/ At(p, {"forget"})'
    BY <1>2, <1>3, <1>6, <1>7 DEF NoGhosts, WorkerFrame
  <2>2. ASSUME NEW key \in Keys, statusByObject'[key] # "none"
        PROVE  \E p \in Objects : objKey(p) = key /\ p \in objects' \cup queue'
    BY <1>2, <1>3, <1>9, <2>2 DEF NoGhosts, WorkerFrame
  <2> QED
    BY <2>1, <2>2 DEF NoGhosts
<1>15. Counted'
  <2> SUFFICES ASSUME NEW p \in objects, OwnKey(p), ~ Due(p)'
               PROVE  /\ statusByObject'[objKey(p)] = "ok"
                      /\ ~ At(p, {"count"})' => <<p[1], "synced", objKey(p)>> \in resources
    BY <1>2, <1>3 DEF Counted, WorkerFrame, OwnKey
  <2>1. CASE p = o
    BY <1>4, <1>8, <1>9, <2>1
  <2>2. CASE p # o
    <3>1. ~ Due(p) /\ (At(p, {"count"})' <=> At(p, {"count"}))
      BY <1>8, <2>2
    <3>2. objKey(p) # objKey(o) /\ objKey(p) \in Keys
      BY <1>2, <2>2, OwnKeyFacts, ObjectFacts DEF TypeOK
    <3> QED
      BY <1>9, <1>11, <3>1, <3>2 DEF Counted
  <2> QED
    BY <2>1, <2>2
<1> QED
  BY <1>5, <1>10, <1>12, <1>13, <1>14, <1>15

\* The metrics hear of it, and a failed pass is requested again.
LEMMA ReportResourcesStep ==
    ASSUME ProcessInv, NEW k \in Kinds, ReportResources(k)
    PROVE  ProcessInv'
<1> USE DEF ProcessInv
<1> DEFINE o == <<k, worker[k].name>>
<1> DEFINE ok == worker[k].ok
<1>1. /\ worker[k].pc = "count" /\ o \in created /\ o \in Objects /\ o \in objects \cup queue
      /\ worker' = [worker EXCEPT ![k] = Idle]
      /\ resources' = resources \cup {<<k, IF ok THEN "synced" ELSE "failed", objKey(o)>>}
      /\ queue' = IF ok THEN queue ELSE queue \cup {o}
      /\ UNCHANGED <<operand, statusByObject>>
  BY DEF ReportResources, setResources, WorkersOnObjects, TypeOK, clusterVars
<1>2. WorkerFrame(k) /\ worker'[k] = Idle
  <2>1. /\ UNCHANGED <<flags, profile, objects, begun, created, phase, settings, initial, view, watcher>>
        /\ UNCHANGED budget
    BY DEF ReportResources, clusterVars, mainVars, watchVars
  <2> QED
    BY <1>1, <2>1, WorkerUpdate, IdleFacts DEF WorkerFrame, TypeOK
<1>3. /\ o[1] = k /\ o[2] = worker[k].name /\ queue \subseteq queue' /\ queue' \subseteq created
      /\ objKey(o) \in Keys /\ (ok \/ o \in queue')
  BY <1>1, ObjectFacts DEF TypeOK
<1>4. WorkersOnObjects'
  BY <1>1, <1>2, <1>3, IdleFacts, WorkersStep DEF WorkerFrame, o
<1> HIDE DEF o
<1>5. \A p \in Objects : p[1] # k => At(p, {"pass"})' = At(p, {"pass"}) /\ At(p, {"count"})' = At(p, {"count"})
                                  /\ At(p, {"forget"})' = At(p, {"forget"}) /\ worker'[p[1]] = worker[p[1]]
  BY <1>2, ObjectFacts DEF At, WorkerFrame
<1>6. \A p \in Objects : p[1] = k => /\ ~ At(p, {"forget"}) /\ ~ At(p, {"pass"})
                                     /\ At(p, {"count"}) <=> p = o
                                     /\ ~ At(p, {"count"})'
  BY <1>1, <1>2, <1>3, IdleFacts, ObjectFacts DEF At
<1>7. \A p \in objects : ~ Due(p)' =>
        /\ ~ Due(p)
        /\ IF p = o THEN ok ELSE (At(p, {"count"})' <=> At(p, {"count"}))
  BY <1>1, <1>3, <1>5, <1>6 DEF Due, TypeOK
<1>8. TypeOK'
  <2>1. PICK state \in {"synced", "failed"} : resources' = resources \cup {<<k, state, objKey(o)>>}
    BY <1>1
  <2>2. <<k, state, objKey(o)>> \in Kinds \X {"synced", "failed"} \X Keys
    BY <1>3
  <2>3. resources' \subseteq Kinds \X {"synced", "failed"} \X Keys
    BY <2>1, <2>2 DEF TypeOK
  <2>4. DOMAIN operand' = Names /\ statusByObject' \in [Keys -> {"none", "ok", "failed"}]
    BY <1>1 DEF TypeOK
  <2> QED
    BY <1>2, <1>3, <1>4, <2>3, <2>4, WorkerType
<1>9. (Up' <=> Up) /\ Up
  BY <1>1, <1>2, WorkMeansUp DEF Up, WorkerFrame
<1>10. DownIsEmpty' /\ SettingsFollow'
  BY <1>2, <1>9 DEF WorkerFrame, DownIsEmpty, SettingsFollow, FetchTLSProfile
<1>11. OperandsFollow'
  BY <1>1, <1>2, <1>7, <1>9 DEF OperandsFollow, WorkerFrame, GetPersesArgs, TypeOK
<1>12. NoGhosts'
  <2>1. ASSUME NEW r \in resources
        PROVE  \E p \in Objects : /\ p[1] = r[1] /\ objKey(p) = r[3]
                                  /\ p \in objects' \cup queue' \/ At(p, {"forget"})'
    BY <1>1, <1>2, <1>3, <1>5, <1>6 DEF NoGhosts, WorkerFrame
  <2>2. ASSUME NEW r \in resources' \ resources
        PROVE  \E p \in Objects : /\ p[1] = r[1] /\ objKey(p) = r[3]
                                  /\ p \in objects' \cup queue' \/ At(p, {"forget"})'
    <3>1. r[1] = k /\ r[3] = objKey(o)
      BY <1>1
    <3>2. o \in Objects /\ o \in objects' \cup queue'
      BY <1>1, <1>2, <1>3 DEF WorkerFrame
    <3> QED
      BY <1>3, <3>1, <3>2
  <2>3. ASSUME NEW key \in Keys, statusByObject'[key] # "none"
        PROVE  \E p \in Objects : objKey(p) = key /\ p \in objects' \cup queue'
    BY <1>1, <1>2, <1>3, <2>3 DEF NoGhosts, WorkerFrame
  <2> QED
    BY <2>1, <2>2, <2>3 DEF NoGhosts
<1>13. Counted'
  <2> SUFFICES ASSUME NEW p \in objects, OwnKey(p), ~ Due(p)'
               PROVE  /\ statusByObject[objKey(p)] = "ok"
                      /\ ~ At(p, {"count"})' => <<p[1], "synced", objKey(p)>> \in resources'
    BY <1>1, <1>2 DEF Counted, WorkerFrame, OwnKey
  <2>1. CASE p = o
    BY <1>1, <1>3, <1>7, <1>9, <2>1 DEF Counted
  <2>2. CASE p # o
    BY <1>1, <1>7, <1>9, <2>2 DEF Counted
  <2> QED
    BY <2>1, <2>2
<1> QED
  BY <1>4, <1>8, <1>10, <1>11, <1>12, <1>13

-----------------------------------------------------------------------------
(***************************************************************************)
(* The theorems.                                                           *)
(***************************************************************************)

\* The invariant holds before the process is started for the first time.
LEMMA ProcessInit == Init => ProcessInv
<1> SUFFICES ASSUME Init PROVE ProcessInv
  OBVIOUS
<1>1. TypeOK
  BY SettingsType, IdleFacts, BudgetsAssumption DEF Init, TypeOK
<1>2. ~ Up /\ \A k \in Kinds : worker[k] = Idle
  BY DEF Init, Up
<1>3. WorkersOnObjects /\ DownIsEmpty
  BY <1>2, IdleFacts DEF Init, WorkersOnObjects, DownIsEmpty
<1>4. SettingsFollow /\ OperandsFollow /\ NoGhosts /\ Counted
  BY <1>2 DEF Init, SettingsFollow, OperandsFollow, NoGhosts, Counted
<1> QED
  BY <1>1, <1>3, <1>4 DEF ProcessInv

\* Every step of the process, its workers and its environment preserves it.
LEMMA ProcessNext == ProcessInv /\ [Next]_vars => ProcessInv'
<1> SUFFICES ASSUME ProcessInv, [Next]_vars PROVE ProcessInv'
  OBVIOUS
<1>1. CASE EnvironmentStep
  BY <1>1, CreateStep, DeleteStep, ProfileSteps DEF EnvironmentStep
<1>2. CASE MainStep
  BY <1>2, StartSteps, StartManagerStep, EndSteps DEF MainStep
<1>3. CASE Crash
  BY <1>3, EndSteps
<1>4. CASE ObserveProfile \/ CheckProfile
  BY <1>4, ProfileSteps
<1>5. ASSUME NEW k \in Kinds, WorkerStep(k)
      PROVE  ProcessInv'
  BY <1>5, BeginStep, BeginForgetStep, EndDeletionStep, ReportStatusStep, ReportResourcesStep DEF WorkerStep
<1>6. CASE UNCHANGED vars
  <2>1. UNCHANGED <<flags, profile, objects, begun, operand, created, phase, settings, initial, view, watcher,
                    queue, worker, statusByObject, resources, budget>>
    BY <1>6 DEF vars, clusterVars, mainVars, watchVars, workVars, metricVars
  <2>2. TypeOK' /\ SettingsFollow' /\ (Up' <=> Up)
    BY <2>1 DEF ProcessInv, TypeOK, SettingsFollow, FetchTLSProfile, Up
  <2>3. UNCHANGED workVars
    BY <2>1 DEF workVars, metricVars
  <2> QED
    BY <2>1, <2>2, <2>3, SteadyStep DEF ProcessInv
<1> QED
  BY <1>1, <1>2, <1>3, <1>4, <1>5, <1>6 DEF Next

\* The invariant that ties settings, pods, tracker and metrics to the requests
\* and passes that are under way.
THEOREM ProcessInvariant == Spec => []ProcessInv
  BY ProcessInit, ProcessNext, PTL DEF Spec

\* Type correctness, with the one thing main() promises of its settings: it
\* goes on with none that do not parse.
THEOREM TypeCorrect == Spec => []TypeOK
<1>1. ProcessInv => TypeOK
  BY DEF ProcessInv
<1> QED
  BY <1>1, ProcessInvariant, PTL

\* A process at rest has the settings of the cluster's profile, or of its flags,
\* and so have the pods it configures: the comparison with the profile main()
\* read makes up for every change that came before or after the watch began.
THEOREM FollowedWhenSettled == Spec => []SettledMeansFollowed
<1>1. ProcessInv => SettledMeansFollowed
  <2> SUFFICES ASSUME ProcessInv, Quiet PROVE SettledMeansFollowed
    BY DEF SettledMeansFollowed
  <2>1. /\ phase = "running" /\ Up /\ queue = {} /\ (\A k \in Kinds : worker[k].pc = "idle")
        /\ flags.clusterProfile => view = profile /\ ~ watcher
    BY IdleFacts DEF Quiet, Up
  <2>2. settings = Wanted
    BY <2>1 DEF ProcessInv, SettingsFollow, Wanted, FetchTLSProfile
  <2>3. ASSUME NEW n \in Names, <<"Perses", n>> \in objects
        PROVE  operand[n] = GetPersesArgs(settings)
    <3>1. <<"Perses", n>> \in Objects
      BY <2>3 DEF ProcessInv, TypeOK
    <3>2. ~ Due(<<"Perses", n>>)
      BY <2>1, <3>1, ObjectFacts DEF Due, At
    <3> QED
      BY <2>1, <2>3, <3>2 DEF ProcessInv, OperandsFollow
  <2> QED
    BY <2>2, <2>3 DEF SettledMeansFollowed
<1> QED
  BY <1>1, ProcessInvariant, PTL

\* At rest neither the gauge nor the tracker knows of an object that is gone.
THEOREM NoGhostsWhenSettled == Spec => []SettledMeansNoGhosts
<1>1. ProcessInv => SettledMeansNoGhosts
  <2> SUFFICES ASSUME ProcessInv, Quiet PROVE SettledMeansNoGhosts
    BY DEF SettledMeansNoGhosts
  <2>1. queue = {} /\ (\A k \in Kinds : worker[k].pc = "idle")
    BY IdleFacts DEF Quiet
  <2>2. \A o \in Objects : ~ At(o, {"forget"})
    BY <2>1, ObjectFacts DEF At
  <2> QED
    BY <2>1, <2>2 DEF ProcessInv, NoGhosts, SettledMeansNoGhosts
<1> QED
  BY <1>1, ProcessInvariant, PTL

\* At rest every object with a key of its own is counted, as a success.
THEOREM CountedWhenSettled == Spec => []SettledMeansCounted
<1>1. ProcessInv => SettledMeansCounted
  <2> SUFFICES ASSUME ProcessInv, Quiet, NEW o \in objects, OwnKey(o)
               PROVE  /\ statusByObject[objKey(o)] = "ok"
                      /\ <<o[1], "synced", objKey(o)>> \in resources
    BY DEF SettledMeansCounted
  <2>1. Up /\ queue = {} /\ (\A k \in Kinds : worker[k].pc = "idle")
    BY IdleFacts DEF Quiet, Up
  <2>2. o \in Objects
    BY DEF ProcessInv, TypeOK
  <2>3. ~ Due(o) /\ ~ At(o, {"count"})
    BY <2>1, <2>2, ObjectFacts DEF Due, At
  <2> QED
    BY <2>1, <2>3 DEF ProcessInv, Counted
<1> QED
  BY <1>1, ProcessInvariant, PTL
=============================================================================
