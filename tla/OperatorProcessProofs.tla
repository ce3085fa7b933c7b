----------------------- MODULE OperatorProcessProofs -----------------------
(***************************************************************************)
(* Leader election keeps the processes apart: OneWorks and CleanExitWaits, *)
(* for any number of processes, servers and queues and any lease that      *)
(* leaves the elector, after it gave up, the time of an answer.            *)
(***************************************************************************)
EXTENDS OperatorProcess, TLAPS

(* The lease runs out for the others only after its holder has given up,   *)
(* also when the answer that made it the holder took AnswerTime.           *)
Slack == GiveUp + AnswerTime < LeaseDuration

LEMMA Durations ==
  /\ LeaseDuration \in Nat /\ RetryPeriod \in Nat /\ RenewDeadline \in Nat /\ GiveUp \in Nat
  /\ AnswerTime \in Nat /\ RetryPeriod \in 0..GiveUp
  BY ProcessAssumption DEF RenewDeadline, GiveUp

-----------------------------------------------------------------------------
(* The inductive invariant                                                 *)

Types == TypeOK /\ server = [p \in Processes |-> server[p]]

(* Where Run is and what its goroutines have got to.                       *)
InStep(p) ==
  /\ elector[p] # "off" => pc[p] \in {"select", "drain", "returned"}
  /\ pc[p] \in {"setup", "poll", "start", "sync", "elect"} => p \in changed /\ call[p] = "none"
  /\ pc[p] \in {"drain", "returned"} => p \in ctx
  /\ elector[p] = "stopped" /\ pc[p] = "select" => p \in lost
  /\ elector[p] = "renew" => seenAge[p] = 0
  /\ p \in starting => elector[p] \in {"renew", "stopped"}
  /\ \A q \in Queues : worker[p][q] # "none" => elector[p] \in {"renew", "stopped"}

(* Whoever is started after the wait group was waited for stops at once.   *)
Drained(p) ==
  /\ exit[p] = "clean" => pc[p] \in {"returned", "exited"}
  /\ pc[p] = "returned" => \A q \in Queues : worker[p][q] \in {"none", "waiting", "stopped"}

(* The process has had the lease and has not been told to stop.            *)
Leads(p) == elector[p] \in {"renew", "stopped"} /\ pc[p] = "select" /\ p \notin ctx

(* The process has the lease, and nobody else has waited longer than age   *)
(* or has an Update under way that would not be refused.                   *)
Owns(p, age) ==
  /\ holder = p
  /\ \A q \in Processes : q # p /\ q \notin changed =>
       call[q] # "sent" /\ (elector[q] = "acquire" => seenAge[q] <= age)

(* So it is from the time an Update takes effect to that of its answer, if *)
(* it is not late, and from then on until the process gives up.            *)
LeaseSound(p) ==
  /\ call[p] = "applied" /\ answerAge[p] <= AnswerTime => Owns(p, answerAge[p])
  /\ Leads(p) /\ p \notin late => Owns(p, renewAge[p] + AnswerTime)

RunInv == Types /\ \A p \in Processes : InStep(p) /\ Drained(p)

ElectionInv == RunInv /\ \A p \in Processes : LeaseSound(p)

-----------------------------------------------------------------------------
(* Types                                                                   *)

LEMMA ReturnTypes ==
  ASSUME Types, NEW p \in Processes, NEW how \in {"clean", "lost", "server", "error"},
         Return(p, how)
  PROVE  Types'
  <1> USE DEF Types, TypeOK, Return
  <1>1. /\ pc' \in [Processes -> {"setup", "poll", "start", "sync", "elect", "select", "drain",
                                  "returned", "exited"}]
        /\ exit' \in [Processes -> {"none", "clean", "lost", "server", "error"}]
        /\ informers' \in [Processes -> {"off", "starting", "started", "synced"}]
        /\ elector' \in [Processes -> {"off", "acquire", "renew", "stopped"}]
    OBVIOUS
  <1>2. /\ ctx' \subseteq Processes /\ lost' \subseteq Processes /\ starting' \subseteq Processes
        /\ queued' \subseteq Processes \X Queues /\ shut' \subseteq Processes \X Queues
        /\ late' \subseteq Processes
    OBVIOUS
  <1>3. worker' \in [Processes -> [Queues -> {"none", "waiting", "get", "busy", "stopped"}]]
    OBVIOUS
  <1>4. /\ \A q \in Processes : server'[q] \in [Servers[q] -> {"off", "up", "down"}]
        /\ server' = [q \in Processes |-> server'[q]]
    OBVIOUS
  <1> QED BY <1>1, <1>2, <1>3, <1>4

(* A step of Run that does not end it.                                     *)
LEMMA MainTypes ==
  ASSUME Types, NEW p \in Processes, UNCHANGED <<leaseVars, electorVars, workVars>>,
         ctx' = ctx \/ ctx' = ctx \cup {p},
         exit' = exit \/ exit' = [exit EXCEPT ![p] = "clean"],
         pc' = pc \/ \E step \in {"poll", "start", "sync", "elect", "select", "drain",
                                     "returned"} : pc' = [pc EXCEPT ![p] = step],
         informers' = informers \/ \E i \in {"starting", "started", "synced"} :
                                     informers' = [informers EXCEPT ![p] = i],
         \/ server' = server
         \/ server' = [server EXCEPT ![p] = [s \in Servers[p] |-> "up"]]
         \/ \E s \in Servers[p] : server' = [server EXCEPT ![p][s] = "down"]
  PROVE  Types'
  <1>0. /\ TypeOK /\ server = [q \in Processes |-> server[q]]
        /\ \A q \in Processes : server[q] \in [Servers[q] -> {"off", "up", "down"}]
    BY DEF Types, TypeOK
  <1>1. pc' \in [Processes -> {"setup", "poll", "start", "sync", "elect", "select", "drain",
                               "returned", "exited"}]
    <2>1. pc \in [Processes -> {"setup", "poll", "start", "sync", "elect", "select", "drain",
                                "returned", "exited"}]
      BY <1>0 DEF TypeOK
    <2> QED BY <2>1
  <1>2. informers' \in [Processes -> {"off", "starting", "started", "synced"}]
    <2>1. informers \in [Processes -> {"off", "starting", "started", "synced"}]
      BY <1>0 DEF TypeOK
    <2> QED BY <2>1
  <1>3. /\ \A q \in Processes : server'[q] \in [Servers[q] -> {"off", "up", "down"}]
        /\ server' = [q \in Processes |-> server'[q]]
    <2>1. CASE server' = server \/ server' = [server EXCEPT ![p] = [s \in Servers[p] |-> "up"]]
      BY <1>0, <2>1
    <2>2. ASSUME NEW s \in Servers[p], server' = [server EXCEPT ![p][s] = "down"]
          PROVE  /\ \A q \in Processes : server'[q] \in [Servers[q] -> {"off", "up", "down"}]
                 /\ server' = [q \in Processes |-> server'[q]]
      BY <1>0, <2>2
    <2> QED BY <2>1, <2>2
  <1>4. exit' \in [Processes -> {"none", "clean", "lost", "server", "error"}]
    <2>1. exit \in [Processes -> {"none", "clean", "lost", "server", "error"}]
      BY <1>0 DEF TypeOK
    <2> QED BY <2>1
  <1> QED BY <1>0, <1>1, <1>2, <1>3, <1>4 DEF Types, TypeOK, leaseVars, electorVars, workVars

(* A step of a worker or of an informer.                                   *)
LEMMA WorkTypes ==
  ASSUME Types, NEW p \in Processes, NEW q \in Queues, UNCHANGED <<mainVars, leaseVars, electorVars>>,
         starting' = starting,
         \/ worker' = worker
         \/ \E w \in {"waiting", "get", "busy", "stopped"} : worker' = [worker EXCEPT ![p][q] = w],
         queued' \in {queued, queued \cup {<<p, q>>}, queued \ {<<p, q>>}},
         shut' = shut \/ shut' = shut \cup {<<p, k>> : k \in Queues}
  PROVE  Types'
  <1>0. TypeOK /\ server = [k \in Processes |-> server[k]]
    BY DEF Types
  <1>1. worker' \in [Processes -> [Queues -> {"none", "waiting", "get", "busy", "stopped"}]]
    <2>1. worker \in [Processes -> [Queues -> {"none", "waiting", "get", "busy", "stopped"}]]
      BY <1>0 DEF TypeOK
    <2> QED BY <2>1
  <1>2. queued' \subseteq Processes \X Queues /\ shut' \subseteq Processes \X Queues
    <2>1. queued \subseteq Processes \X Queues /\ shut \subseteq Processes \X Queues
      BY <1>0 DEF TypeOK
    <2> QED BY <2>1
  <1> QED BY <1>0, <1>1, <1>2 DEF Types, TypeOK, mainVars, leaseVars, electorVars

(* A step of the elector.                                                  *)
LEMMA ElectTypes ==
  ASSUME Types, NEW p \in Processes, UNCHANGED mainVars, UNCHANGED <<worker, queued, shut>>,
         starting' \in {starting, starting \cup {p}},
         lost' \in {lost, lost \cup {p}},
         \/ elector' = elector
         \/ \E e \in {"acquire", "renew", "stopped"} : elector' = [elector EXCEPT ![p] = e],
         holder' \in {holder, p},
         changed' \subseteq changed \cup Processes,
         late' \subseteq late \cup {p},
         seenAge' = seenAge \/ seenAge' = [seenAge EXCEPT ![p] = 0],
         renewAge' = renewAge \/ \E age \in {0, RetryPeriod} : renewAge' = [renewAge EXCEPT ![p] = age],
         answerAge' = answerAge \/ answerAge' = [answerAge EXCEPT ![p] = 0],
         call' = call \/ \E c \in {"none", "sent", "applied"} : call' = [call EXCEPT ![p] = c]
  PROVE  Types'
  <1>0. /\ TypeOK /\ server = [k \in Processes |-> server[k]]
        /\ seenAge \in [Processes -> 0..LeaseDuration] /\ renewAge \in [Processes -> 0..GiveUp]
        /\ answerAge \in [Processes -> 0..(AnswerTime + 1)]
        /\ elector \in [Processes -> {"off", "acquire", "renew", "stopped"}]
        /\ call \in [Processes -> {"none", "sent", "applied"}]
        /\ holder \in Processes \cup {Nobody} /\ changed \subseteq Processes /\ late \subseteq Processes
    BY DEF Types, TypeOK
  <1>1. /\ elector' \in [Processes -> {"off", "acquire", "renew", "stopped"}]
        /\ call' \in [Processes -> {"none", "sent", "applied"}]
    BY <1>0
  <1>2. 0 \in 0..LeaseDuration /\ 0 \in 0..GiveUp /\ RetryPeriod \in 0..GiveUp /\ 0 \in 0..(AnswerTime + 1)
    BY Durations
  <1>3. /\ seenAge' \in [Processes -> 0..LeaseDuration] /\ renewAge' \in [Processes -> 0..GiveUp]
        /\ answerAge' \in [Processes -> 0..(AnswerTime + 1)]
        /\ holder' \in Processes \cup {Nobody} /\ changed' \subseteq Processes /\ late' \subseteq Processes
    BY <1>0, <1>2
  <1>4. starting' \subseteq Processes /\ lost' \subseteq Processes
    BY <1>0 DEF TypeOK
  <1> QED BY <1>0, <1>1, <1>3, <1>4 DEF Types, TypeOK, mainVars

LEMMA OlderType ==
  ASSUME NEW limit \in Nat, NEW counts, NEW age \in [Processes -> 0..limit]
  PROVE  Older(age, limit, counts) \in [Processes -> 0..limit]
  BY DEF Older

LEMMA TypesStep ==
  ASSUME Types, [Next]_vars
  PROVE  Types'
  <1>1. ASSUME NEW p \in Processes, Run(p) \/ testReadFromPresto(p) PROVE Types'
    <2>1. CASE \E how \in {"clean", "lost", "server", "error"} : Return(p, how)
      BY <2>1, ReturnTypes
    <2>2. CASE ~\E how \in {"clean", "lost", "server", "error"} : Return(p, how)
      <3>1. CASE startElection(p)
        <4>1. /\ pc' = [pc EXCEPT ![p] = "select"] /\ elector' = [elector EXCEPT ![p] = "acquire"]
              /\ UNCHANGED <<exit, ctx, informers, server, lost, leaseVars, workVars>>
          BY <2>2, <3>1 DEF startElection, Goto
        <4> QED BY <4>1 DEF Types, TypeOK, leaseVars, workVars
      <3>2. CASE setup(p) \/ startInformers(p)
        BY <2>2, <3>2, MainTypes DEF setup, startInformers, Goto
      <3>3. CASE waitForCacheSync(p) \/ selectDone(p) \/ testReadFromPresto(p)
        BY <2>2, <3>3, MainTypes DEF waitForCacheSync, selectDone, testReadFromPresto, Goto
      <3>4. CASE waitGroup(p)
        BY <3>4, MainTypes DEF waitGroup
      <3> QED BY <1>1, <2>2, <3>1, <3>2, <3>3, <3>4
              DEF Run, pollCancelled, selectLost, selectServer, endProcess
    <2> QED BY <2>1, <2>2
  <1>2. ASSUME NEW p \in Processes, factoryStart(p) \/ hasSynced(p) \/ stopSignal(p) PROVE Types'
    BY <1>2, MainTypes DEF factoryStart, hasSynced, stopSignal
  <1>3. ASSUME NEW p \in Processes, NEW s \in Servers[p], stopServer(p, s) \/ serverFails(p, s)
        PROVE  Types'
    BY <1>3, MainTypes DEF stopServer, serverFails
  <1>4. ASSUME NEW p \in Processes,
               Elect(p) \/ applyUpdate(p) \/ acquire(p) \/ renew(p) \/ updateFails(p)
        PROVE  Types'
    <2>1. CASE observe(p) \/ tryAcquireOrRenew(p)
      BY <2>1, ElectTypes DEF observe, tryAcquireOrRenew, electorVars, workVars
    <2>2. CASE applyUpdate(p)
      BY <2>2, ElectTypes DEF applyUpdate, electorVars, workVars
    <2>3. CASE acquire(p)
      BY <2>3, ElectTypes DEF acquire, Answered
    <2>4. CASE renew(p)
      BY <2>4, ElectTypes DEF renew, Answered, electorVars, workVars
    <2>5. CASE updateFails(p)
      BY <2>5, ElectTypes DEF updateFails, electorVars, workVars
    <2>6. CASE stopLeading(p)
      BY <2>6, ElectTypes DEF stopLeading, leaseVars, workVars
    <2> QED BY <1>4, <2>1, <2>2, <2>3, <2>4, <2>5, <2>6 DEF Elect
  <1>5. ASSUME NEW p \in Processes, NEW q \in Queues, Work(p, q) \/ enqueue(p, q) PROVE Types'
    <2>1. CASE startWorker(p, q) \/ runWorker(p, q)
      BY <2>1, WorkTypes DEF startWorker, runWorker
    <2>2. CASE processResource(p, q)
      BY <2>2, WorkTypes DEF processResource
    <2>3. CASE runHandler(p, q)
      BY <2>3, WorkTypes DEF runHandler
    <2>4. CASE enqueue(p, q)
      BY <2>4, WorkTypes DEF enqueue
    <2> QED BY <1>5, <2>1, <2>2, <2>3, <2>4 DEF Work
  <1>6. ASSUME NEW p \in Processes, shutdownQueues(p) PROVE Types'
    <2>1. PICK q \in Queues : TRUE
      BY <1>6 DEF shutdownQueues
    <2> QED BY <1>6, <2>1, WorkTypes DEF shutdownQueues
  <1>7. ASSUME NEW p \in Processes, restart(p) PROVE Types'
    BY <1>7 DEF restart, electorVars, workVars, Types, TypeOK
  <1>8. CASE tick
    <2>1. /\ seenAge' \in [Processes -> 0..LeaseDuration] /\ renewAge' \in [Processes -> 0..GiveUp]
          /\ answerAge' \in [Processes -> 0..(AnswerTime + 1)]
      <3>1. AnswerTime + 1 \in Nat
        BY Durations
      <3> QED BY <1>8, <3>1, Durations, OlderType DEF tick, Types, TypeOK
    <2> QED BY <1>8, <2>1 DEF tick, mainVars, electorVars, workVars, Types, TypeOK
  <1>9. CASE UNCHANGED vars
    BY <1>9 DEF vars, mainVars, leaseVars, electorVars, workVars, Types, TypeOK
  <1> QED BY <1>1, <1>2, <1>3, <1>4, <1>5, <1>6, <1>7, <1>8, <1>9 DEF Next

-----------------------------------------------------------------------------
(* Run and its goroutines stay in step                                     *)

LEMMA InStepStep ==
  ASSUME Types, \A p \in Processes : InStep(p), [Next]_vars, NEW k \in Processes
  PROVE  InStep(k)'
  <1> USE DEF InStep, mainVars, leaseVars, electorVars, workVars
  <1>0. /\ InStep(k) /\ pc[k] \in {"setup", "poll", "start", "sync", "elect", "select", "drain",
                                   "returned", "exited"}
        /\ elector[k] \in {"off", "acquire", "renew", "stopped"}
        /\ pc = [i \in Processes |-> pc[i]] /\ elector = [i \in Processes |-> elector[i]]
        /\ seenAge = [i \in Processes |-> seenAge[i]] /\ call = [i \in Processes |-> call[i]]
        /\ worker \in [Processes -> [Queues -> {"none", "waiting", "get", "busy", "stopped"}]]
    BY DEF Types, TypeOK
  <1>r. ASSUME NEW p \in Processes, NEW how, Return(p, how) PROVE InStep(k)'
    <2>1. CASE k = p
      BY <1>0, <1>r, <2>1 DEF Return
    <2>2. CASE k # p
      BY <1>0, <1>r, <2>2 DEF Return
    <2> QED BY <2>1, <2>2
  <1>1. ASSUME NEW p \in Processes, Run(p) \/ testReadFromPresto(p) PROVE InStep(k)'
    <2>1. CASE \E how : Return(p, how)
      BY <1>r, <2>1
    <2>2. CASE ~\E how : Return(p, how)
      <3>1. CASE startElection(p)
        BY <1>0, <2>2, <3>1 DEF startElection, Goto
      <3>2. CASE setup(p) \/ startInformers(p)
        BY <1>0, <2>2, <3>2 DEF setup, startInformers, Goto
      <3>3. CASE waitForCacheSync(p) \/ selectDone(p) \/ testReadFromPresto(p)
        BY <1>0, <2>2, <3>3 DEF waitForCacheSync, selectDone, testReadFromPresto, Goto
      <3>4. CASE waitGroup(p)
        BY <1>0, <3>4 DEF waitGroup
      <3> QED BY <1>1, <2>2, <3>1, <3>2, <3>3, <3>4
              DEF Run, pollCancelled, selectLost, selectServer, endProcess
    <2> QED BY <2>1, <2>2
  <1>2. ASSUME NEW p \in Processes, factoryStart(p) \/ hasSynced(p) \/ stopSignal(p)
        PROVE  InStep(k)'
    BY <1>0, <1>2 DEF factoryStart, hasSynced, stopSignal
  <1>3. ASSUME NEW p \in Processes, NEW s \in Servers[p], stopServer(p, s) \/ serverFails(p, s)
        PROVE  InStep(k)'
    BY <1>0, <1>3 DEF stopServer, serverFails
  <1>4. ASSUME NEW p \in Processes,
               Elect(p) \/ applyUpdate(p) \/ acquire(p) \/ renew(p) \/ updateFails(p)
        PROVE  InStep(k)'
    <2>1. CASE observe(p) \/ tryAcquireOrRenew(p)
      BY <1>0, <2>1 DEF observe, tryAcquireOrRenew, Asks
    <2>2. CASE applyUpdate(p)
      BY <1>0, <2>2 DEF applyUpdate
    <2>3. CASE acquire(p)
      BY <1>0, <2>3 DEF acquire, Answered
    <2>4. CASE renew(p)
      BY <1>0, <2>4 DEF renew, Answered
    <2>5. CASE updateFails(p)
      BY <1>0, <2>5 DEF updateFails
    <2>6. CASE stopLeading(p)
      BY <1>0, <2>6 DEF stopLeading
    <2> QED BY <1>4, <2>1, <2>2, <2>3, <2>4, <2>5, <2>6 DEF Elect
  <1>5. ASSUME NEW p \in Processes, NEW q \in Queues, Work(p, q) \/ enqueue(p, q)
        PROVE  InStep(k)'
    <2>1. CASE startWorker(p, q)
      BY <1>0, <2>1 DEF startWorker
    <2>2. CASE runWorker(p, q)
      BY <1>0, <2>2 DEF runWorker
    <2>3. CASE processResource(p, q)
      BY <1>0, <2>3 DEF processResource
    <2>4. CASE runHandler(p, q)
      BY <1>0, <2>4 DEF runHandler
    <2>5. CASE enqueue(p, q)
      BY <1>0, <2>5 DEF enqueue
    <2> QED BY <1>5, <2>1, <2>2, <2>3, <2>4, <2>5 DEF Work
  <1>6. ASSUME NEW p \in Processes, shutdownQueues(p) \/ restart(p) PROVE InStep(k)'
    BY <1>0, <1>6 DEF shutdownQueues, restart, Ended
  <1>7. CASE tick
    BY <1>0, <1>7 DEF tick, Older, Waits
  <1>8. CASE UNCHANGED vars
    BY <1>0, <1>8 DEF vars
  <1> QED BY <1>1, <1>2, <1>3, <1>4, <1>5, <1>6, <1>7, <1>8 DEF Next

LEMMA DrainedStep ==
  ASSUME Types, \A p \in Processes : InStep(p) /\ Drained(p), [Next]_vars, NEW k \in Processes
  PROVE  Drained(k)'
  <1> USE DEF Drained, mainVars, leaseVars, electorVars, workVars
  <1>0. /\ InStep(k) /\ Drained(k) /\ exit = [i \in Processes |-> exit[i]]
        /\ pc = [i \in Processes |-> pc[i]]
        /\ worker \in [Processes -> [Queues -> {"none", "waiting", "get", "busy", "stopped"}]]
    BY DEF Types, TypeOK
  <1>r. ASSUME NEW p \in Processes, NEW how, Return(p, how) PROVE Drained(k)'
    BY <1>0, <1>r DEF Return
  <1>1. ASSUME NEW p \in Processes, Run(p) \/ testReadFromPresto(p) PROVE Drained(k)'
    <2>1. CASE \E how : Return(p, how)
      BY <1>r, <2>1
    <2>2. CASE ~\E how : Return(p, how)
      <3>1. CASE startElection(p) \/ setup(p) \/ startInformers(p)
        BY <1>0, <2>2, <3>1 DEF startElection, setup, startInformers, Goto
      <3>2. CASE waitForCacheSync(p) \/ selectDone(p) \/ testReadFromPresto(p)
        BY <1>0, <2>2, <3>2 DEF waitForCacheSync, selectDone, testReadFromPresto, Goto
      <3>3. CASE waitGroup(p)
        BY <1>0, <3>3 DEF waitGroup
      <3> QED BY <1>1, <2>2, <3>1, <3>2, <3>3
              DEF Run, pollCancelled, selectLost, selectServer, endProcess
    <2> QED BY <2>1, <2>2
  <1>2. ASSUME NEW p \in Processes,
               \/ factoryStart(p) \/ hasSynced(p) \/ stopSignal(p) \/ shutdownQueues(p) \/ Elect(p)
               \/ applyUpdate(p) \/ acquire(p) \/ renew(p) \/ updateFails(p)
        PROVE  Drained(k)'
    BY <1>0, <1>2 DEF factoryStart, hasSynced, stopSignal, shutdownQueues, Elect, observe,
                      tryAcquireOrRenew, stopLeading, applyUpdate, acquire, renew, updateFails
  <1>3. ASSUME NEW p \in Processes, NEW s \in Servers[p], stopServer(p, s) \/ serverFails(p, s)
        PROVE  Drained(k)'
    BY <1>0, <1>3 DEF stopServer, serverFails
  <1>4. ASSUME NEW p \in Processes, NEW q \in Queues, Work(p, q) \/ enqueue(p, q)
        PROVE  Drained(k)'
    <2>1. CASE startWorker(p, q)
      BY <1>0, <2>1 DEF startWorker
    <2>2. CASE runWorker(p, q)
      BY <1>0, <2>2 DEF runWorker, stopCh, InStep
    <2>3. CASE processResource(p, q) \/ runHandler(p, q) \/ enqueue(p, q)
      BY <1>0, <2>3 DEF processResource, runHandler, enqueue
    <2> QED BY <1>4, <2>1, <2>2, <2>3 DEF Work
  <1>5. ASSUME NEW p \in Processes, restart(p) PROVE Drained(k)'
    BY <1>0, <1>5 DEF restart
  <1>6. CASE tick \/ UNCHANGED vars
    BY <1>0, <1>6 DEF tick, vars
  <1> QED BY <1>1, <1>2, <1>3, <1>4, <1>5, <1>6 DEF Next

-----------------------------------------------------------------------------
(* The lease                                                               *)

(* Who leads, and when the others saw the lease, is as before, or fewer    *)
(* lead and fewer have waited.                                             *)
LEMMA LeaseFrame ==
  ASSUME NEW k \in Processes, LeaseSound(k), holder' = holder, changed \subseteq changed',
         seenAge' = seenAge, renewAge' = renewAge, answerAge' = answerAge,
         \A q \in Processes : call'[q] \in {call[q], "none"},
         Leads(k)' /\ k \notin late' => Leads(k) /\ k \notin late,
         \A q \in Processes : elector'[q] = "acquire" => elector[q] = "acquire" \/ q \in changed
  PROVE  LeaseSound(k)'
  <1>1. call'[k] = "applied" => call[k] = "applied"
    OBVIOUS
  <1>2. \A q \in Processes : call'[q] = "sent" => call[q] = "sent"
    OBVIOUS
  <1> QED BY <1>1, <1>2 DEF LeaseSound, Owns

(* A process that may take the lease finds no other one owning it.         *)
LEMMA AsksAlone ==
  ASSUME Slack, Types, \A i \in Processes : InStep(i) /\ LeaseSound(i), NEW p \in Processes,
         tryAcquireOrRenew(p), NEW k \in Processes, k # p
  PROVE  /\ ~(call[k] = "applied" /\ answerAge[k] <= AnswerTime)
         /\ ~(Leads(k) /\ k \notin late)
  <1>1. CASE holder \in {p, Nobody}
    <2>1. holder # k
      BY <1>1, ProcessAssumption
    <2> QED BY <2>1 DEF LeaseSound, Owns
  <1>2. CASE holder \notin {p, Nobody}
    <2>1. /\ renewAge[k] \in 0..GiveUp /\ seenAge[p] \in 0..LeaseDuration
          /\ answerAge[k] \in 0..(AnswerTime + 1)
      BY DEF Types, TypeOK
    <2>2. p \notin changed /\ seenAge[p] >= LeaseDuration /\ elector[p] \in {"acquire", "renew"}
      BY <1>2 DEF tryAcquireOrRenew, Asks
    <2>3. elector[p] = "acquire"
      <3>1. LeaseDuration > 0
        BY Durations DEF Slack
      <3> QED BY <2>2, <3>1, Durations DEF InStep
    <2>4. ASSUME NEW age \in Int, Owns(k, age), age <= GiveUp + AnswerTime PROVE FALSE
      <3>1. seenAge[p] <= age
        BY <2>2, <2>3, <2>4 DEF Owns
      <3> QED BY <2>1, <2>2, <2>4, <3>1, Durations DEF Slack
    <2>5. ~(call[k] = "applied" /\ answerAge[k] <= AnswerTime)
      <3>1. answerAge[k] \in Int /\ (answerAge[k] <= AnswerTime => answerAge[k] <= GiveUp + AnswerTime)
        BY <2>1, Durations
      <3> QED BY <2>4, <3>1 DEF LeaseSound
    <2>6. ~(Leads(k) /\ k \notin late)
      <3>1. renewAge[k] + AnswerTime \in Int /\ renewAge[k] + AnswerTime <= GiveUp + AnswerTime
        BY <2>1, Durations
      <3> QED BY <2>4, <3>1 DEF LeaseSound
    <2> QED BY <2>5, <2>6
  <1> QED BY <1>1, <1>2

LEMMA LeaseStep ==
  ASSUME Slack, Types, \A i \in Processes : InStep(i) /\ LeaseSound(i), [Next]_vars,
         NEW k \in Processes
  PROVE  LeaseSound(k)'
  <1> USE DEF mainVars, leaseVars, electorVars, workVars
  <1>0. /\ InStep(k) /\ LeaseSound(k) /\ elector[k] \in {"off", "acquire", "renew", "stopped"}
        /\ pc = [i \in Processes |-> pc[i]] /\ elector = [i \in Processes |-> elector[i]]
        /\ seenAge \in [Processes -> 0..LeaseDuration] /\ renewAge \in [Processes -> 0..GiveUp]
        /\ answerAge \in [Processes -> 0..(AnswerTime + 1)]
        /\ call \in [Processes -> {"none", "sent", "applied"}]
        /\ changed \subseteq Processes
    BY DEF Types, TypeOK
  <1>a. /\ answerAge[k] \in Int /\ renewAge[k] + AnswerTime \in Int
        /\ 0 <= answerAge[k] /\ 0 <= renewAge[k] + AnswerTime
        /\ \A q \in Processes : seenAge[q] \in Int
    BY <1>0, Durations
  <1>r. ASSUME NEW p \in Processes, NEW how, Return(p, how) PROVE LeaseSound(k)'
    BY <1>0, <1>r, LeaseFrame DEF Return, Leads
  <1>1. ASSUME NEW p \in Processes, Run(p) \/ testReadFromPresto(p) PROVE LeaseSound(k)'
    <2>1. CASE \E how : Return(p, how)
      BY <1>r, <2>1
    <2>2. CASE ~\E how : Return(p, how)
      <3>1. CASE startElection(p)
        <4>1. /\ pc' = [pc EXCEPT ![p] = "select"] /\ elector' = [elector EXCEPT ![p] = "acquire"]
              /\ UNCHANGED <<ctx, leaseVars>> /\ p \in changed
          BY <2>2, <3>1 DEF startElection, Goto, InStep
        <4> QED BY <1>0, <4>1, LeaseFrame DEF Leads
      <3>2. CASE setup(p) \/ startInformers(p)
        BY <1>0, <2>2, <3>2, LeaseFrame DEF setup, startInformers, Goto, Leads
      <3>3. CASE waitForCacheSync(p) \/ selectDone(p) \/ testReadFromPresto(p)
        BY <1>0, <2>2, <3>3, LeaseFrame
           DEF waitForCacheSync, selectDone, testReadFromPresto, Goto, Leads
      <3>4. CASE waitGroup(p)
        BY <1>0, <3>4, LeaseFrame DEF waitGroup, Leads
      <3> QED BY <1>1, <2>2, <3>1, <3>2, <3>3, <3>4
              DEF Run, pollCancelled, selectLost, selectServer, endProcess
    <2> QED BY <2>1, <2>2
  <1>2. ASSUME NEW p \in Processes, factoryStart(p) \/ hasSynced(p) \/ stopSignal(p)
        PROVE  LeaseSound(k)'
    BY <1>0, <1>2, LeaseFrame DEF factoryStart, hasSynced, stopSignal, Leads
  <1>3. ASSUME NEW p \in Processes, NEW s \in Servers[p], stopServer(p, s) \/ serverFails(p, s)
        PROVE  LeaseSound(k)'
    BY <1>0, <1>3, LeaseFrame DEF stopServer, serverFails, Leads
  <1>4. ASSUME NEW p \in Processes, observe(p) PROVE LeaseSound(k)'
    <2>1. /\ changed' = changed \ {p} /\ seenAge' = [seenAge EXCEPT ![p] = 0] /\ call[p] = "none"
          /\ UNCHANGED <<pc, ctx, elector, holder, renewAge, call, answerAge, late>>
      BY <1>4 DEF observe, Asks
    <2>2. ASSUME NEW age \in Int, 0 <= age, Owns(k, age)
          PROVE  holder' = k /\ \A q \in Processes : q # k /\ q \notin changed' =>
                   call'[q] # "sent" /\ (elector'[q] = "acquire" => seenAge'[q] <= age)
      BY <1>0, <1>a, <2>1, <2>2 DEF Owns
    <2>3. (Leads(k) <=> Leads(k)') /\ k \in Processes
      BY <2>1 DEF Leads
    <2> QED BY <1>0, <1>a, <2>1, <2>2, <2>3 DEF LeaseSound, Owns
  <1>5. ASSUME NEW p \in Processes, tryAcquireOrRenew(p) PROVE LeaseSound(k)'
    <2>1. /\ changed' = changed \ {p} /\ call' = [call EXCEPT ![p] = "sent"]
          /\ UNCHANGED <<pc, ctx, elector, holder, seenAge, renewAge, answerAge, late>>
      BY <1>5 DEF tryAcquireOrRenew
    <2>2. CASE k = p
      BY <1>0, <2>1, <2>2 DEF LeaseSound, Owns, Leads
    <2>3. CASE k # p
      BY <1>0, <1>5, <2>1, <2>3, AsksAlone DEF LeaseSound, Leads
    <2> QED BY <2>2, <2>3
  <1>6. ASSUME NEW p \in Processes, applyUpdate(p) PROVE LeaseSound(k)'
    <2>1. /\ holder' = p /\ changed' = (changed \cup Processes) \ {p}
          /\ call[p] = "sent" /\ p \notin changed
          /\ call' = [call EXCEPT ![p] = "applied"] /\ answerAge' = [answerAge EXCEPT ![p] = 0]
          /\ UNCHANGED <<pc, ctx, elector, renewAge, late>>
      BY <1>6 DEF applyUpdate
    <2>2. CASE k = p
      BY <2>1, <2>2 DEF LeaseSound, Owns
    <2>3. CASE k # p
      BY <1>0, <2>1, <2>3 DEF LeaseSound, Owns, Leads
    <2> QED BY <2>2, <2>3
  <1>7. ASSUME NEW p \in Processes, acquire(p) \/ renew(p) PROVE LeaseSound(k)'
    <2>1. /\ call[p] = "applied" /\ call' = [call EXCEPT ![p] = "none"]
          /\ late' = (IF answerAge[p] > AnswerTime THEN late \cup {p} ELSE late \ {p})
          /\ UNCHANGED <<pc, ctx, holder, changed, answerAge>>
          /\ seenAge' = [seenAge EXCEPT ![p] = 0]
          /\ elector' = elector \/ elector' = [elector EXCEPT ![p] = "renew"]
          /\ renewAge' \in {[renewAge EXCEPT ![p] = 0], [renewAge EXCEPT ![p] = RetryPeriod]}
      BY <1>7 DEF acquire, renew, Answered
    <2>2. ASSUME NEW age \in Int, 0 <= age, Owns(k, age)
          PROVE  holder' = k /\ \A q \in Processes : q # k /\ q \notin changed' =>
                   call'[q] # "sent" /\ (elector'[q] = "acquire" => seenAge'[q] <= age)
      BY <1>0, <1>a, <2>1, <2>2 DEF Owns
    <2>3. CASE k = p
      <3>1. call'[k] # "applied"
        BY <1>0, <2>1, <2>3
      <3>2. ASSUME k \notin late' PROVE Owns(k, answerAge[k]) /\ answerAge[k] <= AnswerTime
        BY <1>0, <2>1, <2>3, <3>2, Durations DEF LeaseSound
      <3>3. renewAge'[k] \in Int /\ 0 <= renewAge'[k]
        BY <1>0, <2>1, <2>3, Durations
      <3>4. ASSUME k \notin late'
            PROVE  Owns(k, renewAge'[k] + AnswerTime) /\ 0 <= renewAge'[k] + AnswerTime
                   /\ renewAge'[k] + AnswerTime \in Int
        <4>1. answerAge[k] <= renewAge'[k] + AnswerTime /\ renewAge'[k] + AnswerTime \in Int
          BY <1>a, <3>2, <3>3, <3>4, Durations
        <4>2. \A q \in Processes : seenAge[q] <= answerAge[k] => seenAge[q] <= renewAge'[k] + AnswerTime
          BY <1>a, <4>1
        <4>3. 0 <= renewAge'[k] + AnswerTime
          BY <1>a, <4>1
        <4> QED BY <3>2, <3>4, <4>1, <4>2, <4>3 DEF Owns
      <3> QED BY <2>2, <3>1, <3>4 DEF LeaseSound, Owns
    <2>4. CASE k # p
      <3>1. /\ call'[k] = call[k] /\ renewAge'[k] = renewAge[k] /\ answerAge'[k] = answerAge[k]
            /\ (Leads(k)' <=> Leads(k)) /\ (k \in late' <=> k \in late)
        BY <1>0, <2>1, <2>4 DEF Leads
      <3> QED BY <1>0, <1>a, <2>2, <3>1 DEF LeaseSound, Owns
    <2> QED BY <2>3, <2>4
  <1>8. ASSUME NEW p \in Processes, updateFails(p) PROVE LeaseSound(k)'
    BY <1>0, <1>8, LeaseFrame DEF updateFails, Leads
  <1>9. ASSUME NEW p \in Processes, stopLeading(p) PROVE LeaseSound(k)'
    BY <1>0, <1>9, LeaseFrame DEF stopLeading, Leads
  <1>10. ASSUME NEW p \in Processes, NEW q \in Queues, Work(p, q) \/ enqueue(p, q)
        PROVE  LeaseSound(k)'
    BY <1>0, <1>10, LeaseFrame DEF Work, startWorker, runWorker, processResource, runHandler,
                                   enqueue, Leads
  <1>11. ASSUME NEW p \in Processes, shutdownQueues(p) \/ restart(p) PROVE LeaseSound(k)'
    BY <1>0, <1>11, LeaseFrame DEF shutdownQueues, restart, Leads
  <1>12. CASE tick
    <2>1. /\ UNCHANGED <<pc, ctx, elector, lost, holder, changed, call, late>> /\ InTime(k)
      BY <1>12 DEF tick
    <2>2. ASSUME NEW q \in Processes, elector[q] = "acquire", q \notin changed
          PROVE  seenAge'[q] <= seenAge[q] + 1 /\ seenAge'[q] \in Int
      BY <1>0, <1>12, <2>2, Durations DEF tick, Older, Waits
    <2>3. ASSUME NEW age \in Int, Owns(k, age)
          PROVE  holder' = k /\ \A q \in Processes : q # k /\ q \notin changed' =>
                   call'[q] # "sent" /\ (elector'[q] = "acquire" => seenAge'[q] <= age + 1)
      BY <1>a, <2>1, <2>2, <2>3 DEF Owns
    <2>4. ASSUME call[k] = "applied", answerAge'[k] <= AnswerTime
          PROVE  Owns(k, answerAge[k]) /\ answerAge'[k] = answerAge[k] + 1
      <3>1. answerAge'[k] = IF answerAge[k] < AnswerTime + 1 THEN answerAge[k] + 1 ELSE AnswerTime + 1
        BY <1>12, <2>4 DEF tick, Older, Unanswered
      <3>2. answerAge'[k] = answerAge[k] + 1 /\ answerAge[k] <= AnswerTime
        BY <1>a, <2>4, <3>1, Durations
      <3> QED BY <1>0, <2>4, <3>2 DEF LeaseSound
    <2>5. ASSUME Leads(k), k \notin late
          PROVE  Owns(k, renewAge[k] + AnswerTime) /\ renewAge'[k] = renewAge[k] + 1
      <3>1. elector[k] = "renew" /\ ~(renewAge[k] >= GiveUp)
        BY <1>0, <2>1, <2>5 DEF Leads, InStep, InTime
      <3>2. renewAge'[k] = renewAge[k] + 1
        BY <1>0, <1>12, <3>1, Durations DEF tick, Older, Leading
      <3> QED BY <1>0, <2>5, <3>2 DEF LeaseSound
    <2>6. Leads(k)' => Leads(k)
      BY <2>1 DEF Leads
    <2>7. call'[k] = "applied" /\ answerAge'[k] <= AnswerTime => Owns(k, answerAge[k])'
      BY <1>a, <2>1, <2>3, <2>4 DEF Owns
    <2>8. Leads(k)' /\ k \notin late' => Owns(k, renewAge[k] + AnswerTime)'
      <3> SUFFICES ASSUME Leads(k), k \notin late PROVE Owns(k, renewAge[k] + AnswerTime)'
        BY <2>1, <2>6
      <3>1. renewAge'[k] + AnswerTime = (renewAge[k] + AnswerTime) + 1
        BY <1>0, <2>5, Durations
      <3> QED BY <1>a, <2>3, <2>5, <3>1 DEF Owns
    <2> QED BY <2>7, <2>8 DEF LeaseSound
  <1>13. CASE UNCHANGED vars
    BY <1>0, <1>13, LeaseFrame DEF vars, Leads
  <1> QED BY <1>1, <1>2, <1>3, <1>4, <1>5, <1>6, <1>7, <1>8, <1>9, <1>10, <1>11, <1>12, <1>13
          DEF Next, Elect

-----------------------------------------------------------------------------
(* The theorems                                                            *)

LEMMA ElectionInit == Init => ElectionInv
  <1> SUFFICES ASSUME Init PROVE ElectionInv
    OBVIOUS
  <1>1. Types
    BY Durations DEF Init, Types, TypeOK
  <1>2. ASSUME NEW p \in Processes PROVE InStep(p) /\ Drained(p) /\ LeaseSound(p)
    BY DEF Init, InStep, Drained, LeaseSound, Leads
  <1> QED BY <1>1, <1>2 DEF ElectionInv, RunInv

LEMMA RunStep == RunInv /\ [Next]_vars => RunInv'
  <1> SUFFICES ASSUME RunInv, [Next]_vars PROVE RunInv'
    OBVIOUS
  <1>1. Types'
    BY TypesStep DEF RunInv
  <1>2. ASSUME NEW p \in Processes PROVE InStep(p)' /\ Drained(p)'
    BY InStepStep, DrainedStep DEF RunInv
  <1> QED BY <1>1, <1>2 DEF RunInv

(***************************************************************************)
(* From the time its Update took effect, if the answer was not late, until *)
(* it gives up, a leader holds the lease, and no other process has seen it *)
(* unchanged for longer than the leader's own time since that answer plus  *)
(* AnswerTime, or has an Update under way that the API server would apply. *)
(***************************************************************************)
THEOREM ElectionInvariant ==
  ASSUME Slack
  PROVE  Spec => []ElectionInv
  <1>1. ElectionInv /\ [Next]_vars => ElectionInv'
    <2> SUFFICES ASSUME ElectionInv, [Next]_vars PROVE ElectionInv'
      OBVIOUS
    <2>1. RunInv'
      BY RunStep DEF ElectionInv
    <2>2. ASSUME NEW p \in Processes PROVE LeaseSound(p)'
      BY LeaseStep DEF ElectionInv, RunInv
    <2> QED BY <2>1, <2>2 DEF ElectionInv
  <1> QED BY <1>1, ElectionInit, PTL DEF Spec

(***************************************************************************)
(* Two processes run handlers at the same time only while one of them has  *)
(* been told to stop and drains its queues, or was last answered late: a   *)
(* leader that cannot renew is gone before the lease it lost runs out for  *)
(* the others.                                                             *)
(***************************************************************************)
THEOREM OneProcessWorks ==
  ASSUME Slack
  PROVE  Spec => []OneWorks
  <1>1. ElectionInv => OneWorks
    <2> SUFFICES ASSUME ElectionInv PROVE OneWorks
      OBVIOUS
    <2>1. ASSUME NEW p \in Processes, Working(p), p \notin ctx \cup late PROVE holder = p
      <3>1. InStep(p) /\ LeaseSound(p)
        BY DEF ElectionInv, RunInv
      <3>2. Leads(p)
        BY <2>1, <3>1 DEF Working, InStep, Leads
      <3> QED BY <2>1, <3>1, <3>2 DEF LeaseSound, Owns
    <2> QED BY <2>1 DEF OneWorks, ElectionInv, RunInv, Types
  <1> QED BY <1>1, ElectionInvariant, PTL

(***************************************************************************)
(* A process that goes away after Run returned nil cuts no sync short: the *)
(* workers that were added have stopped, and one that OnStartedLeading     *)
(* adds later finds its context done before it takes a key.                *)
(***************************************************************************)
THEOREM CleanExitsWait == Spec => CleanExitWaits
  <1>1. Init => RunInv
    BY ElectionInit DEF ElectionInv
  <1>2. RunInv =>
          [\A p \in Processes : exit[p] = "clean" /\ ~Ended(p) /\ Ended(p)' => ~Working(p)]_vars
    BY DEF RunInv, Drained, Ended, Working
  <1> QED BY <1>1, <1>2, RunStep, PTL DEF Spec, CleanExitWaits
=============================================================================
