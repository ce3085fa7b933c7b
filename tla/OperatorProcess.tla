-------------------------- MODULE OperatorProcess --------------------------
(***************************************************************************)
(* The processes of the reporting-operator: Reporting.Run of               *)
(* pkg/operator/operator.go, from its start through leader election to its *)
(* shutdown, with the goroutines it starts.                                *)
(*                                                                         *)
(* The lease is a ConfigMap that the elector of k8s.io/client-go reads and *)
(* updates for the processes; an Update takes effect some time before its  *)
(* answer comes.  Time passes in ticks; what is kept of it is how many     *)
(* have passed since a process renewed the lease, saw it change or changed *)
(* it.  A read that fails is one that is not made.  There is one worker    *)
(* per queue, and "queued" says whether there is a key for it.             *)
(***************************************************************************)
EXTENDS Integers, FiniteSets

CONSTANTS
  Processes, Queues,
  Servers,          \* the HTTP servers of each process
  LeaseDuration, RetryPeriod,
  AnswerTime,       \* the answer to an Update that comes later than this is late
  Signalled,        \* the processes that may be told to stop
  Unreliable,       \* the processes whose servers may fail
  Restarted,        \* the processes that are started again when they ended
  Nobody

(* LeaseDuration / 2 in the configuration of the elector.                  *)
RenewDeadline_whole == LeaseDuration

RenewDeadline == LeaseDuration \div 2

(* After a renewal the elector waits RetryPeriod, and then tries to renew  *)
(* until the deadline has passed.                                          *)
GiveUp == RetryPeriod + RenewDeadline

ASSUME ProcessAssumption ==
  /\ RetryPeriod \in Nat \ {0} /\ LeaseDuration \in Nat /\ AnswerTime \in Nat
  /\ RenewDeadline > RetryPeriod
  /\ Signalled \subseteq Processes /\ Unreliable \subseteq Processes
  /\ Restarted \subseteq Processes /\ Nobody \notin Processes

VARIABLES
  pc,          \* where Run is
  ctx,         \* the processes whose context is cancelled
  informers,   \* what informerFactory has done
  server,      \* the HTTP servers
  elector,     \* the leader elector of each process
  lost,        \* the processes with lostLeaderCtx cancelled
  starting,    \* the processes with OnStartedLeading under way
  worker,      \* the worker of each queue
  queued,      \* the queues that hold a key
  shut,        \* the queues that are shut down
  holder,      \* the lease: who holds it
  changed,     \* who has not seen the latest change of the lease
  seenAge,     \* ticks since a process saw the lease change
  renewAge,    \* ticks since a process knew that it had renewed it
  call,        \* the Update of the lease a process has under way
  answerAge,   \* ticks since that Update took effect
  late,        \* the processes that were last answered late
  exit         \* how Run returned

mainVars == <<pc, exit, ctx, informers, server>>
leaseVars == <<holder, changed, seenAge, renewAge, call, answerAge, late>>
electorVars == <<elector, lost>>
workVars == <<starting, worker, queued, shut>>
vars == <<mainVars, leaseVars, electorVars, workVars>>

Ended(p) == pc[p] = "exited"

(* What the workers' context is: done with that of Run or with the lease.  *)
stopCh(p) == p \in ctx \/ elector[p] = "stopped"

(* srvErrChan, and its buffer.                                             *)
srvErrs(p) == Cardinality({s \in Servers[p] : server[p][s] = "down"})

srvErrChan(p) == Cardinality(Servers[p])

TypeOK ==
  /\ pc \in [Processes -> {"setup", "poll", "start", "sync", "elect", "select", "drain",
                        "returned", "exited"}]
  /\ exit \in [Processes -> {"none", "clean", "lost", "server", "error"}]
  /\ ctx \subseteq Processes /\ lost \subseteq Processes /\ starting \subseteq Processes
  /\ informers \in [Processes -> {"off", "starting", "started", "synced"}]
  /\ \A p \in Processes : server[p] \in [Servers[p] -> {"off", "up", "down"}]
  /\ elector \in [Processes -> {"off", "acquire", "renew", "stopped"}]
  /\ worker \in [Processes -> [Queues -> {"none", "waiting", "get", "busy", "stopped"}]]
  /\ queued \subseteq Processes \X Queues /\ shut \subseteq Processes \X Queues
  /\ holder \in Processes \cup {Nobody} /\ changed \subseteq Processes
  /\ seenAge \in [Processes -> 0..LeaseDuration] /\ renewAge \in [Processes -> 0..GiveUp]
  /\ call \in [Processes -> {"none", "sent", "applied"}]
  /\ answerAge \in [Processes -> 0..(AnswerTime + 1)] /\ late \subseteq Processes

-----------------------------------------------------------------------------
(* Run                                                                     *)

Goto(p, step) == pc' = [pc EXCEPT ![p] = step] /\ UNCHANGED exit

(* The process ends, with all of its goroutines; an Update that it has     *)
(* sent may still take effect.                                             *)
Return(p, how) ==
  /\ pc' = [pc EXCEPT ![p] = "exited"] /\ exit' = [exit EXCEPT ![p] = how]
  /\ ctx' = ctx \ {p} /\ informers' = [informers EXCEPT ![p] = "off"]
  /\ server' = [server EXCEPT ![p] = [s \in Servers[p] |-> "off"]]
  /\ elector' = [elector EXCEPT ![p] = "off"] /\ lost' = lost \ {p}
  /\ starting' = starting \ {p}
  /\ worker' = [worker EXCEPT ![p] = [q \in Queues |-> "none"]]
  /\ queued' = {k \in queued : k[1] # p} /\ shut' = {k \in shut : k[1] # p}
  /\ late' = late \ {p} /\ UNCHANGED <<holder, changed, seenAge, renewAge, call, answerAge>>

(* The clients are set up, which may fail, and the servers started.        *)
setup(p) ==
  /\ pc[p] = "setup"
  /\ \/ /\ Goto(p, "poll")
        /\ server' = [server EXCEPT ![p] = [s \in Servers[p] |-> "up"]]
        /\ UNCHANGED <<ctx, informers, leaseVars, electorVars, workVars>>
     \/ Return(p, "error")

(* PollUntil, until Presto can be read from or the context is done.        *)
testReadFromPresto(p) ==
  /\ pc[p] = "poll" /\ Goto(p, "start")
  /\ UNCHANGED <<ctx, informers, server, leaseVars, electorVars, workVars>>

pollCancelled(p) == pc[p] = "poll" /\ p \in ctx /\ Return(p, "error")

(* informerFactory.Start runs in a goroutine of its own.                   *)
startInformers(p) ==
  /\ pc[p] = "start" /\ Goto(p, "sync")
  /\ informers' = [informers EXCEPT ![p] = "starting"]
  /\ UNCHANGED <<ctx, server, leaseVars, electorVars, workVars>>

(* WaitForCacheSync waits for the informers that are marked as started.    *)
waitForCacheSync(p) ==
  /\ pc[p] = "sync"
  /\ \/ /\ informers[p] \in {"starting", "synced"} /\ Goto(p, "elect")
        /\ UNCHANGED <<ctx, informers, server, leaseVars, electorVars, workVars>>
     \/ informers[p] \in {"started", "synced"} /\ p \in ctx /\ Return(p, "error")

(* The elector is created, which may fail, and its goroutine started.      *)
startElection(p) ==
  /\ pc[p] = "elect"
  /\ \/ /\ Goto(p, "select")
        /\ elector' = [elector EXCEPT ![p] = "acquire"]
        /\ UNCHANGED <<ctx, informers, server, lost, leaseVars, workVars>>
     \/ Return(p, "error")

(* The select picks any of the channels that are ready.                    *)
selectDone(p) ==
  /\ pc[p] = "select" /\ p \in ctx /\ Goto(p, "drain")
  /\ UNCHANGED <<ctx, informers, server, leaseVars, electorVars, workVars>>

selectLost_ignored(p) == pc[p] = "select" /\ p \in lost \cap ctx /\ Return(p, "lost")

selectLost(p) == pc[p] = "select" /\ p \in lost /\ Return(p, "lost")

selectServer_full(p) == pc[p] = "select" /\ srvErrs(p) > 1 /\ Return(p, "server")

selectServer(p) == pc[p] = "select" /\ srvErrs(p) > 0 /\ Return(p, "server")

(* httpServer.Shutdown of each server, in goroutines.                      *)
stopServer(p, s) ==
  /\ pc[p] = "drain" /\ server[p][s] = "up" /\ srvErrs(p) < srvErrChan(p)
  /\ server' = [server EXCEPT ![p][s] = "down"]
  /\ UNCHANGED <<pc, exit, ctx, informers, leaseVars, electorVars, workVars>>

shutdownQueues(p) ==
  /\ pc[p] = "drain" /\ \E q \in Queues : <<p, q>> \notin shut
  /\ shut' = shut \cup {<<p, q>> : q \in Queues}
  /\ UNCHANGED <<mainVars, leaseVars, electorVars, starting, worker, queued>>

(* wg.Wait: the servers, and the workers that have been added.  The other  *)
(* goroutines go on until the process ends.                                *)
waitGroup(p) ==
  /\ pc[p] = "drain" /\ \A s \in Servers[p] : server[p][s] = "down"
  /\ \A q \in Queues : worker[p][q] \in {"none", "stopped"}
  /\ pc' = [pc EXCEPT ![p] = "returned"] /\ exit' = [exit EXCEPT ![p] = "clean"]
  /\ UNCHANGED <<ctx, informers, server, leaseVars, electorVars, workVars>>

endProcess(p) == pc[p] = "returned" /\ Return(p, "clean")

-----------------------------------------------------------------------------
(* The other goroutines of a process                                       *)

factoryStart(p) ==
  /\ informers[p] = "starting" /\ informers' = [informers EXCEPT ![p] = "started"]
  /\ UNCHANGED <<pc, exit, ctx, server, leaseVars, electorVars, workVars>>

hasSynced(p) ==
  /\ informers[p] = "started" /\ p \notin ctx
  /\ informers' = [informers EXCEPT ![p] = "synced"]
  /\ UNCHANGED <<pc, exit, ctx, server, leaseVars, electorVars, workVars>>

(* An informer's event; a queue that is shut down takes no more keys.      *)
enqueue(p, q) ==
  /\ informers[p] \in {"started", "synced"} /\ p \notin ctx
  /\ <<p, q>> \notin queued \cup shut /\ queued' = queued \cup {<<p, q>>}
  /\ UNCHANGED <<mainVars, leaseVars, electorVars, starting, worker, shut>>

serverFails(p, s) ==
  /\ p \in Unreliable /\ server[p][s] = "up" /\ srvErrs(p) < srvErrChan(p)
  /\ server' = [server EXCEPT ![p][s] = "down"]
  /\ UNCHANGED <<pc, exit, ctx, informers, leaseVars, electorVars, workVars>>

(* startWorkers adds a worker to the group and starts its goroutine.       *)
startWorker(p, q) ==
  /\ p \in starting /\ worker[p][q] = "none"
  /\ worker' = [worker EXCEPT ![p][q] = "waiting"]
  /\ UNCHANGED <<mainVars, leaseVars, electorVars, starting, queued, shut>>

runWorker_again(p, q) ==
  /\ worker[p][q] = "waiting"
  /\ worker' = [worker EXCEPT ![p][q] = "get"]
  /\ UNCHANGED <<mainVars, leaseVars, electorVars, starting, queued, shut>>

(* wait.Until: the worker is run unless the workers' context is done.      *)
runWorker(p, q) ==
  /\ worker[p][q] = "waiting"
  /\ worker' = [worker EXCEPT ![p][q] = IF stopCh(p) THEN "stopped" ELSE "get"]
  /\ UNCHANGED <<mainVars, leaseVars, electorVars, starting, queued, shut>>

(* processResource: only a queue that is shut down and empty ends it.      *)
processResource(p, q) ==
  /\ worker[p][q] = "get"
  /\ \/ /\ <<p, q>> \in queued /\ queued' = queued \ {<<p, q>>}
        /\ worker' = [worker EXCEPT ![p][q] = "busy"]
     \/ /\ <<p, q>> \in shut \ queued /\ UNCHANGED queued
        /\ worker' = [worker EXCEPT ![p][q] = "waiting"]
  /\ UNCHANGED <<mainVars, leaseVars, electorVars, starting, shut>>

(* The handler returns, and may have queued keys again (handleErr).        *)
runHandler(p, q) ==
  /\ worker[p][q] = "busy" /\ worker' = [worker EXCEPT ![p][q] = "get"]
  /\ \/ UNCHANGED queued
     \/ <<p, q>> \notin shut /\ queued' = queued \cup {<<p, q>>}
  /\ UNCHANGED <<mainVars, leaseVars, electorVars, starting, shut>>

-----------------------------------------------------------------------------
(* The leader elector: tryAcquireOrRenew gets the lease, which resets the  *)
(* age of what was seen when it has changed, and sends an Update when this *)
(* process holds the lease or it has run out.                              *)

(* renew asks RetryPeriod after it was answered, acquire at any time.      *)
Asks(p) ==
  /\ call[p] = "none" /\ p \notin ctx
  /\ elector[p] = "acquire" \/ (elector[p] = "renew" /\ renewAge[p] >= RetryPeriod)

observe(p) ==
  /\ Asks(p) /\ p \in changed /\ holder \notin {p, Nobody}
  /\ changed' = changed \ {p} /\ seenAge' = [seenAge EXCEPT ![p] = 0]
  /\ UNCHANGED <<mainVars, electorVars, workVars, holder, renewAge, call, answerAge, late>>

tryAcquireOrRenew(p) ==
  /\ Asks(p)
  /\ holder \in {p, Nobody} \/ (p \notin changed /\ seenAge[p] >= LeaseDuration)
  /\ changed' = changed \ {p} /\ call' = [call EXCEPT ![p] = "sent"]
  /\ UNCHANGED <<mainVars, electorVars, workVars, holder, seenAge, renewAge, answerAge, late>>

(* The API server: an Update of what has changed since it was read is      *)
(* refused.                                                                *)
applyUpdate(p) ==
  /\ call[p] = "sent" /\ p \notin changed
  /\ holder' = p /\ changed' = (changed \cup Processes) \ {p}
  /\ call' = [call EXCEPT ![p] = "applied"] /\ answerAge' = [answerAge EXCEPT ![p] = 0]
  /\ UNCHANGED <<mainVars, electorVars, workVars, seenAge, renewAge, late>>

(* The answer arrives; the process does not know how late it is.           *)
Answered(p, age) ==
  /\ call[p] = "applied" /\ call' = [call EXCEPT ![p] = "none"]
  /\ late' = IF answerAge[p] > AnswerTime THEN late \cup {p} ELSE late \ {p}
  /\ renewAge' = [renewAge EXCEPT ![p] = age] /\ seenAge' = [seenAge EXCEPT ![p] = 0]
  /\ UNCHANGED <<holder, changed, answerAge>>

(* OnStartedLeading runs in a goroutine; the first round of renew is not   *)
(* preceded by a wait.                                                     *)
acquire(p) ==
  /\ elector[p] = "acquire" /\ Answered(p, RetryPeriod)
  /\ elector' = [elector EXCEPT ![p] = "renew"] /\ starting' = starting \cup {p}
  /\ UNCHANGED <<mainVars, lost, worker, queued, shut>>

renew(p) ==
  /\ elector[p] = "renew" /\ Answered(p, 0)
  /\ UNCHANGED <<mainVars, electorVars, workVars>>

(* The Update is refused or lost, or its answer is.                        *)
updateFails(p) ==
  /\ elector[p] \in {"acquire", "renew"} /\ call[p] # "none"
  /\ call' = [call EXCEPT ![p] = "none"]
  /\ UNCHANGED <<mainVars, electorVars, workVars, holder, changed, seenAge, renewAge, answerAge, late>>

(* OnStoppedLeading cancels lostLeaderCtx, whatever the reason; renew does *)
(* not wait for the call it has made, acquire does.                        *)
stopLeading(p) ==
  /\ \/ elector[p] = "renew" /\ renewAge[p] >= GiveUp
     \/ elector[p] = "renew" /\ p \in ctx
     \/ elector[p] = "acquire" /\ call[p] = "none" /\ p \in ctx
  /\ elector' = [elector EXCEPT ![p] = "stopped"] /\ lost' = lost \cup {p}
  /\ UNCHANGED <<mainVars, leaseVars, workVars>>

-----------------------------------------------------------------------------
(* The environment                                                         *)

stopSignal(p) ==
  /\ p \in Signalled /\ ~Ended(p) /\ p \notin ctx /\ ctx' = ctx \cup {p}
  /\ UNCHANGED <<pc, exit, informers, server, leaseVars, electorVars, workVars>>

(* The container is started again under the same name.                     *)
restart(p) ==
  /\ p \in Restarted /\ Ended(p)
  /\ pc' = [pc EXCEPT ![p] = "setup"] /\ exit' = [exit EXCEPT ![p] = "none"]
  /\ changed' = changed \cup {p} /\ call' = [call EXCEPT ![p] = "none"]
  /\ UNCHANGED <<ctx, informers, server, electorVars, workVars>>
  /\ UNCHANGED <<holder, seenAge, renewAge, answerAge, late>>

(* A process that has to give up the lease does so, and ends, in time.     *)
InTime(p) ==
  /\ ~(elector[p] = "renew" /\ renewAge[p] >= GiveUp)
  /\ ~(pc[p] = "select" /\ p \in lost)

(* An age matters only to the given processes.                             *)
Older(age, limit, counts) ==
  [p \in Processes |->
     IF p \notin counts THEN 0 ELSE IF age[p] < limit THEN age[p] + 1 ELSE limit]

Waits == {p \in Processes \ changed : elector[p] = "acquire"}
Leading == {p \in Processes : elector[p] = "renew"}
Unanswered == {p \in Processes : call[p] = "applied"}

tick ==
  /\ \A p \in Processes : InTime(p)
  /\ seenAge' = Older(seenAge, LeaseDuration, Waits)
  /\ renewAge' = Older(renewAge, GiveUp, Leading)
  /\ answerAge' = Older(answerAge, AnswerTime + 1, Unanswered)
  /\ UNCHANGED <<mainVars, electorVars, workVars, holder, changed, call, late>>

-----------------------------------------------------------------------------
Init ==
  /\ pc = [p \in Processes |-> "setup"] /\ exit = [p \in Processes |-> "none"]
  /\ ctx = {} /\ lost = {} /\ starting = {} /\ queued = {} /\ shut = {}
  /\ informers = [p \in Processes |-> "off"]
  /\ server = [p \in Processes |-> [s \in Servers[p] |-> "off"]]
  /\ elector = [p \in Processes |-> "off"]
  /\ worker = [p \in Processes |-> [q \in Queues |-> "none"]]
  /\ holder = Nobody /\ changed = Processes
  /\ seenAge = [p \in Processes |-> 0] /\ renewAge = [p \in Processes |-> 0]
  /\ call = [p \in Processes |-> "none"] /\ answerAge = [p \in Processes |-> 0] /\ late = {}

Run(p) ==
  \/ setup(p) \/ pollCancelled(p) \/ startInformers(p) \/ waitForCacheSync(p) \/ startElection(p)
  \/ selectDone(p) \/ selectLost(p) \/ selectServer(p) \/ waitGroup(p) \/ endProcess(p)

Elect(p) == observe(p) \/ tryAcquireOrRenew(p) \/ stopLeading(p)

Work(p, q) == startWorker(p, q) \/ runWorker(p, q) \/ processResource(p, q) \/ runHandler(p, q)

Next ==
  \/ \E p \in Processes :
       \/ Run(p) \/ testReadFromPresto(p) \/ shutdownQueues(p)
       \/ Elect(p) \/ applyUpdate(p) \/ acquire(p) \/ renew(p) \/ updateFails(p)
       \/ factoryStart(p) \/ hasSynced(p) \/ stopSignal(p) \/ restart(p)
       \/ \E q \in Queues : Work(p, q) \/ enqueue(p, q)
       \/ \E s \in Servers[p] : stopServer(p, s) \/ serverFails(p, s)
  \/ tick

Spec == Init /\ [][Next]_vars

(* Goroutines are scheduled, syncs and requests end, time passes.  Updates *)
(* that a process tries again and again do not all fail.                   *)
FairSpec ==
  /\ Spec /\ WF_vars(tick)
  /\ \A p \in Processes :
       /\ WF_vars(Run(p)) /\ WF_vars(Elect(p)) /\ WF_vars(shutdownQueues(p))
       /\ SF_vars(applyUpdate(p)) /\ SF_vars(acquire(p)) /\ WF_vars(updateFails(p))
       /\ WF_vars(factoryStart(p)) /\ WF_vars(hasSynced(p))
       /\ \A q \in Queues : WF_vars(Work(p, q))
       /\ \A s \in Servers[p] : WF_vars(stopServer(p, s))

-----------------------------------------------------------------------------
Working(p) == \E q \in Queues : worker[p][q] = "busy"

(* Two processes are in a sync at the same time only while one of them     *)
(* drains its queues, or was last answered later than AnswerTime: who      *)
(* loses the lease stops before another one works.                         *)
(* All variables keep their types.                                         *)
OneWorks ==
  /\ TypeOK
  /\ \A p, q \in Processes : Working(p) /\ Working(q) /\ p # q => {p, q} \cap (ctx \cup late) # {}

(* A process that goes away after Run returned nil cuts no sync short, not *)
(* that of a worker started after the wait group was waited for either.    *)
CleanExitWaits ==
  [][\A p \in Processes : exit[p] = "clean" /\ ~Ended(p) /\ Ended(p)' => ~Working(p)]_vars

(* A process that is told to stop does, wherever Run and its goroutines    *)
(* are.                                                                    *)
StopsWhenTold == \A p \in Signalled : p \in ctx ~> Ended(p)

(* When a server fails the process ends, unless it waits for Presto.       *)
ServerFailureEnds ==
  \A p \in Unreliable : srvErrs(p) > 0 ~> Ended(p) \/ pc[p] = "poll"

(* Processes that got to the election do not linger without a leader: some *)
(* process has the lease and renews it, or they leave the select.          *)
LeadsOrEnds ==
  (\E p \in Processes : pc[p] = "select") ~>
    (\A p \in Processes : pc[p] # "select") \/ \E p \in Processes : elector[p] = "renew"
=============================================================================
