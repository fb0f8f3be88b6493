----------------------------- MODULE AgentSpawns -----------------------------
(***************************************************************************)
(* The agents' executions on the Cloud Run path of the orchestrator:       *)
(* runtime/orchestrator.py spawns, health-checks, stops, parks and resumes *)
(* them, llm/providers/cloudrun_jobs.py runs them, and the rate-limit      *)
(* tracker of services/gateway/rate_limit_tracker.py keeps in Redis which  *)
(* providers are parked.                                                   *)
(*                                                                         *)
(* A spawn registers a new AgentInstance; `<<a, k>>' is one of agent `a'.  *)
(* An instance has at most one execution, and its container_id is known    *)
(* while it is ACTIVE or STOPPING.  An await is a step boundary of the     *)
(* coroutine that makes it; what is between two awaits is one step.        *)
(***************************************************************************)
EXTENDS Naturals, FiniteSets

CONSTANTS Agents,
          Dispatchers,    \* the coroutines that spawn: dispatcher loop, API, events
          Stoppers,       \* the coroutines that stop: i_am_blocked, budget, API
          NoOne,          \* the holder of a free lock, the agent of an idle coroutine
          MaxInstances,   \* bound: instances of one agent anything refers to
          MaxDispatches,  \* bound: spawns the dispatchers ask for
          MaxFaults       \* bound: exits but clean ones, stops, refusals, restarts

Callers == Dispatchers \cup {"health", "probe"}
Keys == {"adk_cloud_run", "gemini"}
Route == "adk_cloud_run"

ASSUME HoldersAreDistinct == /\ Callers \cap Stoppers = {} /\ NoOne \notin Callers \cup Stoppers
                             /\ Dispatchers \cap {"health", "probe"} = {}
                             /\ NoOne \notin Agents
ASSUME BoundsAreNaturals == {MaxInstances, MaxDispatches, MaxFaults} \subseteq Nat

VARIABLES inst,       \* _instances: the registered instance of an agent, 0 for none
          state,      \* the AgentState of each instance
          run,        \* the execution of each instance
          lock,       \* the holder of _lock
          call,       \* each caller's spawn_agent call
          stop,       \* each stopper's stop_agent or i_am_blocked call
          health,     \* _check_health
          probe,      \* _sweep_rate_limit_probes
          confirm,    \* the agents with sleeping _confirm_resume_liveness tasks
          record,     \* the provider key of each agent's WaitingRecord, or "none"
          durable,    \* the waiting_records rows
          limited,    \* the provider keys parked in Redis
          unwatched,  \* history: instances whose execution was let out of sight
          dispatches, faults
instances == <<inst, state, run, unwatched>>
records == <<record, durable, confirm>>
bounds == <<dispatches, faults>>
vars == <<instances, lock, call, stop, health, probe, records, limited, bounds>>

Idle == [at |-> "idle", agent |-> NoOne, k |-> 0]
StopCall(at, todo, a, then) == [at |-> at, todo |-> todo, agent |-> a, k |-> 0, then |-> then]
NoStop == StopCall("idle", {}, NoOne, "offline")
NoHealth == [at |-> "idle", todo |-> {}, agent |-> NoOne, k |-> 0]
NoProbe == [at |-> "idle", phase |-> "tracked", todo |-> {}, probed |-> {}, agents |-> {}]
Scanning(todo) == [at |-> "scan", todo |-> todo, agent |-> NoOne, k |-> 0]
Probing(at, phase, todo, agents) == [at |-> at, phase |-> phase, todo |-> todo,
                                     probed |-> probe.probed, agents |-> agents]
Nothing == [a \in Agents |-> 0]

Init == /\ inst = Nothing
        /\ state = [a \in Agents |-> [k \in 1..MaxInstances |-> "unborn"]]
        /\ run = [a \in Agents |-> [k \in 1..MaxInstances |-> "none"]]
        /\ lock = NoOne /\ call = [c \in Callers |-> Idle]
        /\ stop = [s \in Stoppers |-> NoStop]
        /\ health = NoHealth /\ probe = NoProbe
        /\ confirm = {} /\ record = [a \in Agents |-> "none"]
        /\ durable = record
        /\ limited = {} /\ unwatched = {} /\ dispatches = 0 /\ faults = 0

SetState(a, k, s) == state' = [state EXCEPT ![a][k] = s]
\* The state of the registered instance.
Current(a) == IF inst[a] = 0 THEN "unborn" ELSE state[a][inst[a]]
\* _is_agent_active, and what _existing_running_instance refuses to replace.
IsActive(a) == Current(a) = "active"
IsTaken(a) == Current(a) \in {"starting", "active", "stopping"}
Fault == faults < MaxFaults /\ faults' = faults + 1 /\ UNCHANGED dispatches
\* A Redis or database write that may fail; the failure is logged and swallowed.
Activate(key) == limited' \in {limited \cup {key}, limited}
Register(a, key) == /\ record' = [record EXCEPT ![a] = key]
                    /\ durable' \in {[durable EXCEPT ![a] = key], durable}

-----------------------------------------------------------------------------
(* spawn_agent, for every caller.                                          *)

Goto(c, at) == call' = [call EXCEPT ![c].at = at]
Begin(c, a) == call' = [call EXCEPT ![c] = [at |-> "check", agent |-> a, k |-> 0]]

\* The call returns a live instance or an OFFLINE one, or raises.  A raise ends
\* the health tick; resolve_wait then drops the record, and has a live instance
\* confirmed later.
Return(c, outcome) ==
  LET a == call[c].agent
      resolved == c = "probe" /\ record[a] # "none"
      dropped == resolved /\ outcome = "raised"
  IN /\ call' = [call EXCEPT ![c] = Idle]
     /\ health' = IF c # "health" THEN health
                  ELSE IF outcome = "raised" THEN NoHealth ELSE Scanning(health.todo)
     /\ probe' = IF c = "probe" THEN [probe EXCEPT !.at = "resume"] ELSE probe
     /\ IF dropped THEN Register(a, "none") ELSE UNCHANGED <<record, durable>>
     /\ confirm' = IF resolved /\ outcome = "live" THEN confirm \cup {a} ELSE confirm
     /\ UNCHANGED <<stop, limited>>

Continue(c, at) == Goto(c, at) /\ UNCHANGED <<health, probe, records, stop, limited>>

Dispatch(c, a) ==
  /\ c \in Dispatchers /\ call[c].at = "idle" /\ dispatches < MaxDispatches
  /\ Begin(c, a) /\ dispatches' = dispatches + 1
  /\ UNCHANGED <<instances, lock, stop, health, probe, records, limited, faults>>

\* _refuse_unspawnable or _readiness_gate.
Refuse(c) ==
  /\ call[c].at = "check" /\ Fault /\ Return(c, "raised")
  /\ UNCHANGED <<instances, lock>>

FirstCheck(c) ==
  /\ call[c].at = "check" /\ lock = NoOne
  /\ IF IsTaken(call[c].agent) THEN Return(c, "live") ELSE Continue(c, "gate")
  /\ UNCHANGED <<instances, lock, bounds>>

\* The tracker says parked.
GateBails(c) ==
  /\ call[c].at = "gate" /\ Route \in limited /\ Return(c, "offline")
  /\ UNCHANGED <<instances, lock, bounds>>

\* Mutation: spawn_agent does not read the registry again before it prepares.
NoRecheck(c) ==
  /\ call[c].at = "gate" /\ lock = NoOne /\ lock' = c /\ Continue(c, "prepare")
  /\ UNCHANGED <<instances, bounds>>

\* It does not, or cannot be read: the registry is read again under the lock, and
\* _prepare_agent_spawn keeps the lock.
Recheck(c) ==
  /\ call[c].at = "gate" /\ lock = NoOne
  /\ IF IsTaken(call[c].agent)
     THEN Return(c, "live") /\ UNCHANGED lock
     ELSE lock' = c /\ Continue(c, "prepare")
  /\ UNCHANGED <<instances, bounds>>

\* Whether anything but the registry refers to an instance.
IsHeld(a, k) == \/ run[a][k] = "running"
                \/ <<a, k>> \in health.todo \cup {<<health.agent, health.k>>}
                \/ \E c \in Callers : <<a, k>> = <<call[c].agent, call[c].k>>

\* The new instance replaces the registered one; what nothing holds is forgotten.
Prepare(c) ==
  LET a == call[c].agent
      fresh == {k \in 1..MaxInstances : ~IsHeld(a, k)}
  IN /\ call[c].at = "prepare"
     /\ \E k \in fresh :
          /\ \A j \in fresh : k <= j
          /\ inst' = [inst EXCEPT ![a] = k]
          /\ state' = [state EXCEPT ![a] = [j \in 1..MaxInstances |-> IF j = k THEN "starting"
                                           ELSE IF j \in fresh THEN "unborn" ELSE @[j]]]
          /\ run' = [run EXCEPT ![a] = [j \in 1..MaxInstances |-> IF j \in fresh THEN "none" ELSE @[j]]]
          /\ unwatched' = unwatched \ ({a} \X fresh)
          /\ call' = [call EXCEPT ![c] = [at |-> "launch", agent |-> a, k |-> k]]
     /\ lock' = NoOne
     /\ UNCHANGED <<stop, health, probe, records, limited, bounds>>

PrepareFails(c) ==
  /\ call[c].at = "prepare" /\ Fault /\ lock' = NoOne /\ Return(c, "raised")
  /\ UNCHANGED instances

\* The second look at the tracker; a bail leaves the instance OFFLINE.
LaunchBails(c) ==
  /\ call[c].at = "launch" /\ Route \in limited
  /\ SetState(call[c].agent, call[c].k, "offline") /\ Return(c, "offline")
  /\ UNCHANGED <<inst, run, unwatched, lock, bounds>>

RunJob(c) ==
  /\ call[c].at = "launch"
  /\ run' = [run EXCEPT ![call[c].agent][call[c].k] = "running"]
  /\ Continue(c, "name")
  /\ UNCHANGED <<inst, state, unwatched, lock, bounds>>

Launched(c) ==
  /\ call[c].at = "name" /\ SetState(call[c].agent, call[c].k, "active")
  /\ Return(c, "live")
  /\ UNCHANGED <<inst, run, unwatched, lock, bounds>>

\* run_job raised, or the execution runs and its name could not be resolved.
LaunchFails(c) ==
  /\ call[c].at \in {"launch", "name"} /\ Fault
  /\ SetState(call[c].agent, call[c].k, "offline")
  /\ unwatched' = IF call[c].at = "launch" THEN unwatched
                  ELSE unwatched \cup {<<call[c].agent, call[c].k>>}
  /\ Return(c, "raised")
  /\ UNCHANGED <<inst, run, lock>>

Spawning(c) == \/ FirstCheck(c) \/ GateBails(c) \/ Recheck(c) \/ Prepare(c)
               \/ LaunchBails(c) \/ RunJob(c) \/ Launched(c)

-----------------------------------------------------------------------------
(* The execution.  An agent ends its turn, meets its model's limit (it     *)
(* pushes exit_reason and exits) or dies.                                  *)

Exit(a, k) ==
  /\ run[a][k] = "running"
  /\ \E r \in {"done", "limited", "failed"} :
       /\ run' = [run EXCEPT ![a][k] = r]
       /\ IF r = "done" THEN UNCHANGED bounds ELSE Fault
  /\ UNCHANGED <<inst, state, unwatched, lock, call, stop, health, probe, records, limited>>

-----------------------------------------------------------------------------
(* stop_agent and i_am_blocked(rate_limited).                              *)

\* A stop is over: back to the next affected agent, or the end of the call.
NextStop(s) == stop' = [stop EXCEPT ![s] = IF @.then = "waiting"
                                           THEN StopCall("mark", @.todo, NoOne, "waiting")
                                           ELSE NoStop]

StopAgent(s, a) ==
  /\ stop[s].at = "idle" /\ inst[a] # 0 /\ Fault
  /\ stop' = [stop EXCEPT ![s] = StopCall("lock", {}, a, "offline")]
  /\ UNCHANGED <<instances, lock, call, health, probe, records, limited>>

\* An agent reports the limit, having booted: every agent of its provider is parked.
RateLimited(s, a) ==
  /\ stop[s].at = "idle" /\ IsActive(a) /\ run[a][inst[a]] = "running" /\ Fault
  /\ stop' = [stop EXCEPT ![s] =
       StopCall("mark", {b \in Agents : Current(b) \in {"active", "starting"}}, NoOne, "waiting")]
  /\ UNCHANGED <<instances, lock, call, health, probe, records, limited>>

\* mark_waiting_long: the record first, then the stop.
MarkWaiting(s) ==
  /\ stop[s].at = "mark"
  /\ \E a \in stop[s].todo :
       /\ Register(a, Route)
       /\ stop' = [stop EXCEPT ![s].at = "lock", ![s].agent = a, ![s].todo = @ \ {a}]
  /\ UNCHANGED <<instances, lock, call, health, probe, confirm, limited, bounds>>

\* Without a container_id there is nothing to cancel, and a launch goes on.
StopUnderLock(s) ==
  LET a == stop[s].agent  k == inst[a]
  IN /\ stop[s].at = "lock" /\ lock = NoOne
     /\ IF Current(a) \in {"active", "stopping"}
        THEN /\ SetState(a, k, "stopping") /\ lock' = s
             /\ stop' = [stop EXCEPT ![s].at = "cancel", ![s].k = k]
             /\ UNCHANGED unwatched
        ELSE /\ SetState(a, k, stop[s].then) /\ NextStop(s)
             /\ unwatched' = IF Current(a) = "starting" THEN unwatched \cup {<<a, k>>}
                             ELSE unwatched
             /\ UNCHANGED lock
     /\ UNCHANGED <<inst, run, call, health, probe, records, limited, bounds>>

\* Mutation: The provider's stop swallows the error and stop_agent goes on.
CancelUnheeded(s) ==
  LET a == stop[s].agent  k == stop[s].k
  IN /\ stop[s].at = "cancel"
     /\ SetState(a, k, stop[s].then) /\ lock' = NoOne /\ NextStop(s)
     /\ UNCHANGED <<inst, run, unwatched, call, health, probe, records, limited, bounds>>

CancelExecution(s) ==
  LET a == stop[s].agent  k == stop[s].k
  IN /\ stop[s].at = "cancel"
     /\ run' = [run EXCEPT ![a][k] = IF @ = "running" THEN "failed" ELSE @]
     /\ SetState(a, k, stop[s].then) /\ lock' = NoOne /\ NextStop(s)
     /\ UNCHANGED <<inst, unwatched, call, health, probe, records, limited, bounds>>

\* ProviderError leaves stop_agent with the instance STOPPING, for good.
CancelFails(s) ==
  /\ stop[s].at = "cancel" /\ lock' = NoOne /\ NextStop(s)
  /\ UNCHANGED <<instances, call, health, probe, records, limited, bounds>>

\* Mutation: i_am_blocked activates the tracker of an agent whose provider it does not know.
ActivateUnknown(s) ==
  /\ stop[s].at = "mark" /\ stop[s].todo = {} /\ limited' = limited \cup {"unknown"}
  /\ stop' = [stop EXCEPT ![s] = NoStop]
  /\ UNCHANGED <<instances, lock, call, health, probe, records, bounds>>

\* Only now does the tracker learn of the limit.
ActivateLimit(s) ==
  /\ stop[s].at = "mark" /\ stop[s].todo = {} /\ Activate(Route)
  /\ stop' = [stop EXCEPT ![s] = NoStop]
  /\ UNCHANGED <<instances, lock, call, health, probe, records, bounds>>

Stopping(s) == \/ MarkWaiting(s) \/ StopUnderLock(s) \/ CancelExecution(s) \/ ActivateLimit(s)

-----------------------------------------------------------------------------
(* _check_health: one pass over the instances there were when it began.    *)

\* A pass that would find no ACTIVE instance is left out.
HealthTick ==
  /\ health.at = "idle" /\ \E a \in Agents : IsActive(a)
  /\ health' = Scanning({<<a, inst[a]>> : a \in {b \in Agents : inst[b] # 0}})
  /\ UNCHANGED <<instances, lock, call, stop, probe, records, limited, bounds>>

HealthNext ==
  /\ health.at = "scan"
  /\ \/ health.todo = {} /\ health' = NoHealth
     \/ \E p \in health.todo :
          health' = IF state[p[1]][p[2]] = "active"
                    THEN [at |-> "look", todo |-> health.todo \ {p}, agent |-> p[1], k |-> p[2]]
                    ELSE Scanning(health.todo \ {p})
  /\ UNCHANGED <<instances, lock, call, stop, probe, records, limited, bounds>>

\* Still running, or the outcome could not be read: the next agent.
ExecutionOutcome ==
  /\ health.at = "look"
  /\ \/ health' = Scanning(health.todo)
     \/ /\ run[health.agent][health.k] # "running"
        /\ health' = [health EXCEPT !.at = "handle"]
  /\ UNCHANGED <<instances, lock, call, stop, probe, records, limited, bounds>>

\* _handle_stopped_container: a limit parks, a crash respawns at once.  Every
\* instance starts with error_count 0, so the cap of three is never reached.
HandleStopped ==
  LET a == health.agent  k == health.k
  IN /\ health.at = "handle" /\ SetState(a, k, "offline")
     /\ CASE run[a][k] = "done" -> health' = Scanning(health.todo) /\ UNCHANGED call
          [] run[a][k] = "limited" -> health' = [health EXCEPT !.at = "park"] /\ UNCHANGED call
          [] OTHER -> health' = [health EXCEPT !.at = "call"] /\ Begin("health", a)
     /\ UNCHANGED <<inst, run, unwatched, lock, stop, probe, records, limited, bounds>>

\* _park_provider_unavailable, under the key of the pushed reason.
ParkProvider ==
  /\ health.at = "park" /\ Activate("gemini") /\ Register(health.agent, "gemini")
  /\ health' = Scanning(health.todo)
  /\ UNCHANGED <<instances, lock, call, stop, probe, confirm, bounds>>

Health == HealthTick \/ HealthNext \/ ExecutionOutcome \/ HandleStopped \/ ParkProvider

-----------------------------------------------------------------------------
(* _sweep_rate_limit_probes.                                               *)

\* The list is empty when Redis does not answer.  A pass without a parked provider
\* or agent is left out.
Sweep(listed) ==
  /\ probe.at = "idle" /\ (limited # {} \/ \E a \in Agents : record[a] # "none")
  /\ probe' = [NoProbe EXCEPT !.at = "tracked", !.todo = listed, !.probed = listed]
  /\ UNCHANGED <<instances, lock, call, stop, health, records, limited, bounds>>

\* Too early, or the tracker could not be cleared.
SkipProbe(key) ==
  /\ probe.at \in {"tracked", "orphans"} /\ key \in probe.todo
  /\ probe' = [probe EXCEPT !.todo = @ \ {key}]
  /\ UNCHANGED <<instances, lock, call, stop, health, records, limited, bounds>>

ParkedAgentsFor(key) == {a \in Agents : record[a] = key}

\* Neither key has a probe target: the elapsed time is the answer.
ProbeSucceeds(key) ==
  /\ probe.at \in {"tracked", "orphans"} /\ key \in probe.todo
  /\ limited' = limited \ {key}
  /\ probe' = Probing("resume", probe.phase, probe.todo \ {key}, ParkedAgentsFor(key))
  /\ UNCHANGED <<instances, lock, call, stop, health, records, bounds>>

\* resolve_wait.
ResolveWait ==
  /\ probe.at = "resume"
  /\ \/ probe.agents = {} /\ probe' = [probe EXCEPT !.at = probe.phase] /\ UNCHANGED call
     \/ \E a \in probe.agents :
          IF record[a] = "none" \/ IsActive(a)
          THEN probe' = [probe EXCEPT !.agents = @ \ {a}] /\ UNCHANGED call
          ELSE /\ probe' = Probing("call", probe.phase, probe.todo, probe.agents \ {a})
               /\ Begin("probe", a)
  /\ UNCHANGED <<instances, lock, stop, health, records, limited, bounds>>

\* Mutation: The sweep probes only what the tracker lists.
NoOrphans == {}

OrphanKeys == {record[a] : a \in Agents} \ (probe.probed \cup {"none"})

\* The records whose provider the tracker did not list.
SweepOrphans ==
  /\ probe.at = "tracked" /\ probe.todo = {}
  /\ probe' = Probing("orphans", "orphans", OrphanKeys, {})
  /\ UNCHANGED <<instances, lock, call, stop, health, records, limited, bounds>>

SweepDone ==
  /\ probe.at = "orphans" /\ probe.todo = {} /\ probe' = NoProbe
  /\ UNCHANGED <<instances, lock, call, stop, health, records, limited, bounds>>

Probe == \/ Sweep(limited) \/ Sweep({}) \/ ResolveWait \/ SweepOrphans \/ SweepDone
         \/ \E key \in Keys : SkipProbe(key) \/ ProbeSucceeds(key)

\* _confirm_resume_liveness, after its sleep; more of the agent's may sleep on.
ConfirmLiveness(a) ==
  /\ a \in confirm /\ confirm' \in {confirm, confirm \ {a}}
  /\ IF IsActive(a) /\ record[a] # "none"
     THEN Register(a, "none") ELSE UNCHANGED <<record, durable>>
  /\ UNCHANGED <<instances, lock, call, stop, health, probe, limited, bounds>>

\* The orchestrator dies and starts.  The executions go on; docker inspect, which
\* _readopt_running_agents asks, finds none of them.
Restart ==
  /\ Fault /\ inst' = Nothing
  /\ unwatched' = unwatched \cup {p \in Agents \X (1..MaxInstances) : run[p[1]][p[2]] = "running"}
  /\ lock' = NoOne /\ call' = [c \in Callers |-> Idle] /\ stop' = [s \in Stoppers |-> NoStop]
  /\ health' = NoHealth /\ probe' = NoProbe /\ confirm' = {}
  /\ record' = durable
  /\ UNCHANGED <<state, run, durable, limited>>

Next == \/ \E c \in Callers : \/ Spawning(c) \/ Refuse(c) \/ PrepareFails(c) \/ LaunchFails(c)
                              \/ \E a \in Agents : Dispatch(c, a)
        \/ \E a \in Agents : ConfirmLiveness(a) \/ \E k \in 1..MaxInstances : Exit(a, k)
        \/ \E s \in Stoppers : \/ Stopping(s) \/ CancelFails(s)
                               \/ \E a \in Agents : StopAgent(s, a) \/ RateLimited(s, a)
        \/ Health \/ Probe \/ Restart

Spec == Init /\ [][Next]_vars

\* The event loop runs what is ready; the lock is granted in the order of asking;
\* Redis answers again and retry_after elapses.
Fairness == /\ \A c \in Callers : WF_vars(Spawning(c))
            /\ \A s \in Stoppers : WF_vars(Stopping(s))
            /\ WF_vars(Health) /\ WF_vars(Probe) /\ SF_vars(Sweep(limited))
            /\ \A key \in Keys : SF_vars(ProbeSucceeds(key))

FairSpec == Spec /\ Fairness
-----------------------------------------------------------------------------
Runs == {"none", "running", "done", "limited", "failed"}
States == {"unborn", "starting", "active", "stopping", "offline", "waiting"}
Someone == Agents \cup {NoOne}

InstancesOK ==
  /\ inst \in [Agents -> 0..MaxInstances]
  /\ state \in [Agents -> [1..MaxInstances -> States]]
  /\ run \in [Agents -> [1..MaxInstances -> Runs]]
  /\ unwatched \subseteq Agents \X (1..MaxInstances)

CallsOK ==
  /\ lock \in Callers \cup Stoppers \cup {NoOne}
  /\ call \in [Callers -> [at : {"idle", "check", "gate", "prepare", "launch", "name"},
                            agent : Someone, k : 0..MaxInstances]]
  /\ \A c \in Callers : /\ call[c].at # "idle" => call[c].agent \in Agents
                        /\ call[c].at \in {"launch", "name"} => call[c].k > 0

StopsOK ==
  /\ stop \in [Stoppers -> [at : {"idle", "mark", "lock", "cancel"}, todo : SUBSET Agents,
                             agent : Someone, k : 0..MaxInstances, then : {"waiting", "offline"}]]
  /\ \A s \in Stoppers : /\ stop[s].at \in {"lock", "cancel"} => stop[s].agent \in Agents
                         /\ stop[s].at = "cancel" => stop[s].k > 0

HealthOK ==
  /\ health \in [at : {"idle", "scan", "look", "handle", "park", "call"},
                  todo : SUBSET (Agents \X (1..MaxInstances)), agent : Someone, k : 0..MaxInstances]
  /\ health.at \notin {"idle", "scan"} => health.agent \in Agents /\ health.k > 0

ProbeOK ==
  probe \in [at : {"idle", "tracked", "orphans", "resume", "call"}, phase : {"tracked", "orphans"},
             todo : SUBSET Keys, probed : SUBSET Keys, agents : SUBSET Agents]

RecordsOK ==
  /\ confirm \subseteq Agents /\ limited \subseteq Keys
  /\ {record, durable} \subseteq [Agents -> Keys \cup {"none"}]
  /\ dispatches \in Nat /\ faults \in Nat

\* The orchestrator's registry, lock, coroutines and records, the tracker's keys
\* and the executions keep to their values: nothing is parked under a key that no
\* agent's provider or exit reason names.
TypeOK == InstancesOK /\ CallsOK /\ StopsOK /\ HealthOK /\ ProbeOK /\ RecordsOK

\* Two executions of one agent run at a time only if one of them was let out of
\* sight before: stopped while it was starting, not named by Cloud Run, or running
\* when the orchestrator died.  The dispatcher, the crash retry and the probe loop
\* spawn the same agent concurrently, and a launch takes several awaits.
OneRun ==
  \A a \in Agents : \A j, k \in 1..MaxInstances :
    /\ run[a][j] = "running" /\ run[a][k] = "running"
    /\ {<<a, j>>, <<a, k>>} \cap unwatched = {}
    => j = k

\* What runs is what _instances shows: an execution that was not let out of sight
\* belongs to the registered instance, and that instance is not OFFLINE or
\* WAITING_LONG: stop_agent, the health loop and a spawn's bail say "stopped"
\* only of what has stopped.
RunIsWatched ==
  \A a \in Agents : \A k \in 1..MaxInstances :
    run[a][k] = "running" /\ <<a, k>> \notin unwatched
      => k = inst[a] /\ IsTaken(a)

\* A parked agent does not stay parked for ever, whatever writes to Redis were
\* lost: as long as its WaitingRecord stands, the agent becomes active again,
\* unless its execution could not be cancelled when it was parked.
ParkedIsRevived ==
  \A a \in Agents :
    record[a] # "none" ~> (IsActive(a) \/ record[a] = "none" \/ Current(a) = "stopping")

=============================================================================
