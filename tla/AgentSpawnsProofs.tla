-------------------------- MODULE AgentSpawnsProofs --------------------------
(***************************************************************************)
(* That an agent has one execution at a time, and that what runs is what   *)
(* _instances shows, for every number of agents, callers, stops and faults.*)
(***************************************************************************)
EXTENDS AgentSpawns, TLAPS

Id(c) == <<call[c].agent, call[c].k>>
IsLaunching(c) == call[c].at \in {"launch", "name"}

\* A launch works for the registered instance, still STARTING, or for one that
\* was let out of sight; its job is run once.
Launches ==
  \A c \in Callers :
    /\ call[c].at = "launch" => run[call[c].agent][call[c].k] = "none"
    /\ call[c].at = "name" => run[call[c].agent][call[c].k] # "none"
    /\ IsLaunching(c) => \/ Id(c) \in unwatched
                         \/ /\ call[c].k = inst[call[c].agent]
                            /\ state[call[c].agent][call[c].k] = "starting"
    /\ \A d \in Callers : IsLaunching(c) /\ IsLaunching(d) /\ Id(c) = Id(d) => c = d

\* What prepares holds the lock, and replaces nothing that may run unless it was
\* let out of sight.
Prepares ==
  \A c \in Callers : call[c].at = "prepare" =>
    /\ lock = c
    /\ ~IsTaken(call[c].agent) \/ <<call[c].agent, inst[call[c].agent]>> \in unwatched

\* What cancels holds the lock, over an instance that was ACTIVE.
Cancels ==
  \A s \in Stoppers : stop[s].at = "cancel" =>
    lock = s /\ state[stop[s].agent][stop[s].k] # "starting"

\* An ACTIVE instance was launched.
ActiveHasRun ==
  \A a \in Agents : \A k \in 1..MaxInstances : state[a][k] = "active" => run[a][k] # "none"

\* The health pass looks at an instance that was ACTIVE, and handles its end.
HealthLooks ==
  health.at \in {"look", "handle"} =>
    /\ run[health.agent][health.k] # "none" /\ state[health.agent][health.k] # "starting"
    /\ health.at = "handle" => run[health.agent][health.k] # "running"

IInv == /\ TypeOK /\ Launches /\ Prepares /\ Cancels /\ ActiveHasRun /\ HealthLooks
        /\ RunIsWatched

-----------------------------------------------------------------------------
(* Types.                                                                  *)

Mine(c) == call[c].agent
Caller(c) == c \in Callers /\ call[c].at # "idle"

USE HoldersAreDistinct, BoundsAreNaturals DEF Someone

LEMMA ReturnTypes ==
  ASSUME TypeOK, NEW c, Caller(c), NEW o, Return(c, o), lock' \in Callers \cup Stoppers \cup {NoOne}
  PROVE  /\ CallsOK' /\ StopsOK' /\ HealthOK' /\ ProbeOK'
         /\ {record', durable'} \subseteq [Agents -> Keys \cup {"none"}]
         /\ confirm' \subseteq Agents /\ limited' = limited
<1>0. c \in Callers /\ call[c].agent \in Agents BY DEF Caller, TypeOK, CallsOK
<1>1. CallsOK' BY <1>0, SMT DEF Return, TypeOK, CallsOK, Idle
<1>2. StopsOK' BY SMT DEF Return, TypeOK, StopsOK
<1>3. HealthOK' BY SMT DEF Return, TypeOK, HealthOK, NoHealth, Scanning
<1>4. ProbeOK' BY SMT DEF Return, TypeOK, ProbeOK
<1>5. {record', durable'} \subseteq [Agents -> Keys \cup {"none"}]
  BY <1>0, SMT DEF Return, TypeOK, RecordsOK, Register
<1>6. confirm' \subseteq Agents /\ limited' = limited BY <1>0, SMT DEF Return, TypeOK, RecordsOK
<1> QED BY <1>1, <1>2, <1>3, <1>4, <1>5, <1>6

LEMMA ContinueTypes ==
  ASSUME TypeOK, NEW c, Caller(c), NEW at \in {"gate", "prepare"}, Continue(c, at),
         lock' \in Callers \cup Stoppers \cup {NoOne}
  PROVE  /\ CallsOK' /\ StopsOK' /\ HealthOK' /\ ProbeOK'
         /\ {record', durable'} \subseteq [Agents -> Keys \cup {"none"}]
         /\ confirm' \subseteq Agents /\ limited' = limited
<1>1. CallsOK' BY SMT DEF Continue, Goto, TypeOK, CallsOK, Caller
<1> QED BY <1>1, SMT DEF Continue, TypeOK, StopsOK, HealthOK, ProbeOK, RecordsOK, records

LEMMA SetStateTypes ==
  ASSUME InstancesOK, NEW a \in Agents, NEW k, NEW s \in States, SetState(a, k, s)
  PROVE  state' \in [Agents -> [1..MaxInstances -> States]]
<1>1. state[a] \in [1..MaxInstances -> States] BY DEF InstancesOK
<1>2. [state[a] EXCEPT ![k] = s] \in [1..MaxInstances -> States] BY <1>1
<1>3. state' = [state EXCEPT ![a] = [state[a] EXCEPT ![k] = s]] BY DEF SetState
<1> QED BY <1>2, <1>3 DEF InstancesOK

\* A step that leaves the bounds alone, or counts a fault.
LEMMA BoundTypes ==
  ASSUME RecordsOK, UNCHANGED bounds \/ Fault
  PROVE  dispatches' \in Nat /\ faults' \in Nat
BY DEF RecordsOK, bounds, Fault

LEMMA InitTypes == Init => TypeOK
BY SMT DEF Init, TypeOK, InstancesOK, CallsOK, StopsOK, HealthOK, ProbeOK, RecordsOK, Nothing,
           Idle, NoStop, StopCall, NoHealth, NoProbe, States, Runs

LEMMA SpawningTypes ==
  ASSUME TypeOK, NEW c \in Callers, Spawning(c)
  PROVE  TypeOK'
<1> DEFINE a == call[c].agent  k == call[c].k  Locks == Callers \cup Stoppers \cup {NoOne}
<1>0. Caller(c) /\ a \in Agents /\ k \in 0..MaxInstances /\ lock \in Locks
      /\ InstancesOK /\ RecordsOK
  BY DEF Spawning, FirstCheck, GateBails, Recheck, Prepare, LaunchBails, RunJob, Launched, Caller,
         TypeOK, CallsOK
<1>1. CASE FirstCheck(c)
  <2>1. InstancesOK' /\ lock' \in Locks /\ UNCHANGED bounds
    BY <1>0, <1>1 DEF FirstCheck, instances, InstancesOK
  <2> QED BY <1>0, <1>1, <2>1, ReturnTypes, ContinueTypes, BoundTypes DEF FirstCheck, TypeOK, RecordsOK
<1>2. CASE GateBails(c)
  <2>1. InstancesOK' /\ lock' \in Locks /\ UNCHANGED bounds
    BY <1>0, <1>2 DEF GateBails, instances, InstancesOK
  <2> QED BY <1>0, <1>2, <2>1, ReturnTypes, BoundTypes DEF GateBails, TypeOK, RecordsOK
<1>3. CASE Recheck(c)
  <2>1. InstancesOK' /\ lock' \in Locks /\ UNCHANGED bounds
    BY <1>0, <1>3 DEF Recheck, instances, InstancesOK
  <2> QED BY <1>0, <1>3, <2>1, ReturnTypes, ContinueTypes, BoundTypes DEF Recheck, TypeOK, RecordsOK
<1>4. CASE Prepare(c)
  <2> DEFINE fresh == {j \in 1..MaxInstances : ~IsHeld(a, j)}
  <2>1. PICK n \in fresh :
          /\ inst' = [inst EXCEPT ![a] = n]
          /\ state' = [state EXCEPT ![a] = [j \in 1..MaxInstances |-> IF j = n THEN "starting"
                                           ELSE IF j \in fresh THEN "unborn" ELSE @[j]]]
          /\ run' = [run EXCEPT ![a] = [j \in 1..MaxInstances |-> IF j \in fresh THEN "none" ELSE @[j]]]
          /\ unwatched' = unwatched \ ({a} \X fresh)
          /\ call' = [call EXCEPT ![c] = [at |-> "launch", agent |-> a, k |-> n]]
    BY <1>4 DEF Prepare
  <2> HIDE DEF fresh
  <2>2. n \in 1..MaxInstances BY DEF fresh
  <2>3. InstancesOK' BY <1>0, <2>1, <2>2, SMT DEF InstancesOK, States, Runs
  <2>4. CallsOK'
    <3>1. lock' = NoOne BY <1>4 DEF Prepare
    <3> QED BY <1>0, <2>1, <2>2, <3>1, SMT DEF CallsOK, TypeOK
  <2>5. StopsOK' /\ HealthOK' /\ ProbeOK' /\ RecordsOK'
    BY <1>4 DEF Prepare, TypeOK, StopsOK, HealthOK, ProbeOK, RecordsOK, records, bounds
  <2> QED BY <2>3, <2>4, <2>5 DEF TypeOK
<1>5. CASE LaunchBails(c)
  <2>1. InstancesOK'
    BY <1>0, <1>5, SetStateTypes DEF LaunchBails, InstancesOK, States
  <2> QED BY <1>0, <1>5, <2>1, ReturnTypes, BoundTypes DEF LaunchBails, TypeOK, RecordsOK
<1>6. CASE RunJob(c)
  <2>1. run' \in [Agents -> [1..MaxInstances -> Runs]]
    <3>1. run[a] \in [1..MaxInstances -> Runs] BY <1>0 DEF InstancesOK
    <3>2. [run[a] EXCEPT ![k] = "running"] \in [1..MaxInstances -> Runs] BY <3>1 DEF Runs
    <3>3. run' = [run EXCEPT ![a] = [run[a] EXCEPT ![k] = "running"]] BY <1>6 DEF RunJob
    <3> QED BY <1>0, <3>2, <3>3 DEF InstancesOK
  <2>2. InstancesOK' BY <1>0, <1>6, <2>1 DEF RunJob, InstancesOK
  <2>3. CallsOK' BY <1>0, <1>6, SMT DEF RunJob, Continue, Goto, CallsOK, TypeOK
  <2>4. StopsOK' /\ HealthOK' /\ ProbeOK' /\ RecordsOK'
    BY <1>6 DEF RunJob, Continue, TypeOK, StopsOK, HealthOK, ProbeOK, RecordsOK, records, bounds
  <2> QED BY <2>2, <2>3, <2>4 DEF TypeOK
<1>7. CASE Launched(c)
  <2>1. InstancesOK'
    BY <1>0, <1>7, SetStateTypes DEF Launched, InstancesOK, States
  <2> QED BY <1>0, <1>7, <2>1, ReturnTypes, BoundTypes DEF Launched, TypeOK, RecordsOK
<1> QED BY <1>1, <1>2, <1>3, <1>4, <1>5, <1>6, <1>7 DEF Spawning
LEMMA BeginTypes ==
  ASSUME CallsOK, NEW c \in Callers, NEW a \in Agents, Begin(c, a), UNCHANGED lock
  PROVE  CallsOK'
BY SMT DEF Begin, CallsOK

LEMMA CallerTypes ==
  ASSUME TypeOK, NEW c \in Callers,
         Refuse(c) \/ PrepareFails(c) \/ LaunchFails(c) \/ \E a \in Agents : Dispatch(c, a)
  PROVE  TypeOK'
<1> DEFINE Locks == Callers \cup Stoppers \cup {NoOne}
<1>0. lock \in Locks /\ InstancesOK /\ CallsOK /\ RecordsOK BY DEF TypeOK, CallsOK
<1>1. CASE Refuse(c)
  <2>1. InstancesOK' /\ lock' \in Locks /\ Caller(c)
    BY <1>0, <1>1 DEF Refuse, instances, InstancesOK, Caller
  <2> QED BY <1>0, <1>1, <2>1, ReturnTypes, BoundTypes DEF Refuse, TypeOK, RecordsOK
<1>2. CASE PrepareFails(c)
  <2>1. InstancesOK' /\ lock' \in Locks /\ Caller(c)
    BY <1>0, <1>2 DEF PrepareFails, instances, InstancesOK, Caller
  <2> QED BY <1>0, <1>2, <2>1, ReturnTypes, BoundTypes DEF PrepareFails, TypeOK, RecordsOK
<1>3. CASE LaunchFails(c)
  <2>1. Caller(c) /\ call[c].agent \in Agents /\ call[c].k \in 1..MaxInstances
    BY <1>0, <1>3, SMT DEF LaunchFails, Caller, CallsOK
  <2>2. InstancesOK' /\ lock' \in Locks
    <3>1. state' \in [Agents -> [1..MaxInstances -> States]]
      BY <1>0, <1>3, <2>1, SetStateTypes DEF LaunchFails, States
    <3>2. unwatched' \subseteq Agents \X (1..MaxInstances)
      BY <1>0, <1>3, <2>1 DEF LaunchFails, InstancesOK
    <3> QED BY <1>0, <1>3, <3>1, <3>2 DEF LaunchFails, InstancesOK
  <2> QED BY <1>0, <1>3, <2>1, <2>2, ReturnTypes, BoundTypes DEF LaunchFails, TypeOK, RecordsOK
<1>4. ASSUME NEW a \in Agents, Dispatch(c, a) PROVE TypeOK'
  <2>1. CallsOK' BY <1>0, <1>4, BeginTypes DEF Dispatch
  <2>2. RecordsOK' BY <1>0, <1>4 DEF Dispatch, RecordsOK, records
  <2> QED BY <1>4, <2>1, <2>2
          DEF Dispatch, TypeOK, InstancesOK, instances, StopsOK, HealthOK, ProbeOK
<1> QED BY <1>1, <1>2, <1>3, <1>4

LEMMA NextStopTypes ==
  ASSUME StopsOK, NEW s \in Stoppers, NextStop(s)
  PROVE  StopsOK'
<1>1. stop[s] \in [at : {"idle", "mark", "lock", "cancel"}, todo : SUBSET Agents,
                   agent : Someone, k : 0..MaxInstances, then : {"waiting", "offline"}]
  BY DEF StopsOK
<1> QED BY <1>1, SMT DEF NextStop, StopsOK, NoStop, StopCall

LEMMA StoppingTypes ==
  ASSUME TypeOK, NEW s \in Stoppers,
         Stopping(s) \/ CancelFails(s) \/ \E a \in Agents : StopAgent(s, a) \/ RateLimited(s, a)
  PROVE  TypeOK'
<1> DEFINE a == stop[s].agent
<1>0. InstancesOK /\ CallsOK /\ StopsOK /\ HealthOK /\ ProbeOK /\ RecordsOK BY DEF TypeOK
<1> USE DEF instances, records, bounds
<1>1. CASE MarkWaiting(s)
  <2>1. StopsOK' BY <1>0, <1>1, SMT DEF MarkWaiting, StopsOK
  <2>2. RecordsOK' BY <1>0, <1>1, SMT DEF MarkWaiting, Register, RecordsOK, Keys, Route, StopsOK
  <2> QED BY <1>1, <1>0, <2>1, <2>2 DEF MarkWaiting, TypeOK, InstancesOK, CallsOK, HealthOK, ProbeOK
<1>2. CASE StopUnderLock(s)
  <2>0. a \in Agents /\ stop[s].then \in States /\ s \in Callers \cup Stoppers
    BY <1>0, <1>2, SMT DEF StopUnderLock, StopsOK, States
  <2>1. CallsOK' BY <1>0, <1>2 DEF StopUnderLock, CallsOK
  <2>2. StopsOK'
    <3>1. CASE Current(a) \in {"active", "stopping"}
      <4>1. inst[a] \in 1..MaxInstances
        BY <1>0, <2>0, <3>1 DEF Current, InstancesOK
      <4> QED BY <1>0, <1>2, <2>0, <3>1, <4>1, SMT DEF StopUnderLock, StopsOK
    <3>2. CASE Current(a) \notin {"active", "stopping"}
      BY <1>0, <1>2, <3>2, NextStopTypes DEF StopUnderLock
    <3> QED BY <3>1, <3>2
  <2>3. InstancesOK'
    <3>1. state' \in [Agents -> [1..MaxInstances -> States]]
      BY <1>0, <1>2, <2>0, SetStateTypes DEF StopUnderLock, States
    <3>2. unwatched' \subseteq Agents \X (1..MaxInstances)
      BY <1>0, <1>2, <2>0 DEF StopUnderLock, InstancesOK, Current
    <3> QED BY <1>0, <1>2, <3>1, <3>2 DEF StopUnderLock, InstancesOK
  <2> QED BY <1>0, <1>2, <2>1, <2>2, <2>3 DEF StopUnderLock, TypeOK, HealthOK, ProbeOK, RecordsOK
<1>3. CASE CancelExecution(s)
  <2>0. a \in Agents /\ stop[s].k \in 1..MaxInstances /\ stop[s].then \in States
    BY <1>0, <1>3, SMT DEF CancelExecution, StopsOK, States
  <2>1. StopsOK' BY <1>0, <1>3, NextStopTypes DEF CancelExecution
  <2>2. state' \in [Agents -> [1..MaxInstances -> States]]
    BY <1>0, <1>3, <2>0, SetStateTypes DEF CancelExecution
  <2>3. run' \in [Agents -> [1..MaxInstances -> Runs]]
    <3> DEFINE r == IF run[a][stop[s].k] = "running" THEN "failed" ELSE run[a][stop[s].k]
    <3>1. run[a] \in [1..MaxInstances -> Runs] BY <1>0, <2>0 DEF InstancesOK
    <3>2. r \in Runs BY <2>0, <3>1 DEF Runs
    <3>3. run' = [run EXCEPT ![a] = [run[a] EXCEPT ![stop[s].k] = r]] BY <1>3 DEF CancelExecution
    <3> QED BY <1>0, <2>0, <3>1, <3>2, <3>3 DEF InstancesOK
  <2> QED BY <1>0, <1>3, <2>1, <2>2, <2>3
          DEF CancelExecution, TypeOK, InstancesOK, CallsOK, HealthOK, ProbeOK, RecordsOK
<1>4. CASE ActivateLimit(s)
  <2>1. StopsOK' BY <1>0, <1>4, SMT DEF ActivateLimit, StopsOK, NoStop, StopCall
  <2>2. RecordsOK' BY <1>0, <1>4 DEF ActivateLimit, Activate, RecordsOK, Keys, Route
  <2> QED BY <1>0, <1>4, <2>1, <2>2 DEF ActivateLimit, TypeOK, InstancesOK, CallsOK, HealthOK, ProbeOK
<1>5. CASE CancelFails(s)
  <2>1. StopsOK' BY <1>0, <1>5, NextStopTypes DEF CancelFails
  <2> QED BY <1>0, <1>5, <2>1
          DEF CancelFails, TypeOK, InstancesOK, CallsOK, HealthOK, ProbeOK, RecordsOK
<1>6. ASSUME NEW b \in Agents, StopAgent(s, b) PROVE TypeOK'
  <2>1. StopsOK' BY <1>0, <1>6, SMT DEF StopAgent, StopsOK, NoStop, StopCall
  <2> QED BY <1>0, <1>6, <2>1
          DEF StopAgent, Fault, TypeOK, InstancesOK, CallsOK, HealthOK, ProbeOK, RecordsOK
<1>7. ASSUME NEW b \in Agents, RateLimited(s, b) PROVE TypeOK'
  <2>1. StopsOK' BY <1>0, <1>7, SMT DEF RateLimited, StopsOK, NoStop, StopCall
  <2> QED BY <1>0, <1>7, <2>1
          DEF RateLimited, Fault, TypeOK, InstancesOK, CallsOK, HealthOK, ProbeOK, RecordsOK
<1> QED BY <1>1, <1>2, <1>3, <1>4, <1>5, <1>6, <1>7 DEF Stopping

LEMMA HealthTypes ==
  ASSUME TypeOK, Health
  PROVE  TypeOK'
<1> DEFINE a == health.agent  k == health.k
<1>0. InstancesOK /\ CallsOK /\ StopsOK /\ HealthOK /\ ProbeOK /\ RecordsOK BY DEF TypeOK
<1> USE DEF instances, records, bounds
<1>1. CASE HealthTick
  <2> DEFINE all == {<<b, inst[b]>> : b \in {d \in Agents : inst[d] # 0}}
  <2>1. all \subseteq Agents \X (1..MaxInstances) BY <1>0, SMT DEF InstancesOK
  <2>2. health' = Scanning(all) BY <1>1 DEF HealthTick
  <2> HIDE DEF all
  <2>3. HealthOK' BY <2>1, <2>2, SMT DEF HealthOK, Scanning
  <2> QED BY <1>0, <1>1, <2>3
          DEF HealthTick, TypeOK, InstancesOK, CallsOK, StopsOK, ProbeOK, RecordsOK
<1>2. CASE HealthNext
  <2>1. CASE health.todo = {} /\ health' = NoHealth
    <3>1. HealthOK' BY <2>1, SMT DEF HealthOK, NoHealth
    <3> QED BY <1>0, <1>2, <3>1
          DEF HealthNext, TypeOK, InstancesOK, CallsOK, StopsOK, ProbeOK, RecordsOK
  <2>2. ASSUME NEW p \in health.todo,
               health' = IF state[p[1]][p[2]] = "active"
                         THEN [at |-> "look", todo |-> health.todo \ {p}, agent |-> p[1], k |-> p[2]]
                         ELSE Scanning(health.todo \ {p})
        PROVE  TypeOK'
    <3>1. p[1] \in Agents /\ p[2] \in 1..MaxInstances BY <1>0 DEF HealthOK
    <3>2. HealthOK' BY <1>0, <2>2, <3>1, SMT DEF HealthOK, Scanning
    <3> QED BY <1>0, <1>2, <3>2
          DEF HealthNext, TypeOK, InstancesOK, CallsOK, StopsOK, ProbeOK, RecordsOK
  <2> QED BY <1>2, <2>1, <2>2 DEF HealthNext
<1>3. CASE ExecutionOutcome
  <2>1. HealthOK' BY <1>0, <1>3, SMT DEF ExecutionOutcome, HealthOK, Scanning
  <2> QED BY <1>0, <1>3, <2>1
          DEF ExecutionOutcome, TypeOK, InstancesOK, CallsOK, StopsOK, ProbeOK, RecordsOK
<1>4. CASE HandleStopped
  <2>0. a \in Agents /\ k \in 1..MaxInstances BY <1>0, <1>4, SMT DEF HandleStopped, HealthOK
  <2>1. InstancesOK'
    BY <1>0, <1>4, <2>0, SetStateTypes DEF HandleStopped, InstancesOK, States
  <2>2. HealthOK' BY <1>0, <1>4, <2>0, SMT DEF HandleStopped, HealthOK, Scanning
  <2>3. UNCHANGED call \/ Begin("health", a) BY <1>4 DEF HandleStopped
  <2>4. CallsOK' BY <1>0, <1>4, <2>0, <2>3, BeginTypes DEF HandleStopped, CallsOK, Callers
  <2> QED BY <1>0, <1>4, <2>1, <2>2, <2>4 DEF HandleStopped, TypeOK, StopsOK, ProbeOK, RecordsOK
<1>5. CASE ParkProvider
  <2>1. HealthOK' BY <1>0, <1>5, SMT DEF ParkProvider, HealthOK, Scanning
  <2>2. RecordsOK'
    BY <1>0, <1>5, SMT DEF ParkProvider, Activate, Register, RecordsOK, Keys, HealthOK
  <2> QED BY <1>0, <1>5, <2>1, <2>2 DEF ParkProvider, TypeOK, InstancesOK, CallsOK, StopsOK, ProbeOK
<1> QED BY <1>1, <1>2, <1>3, <1>4, <1>5 DEF Health

LEMMA ProbeTypes ==
  ASSUME TypeOK, Probe
  PROVE  TypeOK'
<1>0. InstancesOK /\ CallsOK /\ StopsOK /\ HealthOK /\ ProbeOK /\ RecordsOK BY DEF TypeOK
<1> USE DEF instances, records, bounds
<1>1. ASSUME NEW listed \in SUBSET Keys, Sweep(listed) PROVE TypeOK'
  <2>1. probe' = [at |-> "tracked", phase |-> "tracked", todo |-> listed, probed |-> listed,
                  agents |-> {}]
    BY <1>1 DEF Sweep, NoProbe
  <2>2. ProbeOK' BY <2>1, SMT DEF ProbeOK
  <2> QED BY <1>0, <1>1, <2>2
          DEF Sweep, TypeOK, InstancesOK, CallsOK, StopsOK, HealthOK, RecordsOK
<1>2. ASSUME NEW key \in Keys, SkipProbe(key) PROVE TypeOK'
  <2>1. ProbeOK' BY <1>0, <1>2, SMT DEF SkipProbe, ProbeOK
  <2> QED BY <1>0, <1>2, <2>1
          DEF SkipProbe, TypeOK, InstancesOK, CallsOK, StopsOK, HealthOK, RecordsOK
<1>3. ASSUME NEW key \in Keys, ProbeSucceeds(key) PROVE TypeOK'
  <2>1. ProbeOK' BY <1>0, <1>3, SMT DEF ProbeSucceeds, ParkedAgentsFor, Probing, ProbeOK
  <2> QED BY <1>0, <1>3, <2>1
          DEF ProbeSucceeds, TypeOK, InstancesOK, CallsOK, StopsOK, HealthOK, RecordsOK
<1>4. CASE ResolveWait
  <2>1. ProbeOK' BY <1>0, <1>4, SMT DEF ResolveWait, Probing, ProbeOK
  <2>2. UNCHANGED call \/ \E a \in Agents : Begin("probe", a)
    <3>1. \/ UNCHANGED call
          \/ \E a \in probe.agents : UNCHANGED call \/ Begin("probe", a)
      BY <1>4 DEF ResolveWait
    <3>2. probe.agents \subseteq Agents BY <1>0, SMT DEF ProbeOK
    <3> QED BY <3>1, <3>2
  <2>3. CallsOK' BY <1>0, <1>4, <2>2, BeginTypes DEF ResolveWait, CallsOK, Callers
  <2> QED BY <1>0, <1>4, <2>1, <2>3 DEF ResolveWait, TypeOK, InstancesOK, StopsOK, HealthOK, RecordsOK
<1>5. CASE SweepOrphans
  <2>1. OrphanKeys \subseteq Keys BY <1>0 DEF OrphanKeys, RecordsOK
  <2>2. ProbeOK' BY <1>0, <1>5, <2>1, SMT DEF SweepOrphans, Probing, ProbeOK
  <2> QED BY <1>0, <1>5, <2>2
          DEF SweepOrphans, TypeOK, InstancesOK, CallsOK, StopsOK, HealthOK, RecordsOK
<1>6. CASE SweepDone
  <2>1. ProbeOK' BY <1>6, SMT DEF SweepDone, ProbeOK, NoProbe
  <2> QED BY <1>0, <1>6, <2>1
          DEF SweepDone, TypeOK, InstancesOK, CallsOK, StopsOK, HealthOK, RecordsOK
<1>7. limited \in SUBSET Keys BY <1>0 DEF RecordsOK
<1> QED BY <1>1, <1>2, <1>3, <1>4, <1>5, <1>6, <1>7 DEF Probe

LEMMA OtherTypes ==
  ASSUME TypeOK,
         \/ \E a \in Agents : \E k \in 1..MaxInstances : Exit(a, k)
         \/ \E a \in Agents : ConfirmLiveness(a)
         \/ Restart
  PROVE  TypeOK'
<1>0. InstancesOK /\ CallsOK /\ StopsOK /\ HealthOK /\ ProbeOK /\ RecordsOK BY DEF TypeOK
<1> USE DEF instances, records, bounds
<1>1. ASSUME NEW a \in Agents, NEW k \in 1..MaxInstances, Exit(a, k) PROVE TypeOK'
  <2>1. PICK r \in {"done", "limited", "failed"} :
          run' = [run EXCEPT ![a][k] = r] /\ (UNCHANGED bounds \/ Fault)
    BY <1>1 DEF Exit
  <2>2. run' \in [Agents -> [1..MaxInstances -> Runs]]
    <3>1. run[a] \in [1..MaxInstances -> Runs] BY <1>0 DEF InstancesOK
    <3>2. [run[a] EXCEPT ![k] = r] \in [1..MaxInstances -> Runs] BY <3>1 DEF Runs
    <3>3. run' = [run EXCEPT ![a] = [run[a] EXCEPT ![k] = r]] BY <2>1
    <3> QED BY <1>0, <3>2, <3>3 DEF InstancesOK
  <2>3. dispatches' \in Nat /\ faults' \in Nat BY <1>0, <2>1, BoundTypes
  <2> QED BY <1>0, <1>1, <2>2, <2>3
          DEF Exit, TypeOK, InstancesOK, CallsOK, StopsOK, HealthOK, ProbeOK, RecordsOK
<1>2. ASSUME NEW a \in Agents, ConfirmLiveness(a) PROVE TypeOK'
  <2>1. RecordsOK' BY <1>0, <1>2, SMT DEF ConfirmLiveness, Register, RecordsOK
  <2> QED BY <1>0, <1>2, <2>1
          DEF ConfirmLiveness, TypeOK, InstancesOK, CallsOK, StopsOK, HealthOK, ProbeOK
<1>3. CASE Restart
  <2>1. InstancesOK' BY <1>0, <1>3 DEF Restart, InstancesOK, Nothing
  <2>2. CallsOK' /\ StopsOK' BY <1>3, SMT DEF Restart, CallsOK, StopsOK, Idle, NoStop, StopCall
  <2>3. HealthOK' /\ ProbeOK' BY <1>3, SMT DEF Restart, HealthOK, ProbeOK, NoHealth, NoProbe
  <2>4. RecordsOK' BY <1>0, <1>3 DEF Restart, RecordsOK, Fault
  <2> QED BY <2>1, <2>2, <2>3, <2>4 DEF TypeOK
<1> QED BY <1>1, <1>2, <1>3

LEMMA StutterTypes == TypeOK /\ UNCHANGED vars => TypeOK'
BY DEF TypeOK, InstancesOK, CallsOK, StopsOK, HealthOK, ProbeOK, RecordsOK, vars, instances, records,
       bounds

LEMMA StepTypes == TypeOK /\ [Next]_vars => TypeOK'
BY SpawningTypes, CallerTypes, StoppingTypes, HealthTypes, ProbeTypes, OtherTypes, StutterTypes
   DEF Next

\* The orchestrator's and the tracker's state keep to their types.
THEOREM TypeCorrect == Spec => []TypeOK
BY InitTypes, StepTypes, PTL DEF Spec

-----------------------------------------------------------------------------
(* The invariant.                                                          *)

LEMMA SetStateAt ==
  ASSUME InstancesOK, NEW a \in Agents, NEW k, NEW s, SetState(a, k, s)
  PROVE  \A b \in Agents : \A j \in 1..MaxInstances :
           state'[b][j] = IF b = a /\ j = k THEN s ELSE state[b][j]
<1>1. \A b \in Agents : DOMAIN state[b] = 1..MaxInstances BY DEF InstancesOK
<1>2. DOMAIN state = Agents BY DEF InstancesOK
<1>3. state' = [state EXCEPT ![a] = [state[a] EXCEPT ![k] = s]] BY DEF SetState
<1> QED BY <1>1, <1>2, <1>3

LEMMA SetRunAt ==
  ASSUME InstancesOK, NEW a \in Agents, NEW k, NEW r,
         run' = [run EXCEPT ![a] = [run[a] EXCEPT ![k] = r]]
  PROVE  \A b \in Agents : \A j \in 1..MaxInstances :
           run'[b][j] = IF b = a /\ j = k THEN r ELSE run[b][j]
<1>1. \A b \in Agents : DOMAIN run[b] = 1..MaxInstances BY DEF InstancesOK
<1>2. DOMAIN run = Agents BY DEF InstancesOK
<1> QED BY <1>1, <1>2

\* What the types say of the coroutines at work.
LEMMA Busy ==
  ASSUME TypeOK
  PROVE  /\ \A c \in Callers : /\ call[c].at # "idle" => call[c].agent \in Agents
                               /\ IsLaunching(c) => call[c].k \in 1..MaxInstances
         /\ \A s \in Stoppers : stop[s].at = "cancel" =>
              stop[s].agent \in Agents /\ stop[s].k \in 1..MaxInstances
         /\ health.at \in {"look", "handle"} =>
              health.agent \in Agents /\ health.k \in 1..MaxInstances
         /\ \A a \in Agents : inst[a] \in 0..MaxInstances
BY SMT DEF TypeOK, InstancesOK, CallsOK, StopsOK, HealthOK, IsLaunching

\* Instances as they are, coroutines that go on to nothing dangerous.
LEMMA QuietStep ==
  ASSUME IInv, TypeOK', UNCHANGED instances,
         \A c \in Callers : call'[c] = call[c] \/ call'[c].at \in {"idle", "check", "gate"},
         \A c \in Callers : call'[c].at = "prepare" => lock' = c,
         \A s \in Stoppers : stop'[s].at = "cancel" => stop'[s] = stop[s] /\ lock' = s,
         HealthLooks'
  PROVE  IInv'
<1> USE DEF instances
<1>1. Launches' BY SMT DEF IInv, Launches, IsLaunching, Id
<1>2. Prepares' BY SMT DEF IInv, Prepares, IsTaken, Current
<1>3. Cancels' BY SMT DEF IInv, Cancels
<1>4. ActiveHasRun' BY DEF IInv, ActiveHasRun
<1>5. RunIsWatched' BY SMT DEF IInv, RunIsWatched, IsTaken, Current
<1> QED BY <1>1, <1>2, <1>3, <1>4, <1>5 DEF IInv

\* The end of a call.
LEMMA ReturnStep ==
  ASSUME TypeOK, NEW c \in Callers, NEW o, Return(c, o)
  PROVE  /\ \A d \in Callers : IF d = c THEN call'[d] = Idle ELSE call'[d] = call[d]
         /\ health' = health \/ health'.at \notin {"look", "handle"}
         /\ stop' = stop
BY SMT DEF Return, TypeOK, CallsOK, NoHealth, Scanning

LEMMA QuietReturn ==
  ASSUME IInv, TypeOK', NEW c \in Callers, NEW o, Return(c, o), UNCHANGED instances,
         UNCHANGED lock \/ (lock = c /\ lock' = NoOne)
  PROVE  IInv'
<1>1. /\ \A d \in Callers : IF d = c THEN call'[d] = Idle ELSE call'[d] = call[d]
      /\ health' = health \/ health'.at \notin {"look", "handle"}
      /\ stop' = stop
  BY ReturnStep DEF IInv
<1>2. \A d \in Callers : call'[d] = call[d] \/ call'[d].at \in {"idle", "check", "gate"}
  BY <1>1 DEF Idle
<1>3. \A d \in Callers : call'[d].at = "prepare" => lock' = d
  <2>1. Idle.at # "prepare" BY DEF Idle
  <2>2. \A d \in Callers : call'[d].at = "prepare" => d # c /\ call[d].at = "prepare"
    BY <1>1, <2>1
  <2> QED BY <2>2 DEF IInv, Prepares
<1>4. \A s \in Stoppers : stop'[s].at = "cancel" => stop'[s] = stop[s] /\ lock' = s
  BY <1>1 DEF IInv, Cancels
<1>5. HealthLooks' BY <1>1, SMT DEF IInv, HealthLooks, instances
<1> QED BY <1>2, <1>3, <1>4, <1>5, QuietStep

\* A launch is over: its instance is ACTIVE and was launched, or OFFLINE and nothing
\* watched runs.
LEMMA FinishStep ==
  ASSUME IInv, TypeOK', NEW c \in Callers, NEW o, NEW s \in {"offline", "active"},
         IsLaunching(c), Return(c, o), SetState(call[c].agent, call[c].k, s),
         UNCHANGED <<inst, run, lock>>, unwatched \subseteq unwatched',
         call[c].at = "launch" => s = "offline",
         call[c].at = "name" => s = "active" \/ Id(c) \in unwatched'
  PROVE  IInv'
<1> DEFINE a == call[c].agent  k == call[c].k
<1>1. /\ \A d \in Callers : IF d = c THEN call'[d] = Idle ELSE call'[d] = call[d]
      /\ health' = health \/ health'.at \notin {"look", "handle"}
      /\ stop' = stop
  BY ReturnStep DEF IInv
<1>2. a \in Agents /\ k \in 1..MaxInstances /\ TypeOK /\ InstancesOK
  BY Busy DEF IInv, TypeOK, IsLaunching
<1>3. \A b \in Agents : \A j \in 1..MaxInstances :
        state'[b][j] = IF b = a /\ j = k THEN s ELSE state[b][j]
  BY <1>2, SetStateAt
<1>4. Launches' BY <1>1, <1>2, <1>3, Busy, SMT DEF IInv, Launches, IsLaunching, Id, Idle
<1>10. call[c].k # inst[a] \/ state[a][k] = "starting" \/ Id(c) \in unwatched
  BY DEF IInv, Launches
<1>5. Prepares'
  <2>1. ASSUME NEW d \in Callers, call'[d].at = "prepare"
        PROVE  /\ lock' = d
               /\ ~IsTaken(call[d].agent)' \/ <<call[d].agent, inst[call[d].agent]>> \in unwatched'
    <3> DEFINE b == call[d].agent
    <3>1. call'[d] = call[d] BY <1>1, <2>1 DEF Idle
    <3>2. b \in Agents BY <2>1, <3>1 DEF IInv, TypeOK, CallsOK
    <3>3. lock = d /\ (~IsTaken(b) \/ <<b, inst[b]>> \in unwatched)
      BY <2>1, <3>1 DEF IInv, Prepares
    <3>4. CASE b = a /\ inst[a] = k
      <4>1. CASE state[a][k] = "starting"
        <5>1. inst[a] # 0 BY <1>2, <3>4
        <5>2. IsTaken(a) BY <3>4, <4>1, <5>1 DEF IsTaken, Current
        <5> QED BY <3>1, <3>3, <3>4, <5>2
      <4>2. CASE Id(c) \in unwatched BY <3>1, <3>3, <3>4, <4>2 DEF Id
      <4> QED BY <1>10, <3>4, <4>1, <4>2
    <3>5. CASE ~(b = a /\ inst[a] = k)
      <4>1. inst[b] \in 0..MaxInstances BY <1>2, <3>2 DEF InstancesOK
      <4>2. inst[b] # 0 => state'[b][inst[b]] = state[b][inst[b]] BY <1>3, <3>2, <3>5, <4>1
      <4>3. IsTaken(b)' <=> IsTaken(b) BY <3>1, <4>2 DEF IsTaken, Current
      <4> QED BY <3>1, <3>3, <4>3
    <3> QED BY <3>4, <3>5
  <2>2. \A d \in Callers : call'[d].at = "prepare" => call'[d] = call[d]
    BY <1>1 DEF Idle
  <2> QED BY <2>1, <2>2 DEF Prepares, IsTaken, Current
<1>6. Cancels' BY <1>1, <1>2, <1>3, Busy, SMT DEF IInv, Cancels
<1>7. ActiveHasRun' BY <1>2, <1>3, SMT DEF IInv, ActiveHasRun, Launches, IsLaunching
<1>8. HealthLooks' BY <1>1, <1>2, <1>3, Busy, SMT DEF IInv, HealthLooks
<1>9. RunIsWatched'
  BY <1>2, <1>3, Busy, SMT DEF IInv, RunIsWatched, Launches, IsLaunching, Id, IsTaken, Current
<1> QED BY <1>4, <1>5, <1>6, <1>7, <1>8, <1>9 DEF IInv

LEMMA Distinct == \A c \in Callers : \A s \in Stoppers : c # s /\ c # NoOne /\ s # NoOne
OBVIOUS

LEMMA SpawningKeeps ==
  ASSUME IInv, TypeOK', NEW c \in Callers, Spawning(c)
  PROVE  IInv'
<1> DEFINE a == call[c].agent  k == call[c].k
<1>0. /\ a \in Agents /\ TypeOK /\ InstancesOK
      /\ \A d \in Callers : d # c => call'[d] = call[d]
  <2>1. call[c].at # "idle"
    BY DEF Spawning, FirstCheck, GateBails, Recheck, Prepare, LaunchBails, RunJob, Launched
  <2>2. TypeOK /\ InstancesOK /\ CallsOK BY DEF IInv, TypeOK
  <2>3. \E x : call' = [call EXCEPT ![c] = x]
    <3>1. ASSUME NEW o, Return(c, o) PROVE \E x : call' = [call EXCEPT ![c] = x] BY <3>1 DEF Return
    <3>2. ASSUME NEW at, Continue(c, at) PROVE \E x : call' = [call EXCEPT ![c] = x] BY <3>2 DEF Continue, Goto
    <3>3. CASE Prepare(c) BY <3>3 DEF Prepare
    <3> QED BY <3>1, <3>2, <3>3
            DEF Spawning, FirstCheck, GateBails, Recheck, LaunchBails, RunJob, Launched
  <2> QED BY <2>1, <2>2, <2>3, SMT DEF CallsOK
<1>1. CASE FirstCheck(c)
  <2>1. CASE IsTaken(a) BY <1>1, <2>1, QuietReturn DEF FirstCheck
  <2>2. CASE ~IsTaken(a)
    <3>1. call'[c].at = "gate" /\ lock' = lock /\ UNCHANGED <<instances, health, stop>>
      BY <1>0, <1>1, <2>2, SMT DEF FirstCheck, Continue, Goto, TypeOK, CallsOK
    <3>2. HealthLooks' BY <3>1 DEF IInv, HealthLooks, instances
    <3>3. \A d \in Callers : call'[d].at = "prepare" => lock' = d
      BY <1>0, <3>1 DEF IInv, Prepares
    <3>4. \A s \in Stoppers : stop'[s].at = "cancel" => stop'[s] = stop[s] /\ lock' = s
      BY <3>1 DEF IInv, Cancels
    <3> QED BY <1>0, <3>1, <3>2, <3>3, <3>4, QuietStep
  <2> QED BY <2>1, <2>2
<1>2. CASE GateBails(c) BY <1>2, QuietReturn DEF GateBails
<1>3. CASE Recheck(c)
  <2>1. CASE IsTaken(a) BY <1>3, <2>1, QuietReturn DEF Recheck
  <2>2. CASE ~IsTaken(a)
    <3>1. /\ call'[c].at = "prepare" /\ call'[c].agent = a /\ lock = NoOne /\ lock' = c
          /\ UNCHANGED <<instances, health, stop>>
      BY <1>0, <1>3, <2>2, SMT DEF Recheck, Continue, Goto, TypeOK, CallsOK
    <3>2. Launches'
      BY <1>0, <3>1, SMT DEF IInv, Launches, IsLaunching, Id, instances
    <3>3. Prepares'
      <4>1. ~IsTaken(a)' BY <2>2, <3>1 DEF IsTaken, Current, instances
      <4>2. \A d \in Callers : call[d].at # "prepare" BY <3>1, Distinct DEF IInv, Prepares
      <4> QED BY <1>0, <3>1, <4>1, <4>2 DEF Prepares
    <3>4. Cancels' BY <3>1, Distinct DEF IInv, Cancels
    <3>5. ActiveHasRun' /\ HealthLooks' BY <3>1 DEF IInv, ActiveHasRun, HealthLooks, instances
    <3>6. RunIsWatched' BY <3>1 DEF IInv, RunIsWatched, IsTaken, Current, instances
    <3> QED BY <3>2, <3>3, <3>4, <3>5, <3>6 DEF IInv
  <2> QED BY <2>1, <2>2
<1>4. CASE Prepare(c)
  <2> DEFINE fresh == {j \in 1..MaxInstances : ~IsHeld(a, j)}
  <2>1. PICK n \in fresh :
          /\ inst' = [inst EXCEPT ![a] = n]
          /\ state' = [state EXCEPT ![a] = [j \in 1..MaxInstances |-> IF j = n THEN "starting"
                                           ELSE IF j \in fresh THEN "unborn" ELSE @[j]]]
          /\ run' = [run EXCEPT ![a] = [j \in 1..MaxInstances |-> IF j \in fresh THEN "none" ELSE @[j]]]
          /\ unwatched' = unwatched \ ({a} \X fresh)
          /\ call' = [call EXCEPT ![c] = [at |-> "launch", agent |-> a, k |-> n]]
    BY <1>4 DEF Prepare
  <2>2. /\ \A d \in Callers : <<call[d].agent, call[d].k>> \notin {a} \X fresh
        /\ <<health.agent, health.k>> \notin {a} \X fresh
        /\ n \in 1..MaxInstances /\ fresh \subseteq 1..MaxInstances
    BY DEF IsHeld
  <2> HIDE DEF fresh
  <2>3. \A b \in Agents : \A j \in 1..MaxInstances :
          /\ inst'[b] = IF b = a THEN n ELSE inst[b]
          /\ state'[b][j] = IF b # a \/ j \notin fresh THEN state[b][j]
                            ELSE IF j = n THEN "starting" ELSE "unborn"
          /\ run'[b][j] = IF b = a /\ j \in fresh THEN "none" ELSE run[b][j]
    BY <1>0, <2>1, <2>2, SMT DEF InstancesOK
  <2>4. /\ call'[c].at = "launch" /\ call'[c].agent = a /\ call'[c].k = n
        /\ lock = c /\ lock' = NoOne /\ UNCHANGED <<health, stop>>
        /\ ~IsTaken(a) \/ <<a, inst[a]>> \in unwatched
    BY <1>0, <1>4, <2>1, SMT DEF Prepare, IInv, Prepares, TypeOK, CallsOK
  <2>5. Launches'
    <3> DEFINE free(d) == \/ Id(d) \in unwatched
                          \/ /\ call[d].k = inst[call[d].agent]
                             /\ state[call[d].agent][call[d].k] = "starting"
    <3>1. ASSUME NEW d \in Callers, d # c, IsLaunching(d)
          PROVE  /\ call'[d] = call[d] /\ Id(d)' # Id(c)'
                 /\ run'[call[d].agent][call[d].k] = run[call[d].agent][call[d].k]
                 /\ \/ Id(d) \in unwatched'
                    \/ /\ call[d].k = inst'[call[d].agent]
                       /\ state'[call[d].agent][call[d].k] = "starting"
      <4>1. call'[d] = call[d] /\ call[d].agent \in Agents /\ call[d].k \in 1..MaxInstances
        BY <1>0, <3>1, Busy DEF IsLaunching
      <4>2. ~(call[d].agent = a /\ call[d].k \in fresh) BY <2>2
      <4>3. run'[call[d].agent][call[d].k] = run[call[d].agent][call[d].k]
        BY <2>3, <4>1, <4>2
      <4>4. Id(d)' # Id(c)' BY <2>1, <2>4, <4>1, <4>2 DEF Id
      <4>5. free(d) BY <3>1 DEF IInv, Launches
      <4>6. CASE Id(d) \in unwatched BY <2>1, <4>2, <4>1, <4>3, <4>4, <4>6 DEF Id
      <4>7. CASE Id(d) \notin unwatched
        <5>1. call[d].agent # a
          BY <2>4, <4>1, <4>5, <4>7 DEF Id, IsTaken, Current, InstancesOK
        <5> QED BY <2>3, <4>1, <4>3, <4>4, <4>5, <4>7, <5>1
      <4> QED BY <4>6, <4>7
    <3>2. /\ run'[call'[c].agent][call'[c].k] = "none"
          /\ call'[c].k = inst'[call'[c].agent] /\ state'[call'[c].agent][call'[c].k] = "starting"
      BY <1>0, <2>1, <2>2, <2>3, <2>4
    <3>3. \A d \in Callers : IsLaunching(d)' => d = c \/ IsLaunching(d)
      BY <1>0 DEF IsLaunching
    <3>4. IsLaunching(c)' /\ \A d \in Callers : d # c /\ IsLaunching(d)' => IsLaunching(d)
      BY <2>4, <3>3 DEF IsLaunching
    <3> DEFINE own(d) == /\ call[d].at = "launch" => run[call[d].agent][call[d].k] = "none"
                         /\ call[d].at = "name" => run[call[d].agent][call[d].k] # "none"
                         /\ IsLaunching(d) =>
                              \/ Id(d) \in unwatched
                              \/ /\ call[d].k = inst[call[d].agent]
                                 /\ state[call[d].agent][call[d].k] = "starting"
    <3>5. own(c)' BY <2>4, <3>2
    <3>6. ASSUME NEW d \in Callers, d # c PROVE own(d)'
      <4>1. CASE IsLaunching(d)'
        <5>1. IsLaunching(d) BY <3>4, <3>6, <4>1
        <5>2. /\ call[d].at = "launch" => run[call[d].agent][call[d].k] = "none"
              /\ call[d].at = "name" => run[call[d].agent][call[d].k] # "none"
          BY DEF IInv, Launches
        <5> QED BY <3>1, <3>6, <5>1, <5>2 DEF Id
      <4>2. CASE ~IsLaunching(d)' BY <4>2 DEF IsLaunching
      <4> QED BY <4>1, <4>2
    <3>7. ASSUME NEW d \in Callers, NEW e \in Callers,
                 IsLaunching(d)', IsLaunching(e)', Id(d)' = Id(e)'
          PROVE  d = e
      <4>1. CASE d = c \/ e = c BY <3>1, <3>4, <3>7, <4>1
      <4>2. CASE d # c /\ e # c
        <5>1. IsLaunching(d) /\ IsLaunching(e) BY <3>4, <3>7, <4>2
        <5>2. Id(d) = Id(e) BY <3>1, <3>7, <4>2, <5>1 DEF Id
        <5> QED BY <5>1, <5>2 DEF IInv, Launches
      <4> QED BY <4>1, <4>2
    <3> HIDE DEF own
    <3>8. Launches' <=> \A d \in Callers :
             /\ own(d)'
             /\ \A e \in Callers : IsLaunching(d)' /\ IsLaunching(e)' /\ Id(d)' = Id(e)' => d = e
      BY DEF Launches, own
    <3> QED BY <3>5, <3>6, <3>7, <3>8
  <2>6. Prepares' BY <1>0, <2>4 DEF IInv, Prepares
  <2>7. Cancels' BY <2>4, Distinct DEF IInv, Cancels
  <2>8. ActiveHasRun' BY <2>3, SMT DEF IInv, ActiveHasRun
  <2>9. HealthLooks'
    <3>1. ASSUME health.at \in {"look", "handle"}
          PROVE  health.agent \in Agents /\ health.k \in 1..MaxInstances
                 /\ ~(health.agent = a /\ health.k \in fresh)
      BY <1>0, <2>2, <3>1, Busy
    <3> QED BY <2>3, <2>4, <3>1, SMT DEF IInv, HealthLooks
  <2>10. RunIsWatched'
    <3>1. ASSUME NEW b \in Agents, NEW j \in 1..MaxInstances, run'[b][j] = "running",
                 <<b, j>> \notin unwatched'
          PROVE  b # a /\ run[b][j] = "running" /\ <<b, j>> \notin unwatched
      <4>1. ~(b = a /\ j \in fresh) /\ run[b][j] = "running" BY <2>3, <3>1
      <4>2. <<b, j>> \notin unwatched BY <2>1, <3>1, <4>1
      <4>3. j = inst[b] /\ IsTaken(b) BY <4>1, <4>2 DEF IInv, RunIsWatched
      <4> QED BY <2>4, <4>1, <4>2, <4>3
    <3> QED BY <2>3, <3>1, Busy, <1>0, SMT DEF IInv, RunIsWatched, IsTaken, Current
  <2> QED BY <2>5, <2>6, <2>7, <2>8, <2>9, <2>10 DEF IInv
<1>5. CASE LaunchBails(c) BY <1>5, FinishStep DEF LaunchBails, IsLaunching
<1>6. CASE RunJob(c)
  <2>1. k \in 1..MaxInstances BY <1>0, <1>6, Busy DEF RunJob, IsLaunching
  <2>2. run' = [run EXCEPT ![a] = [run[a] EXCEPT ![k] = "running"]] BY <1>6 DEF RunJob
  <2>3. \A b \in Agents : \A j \in 1..MaxInstances :
          run'[b][j] = IF b = a /\ j = k THEN "running" ELSE run[b][j]
    BY <1>0, <2>2, SMT DEF InstancesOK
  <2>4. /\ call[c].at = "launch" /\ call'[c].at = "name" /\ call'[c].agent = a /\ call'[c].k = k
        /\ UNCHANGED <<inst, state, unwatched, lock, health, stop>>
    BY <1>0, <1>6, SMT DEF RunJob, Continue, Goto, TypeOK, CallsOK
  <2>5. Launches' BY <1>0, <2>1, <2>3, <2>4, Busy, SMT DEF IInv, Launches, IsLaunching, Id
  <2>6. Prepares' BY <1>0, <2>4 DEF IInv, Prepares, IsTaken, Current
  <2>7. Cancels' BY <2>4 DEF IInv, Cancels
  <2>8. ActiveHasRun' BY <2>3, <2>4, SMT DEF IInv, ActiveHasRun
  <2>9. HealthLooks'
    BY <1>0, <2>1, <2>3, <2>4, Busy, SMT DEF IInv, HealthLooks, Launches, IsLaunching
  <2>10. RunIsWatched'
    BY <1>0, <2>1, <2>3, <2>4, SMT DEF IInv, RunIsWatched, Launches, IsLaunching, Id, IsTaken, Current
  <2> QED BY <2>5, <2>6, <2>7, <2>8, <2>9, <2>10 DEF IInv
<1>7. CASE Launched(c) BY <1>7, FinishStep DEF Launched, IsLaunching
<1> QED BY <1>1, <1>2, <1>3, <1>4, <1>5, <1>6, <1>7 DEF Spawning

LEMMA CallersKeep ==
  ASSUME IInv, TypeOK', NEW c \in Callers,
         Refuse(c) \/ PrepareFails(c) \/ LaunchFails(c) \/ \E a \in Agents : Dispatch(c, a)
  PROVE  IInv'
<1>1. CASE Refuse(c) BY <1>1, QuietReturn DEF Refuse
<1>2. CASE PrepareFails(c)
  <2>1. lock = c BY <1>2 DEF PrepareFails, IInv, Prepares
  <2> QED BY <1>2, <2>1, QuietReturn DEF PrepareFails
<1>3. CASE LaunchFails(c)
  <2>1. IsLaunching(c) /\ unwatched \subseteq unwatched'
        /\ (call[c].at = "name" => Id(c) \in unwatched')
    BY <1>3 DEF LaunchFails, IsLaunching, Id
  <2> QED BY <1>3, <2>1, FinishStep DEF LaunchFails
<1>4. ASSUME NEW a \in Agents, Dispatch(c, a) PROVE IInv'
  <2>1. /\ \A d \in Callers : call'[d] = call[d] \/ call'[d].at = "check"
        /\ UNCHANGED <<instances, lock, stop, health>>
    BY <1>4, SMT DEF Dispatch, Begin, IInv, TypeOK, CallsOK
  <2>2. HealthLooks' BY <2>1 DEF IInv, HealthLooks, instances
  <2>3. \A d \in Callers : call'[d].at = "prepare" => lock' = d BY <2>1 DEF IInv, Prepares
  <2>4. \A s \in Stoppers : stop'[s].at = "cancel" => stop'[s] = stop[s] /\ lock' = s
    BY <2>1 DEF IInv, Cancels
  <2> QED BY <2>1, <2>2, <2>3, <2>4, QuietStep
<1> QED BY <1>1, <1>2, <1>3, <1>4

\* Nothing but a stop's coroutine and the lock.
LEMMA QuietStop ==
  ASSUME IInv, TypeOK', UNCHANGED <<instances, call, health>>, NEW s \in Stoppers,
         \E x : x.at # "cancel" /\ stop' = [stop EXCEPT ![s] = x],
         UNCHANGED lock \/ (lock = s /\ lock' = NoOne)
  PROVE  IInv'
<1>1. stop'[s].at # "cancel" /\ \A t \in Stoppers : t # s => stop'[t] = stop[t]
  BY DEF IInv, TypeOK, StopsOK
<1>2. \A c \in Callers : call'[c].at = "prepare" => lock' = c
  <2>1. \A c \in Callers : call[c].at = "prepare" => lock = c BY DEF IInv, Prepares
  <2>2. \A c \in Callers : call'[c].at = "prepare" => lock # s BY <2>1, Distinct
  <2> QED BY <2>1, <2>2
<1>3. \A t \in Stoppers : stop'[t].at = "cancel" => stop'[t] = stop[t] /\ lock' = t
  BY <1>1 DEF IInv, Cancels
<1>4. HealthLooks' BY DEF IInv, HealthLooks, instances
<1> QED BY <1>2, <1>3, <1>4, QuietStep

LEMMA NextStopLeaves ==
  ASSUME NEW s \in Stoppers, NextStop(s)
  PROVE  \E x : x.at # "cancel" /\ stop' = [stop EXCEPT ![s] = x]
<1>1. \A todo, b, then : StopCall("mark", todo, b, then).at # "cancel" /\ NoStop.at # "cancel"
  BY DEF StopCall, NoStop
<1> QED BY <1>1 DEF NextStop

LEMMA StoppingKeeps ==
  ASSUME IInv, TypeOK', NEW s \in Stoppers,
         Stopping(s) \/ CancelFails(s) \/ \E a \in Agents : StopAgent(s, a) \/ RateLimited(s, a)
  PROVE  IInv'
<1> DEFINE a == stop[s].agent
<1>0. TypeOK /\ InstancesOK /\ StopsOK BY DEF IInv, TypeOK
<1>1. CASE MarkWaiting(s)
  <2>1. PICK b \in stop[s].todo :
          stop' = [stop EXCEPT ![s].at = "lock", ![s].agent = b, ![s].todo = @ \ {b}]
    BY <1>1 DEF MarkWaiting
  <2>2. stop'[s].at = "lock" /\ \A t \in Stoppers : t # s => stop'[t] = stop[t]
    BY <1>0, <2>1, SMT DEF StopsOK
  <2>3. stop' = [stop EXCEPT ![s] = stop'[s]] BY <1>0, <2>1, SMT DEF StopsOK
  <2> QED BY <1>1, <2>2, <2>3, QuietStop DEF MarkWaiting
<1>2. CASE StopUnderLock(s)
  <2> DEFINE k == inst[a]
  <2>0. a \in Agents /\ stop[s].then \in {"waiting", "offline"} /\ lock = NoOne
    BY <1>0, <1>2, SMT DEF StopUnderLock, StopsOK
  <2>1. PICK t \in {"stopping", "waiting", "offline"} : SetState(a, k, t)
    BY <1>2, <2>0 DEF StopUnderLock
  <2>2. \A b \in Agents : \A j \in 1..MaxInstances :
          state'[b][j] = IF b = a /\ j = k THEN t ELSE state[b][j]
    BY <1>0, <2>0, <2>1, SetStateAt
  <2>3. /\ \A c \in Callers : call[c].at # "prepare"
        /\ \A u \in Stoppers : stop[u].at # "cancel"
    BY <2>0, Distinct DEF IInv, Prepares, Cancels
  <2>4. /\ UNCHANGED <<inst, run, call, health>> /\ unwatched \subseteq unwatched'
        /\ Current(a) = "starting" => <<a, k>> \in unwatched'
    BY <1>2 DEF StopUnderLock
  <2>5. Launches'
    BY <2>0, <2>2, <2>4, Busy, <1>0, SMT DEF IInv, Launches, IsLaunching, Id, Current
  <2>6. Prepares' BY <2>3, <2>4 DEF Prepares
  <2>7. Cancels'
    <3>1. CASE Current(a) \in {"active", "stopping"}
      <4>1. stop'[s].at = "cancel" /\ stop'[s].agent = a /\ stop'[s].k = k /\ lock' = s
            /\ \A u \in Stoppers : u # s => stop'[u] = stop[u]
        BY <1>0, <1>2, <3>1, SMT DEF StopUnderLock, StopsOK
      <4>2. k \in 1..MaxInstances /\ SetState(a, k, "stopping")
        BY <1>0, <1>2, <2>0, <3>1 DEF StopUnderLock, Current, InstancesOK
      <4>3. state'[a][k] = "stopping" BY <1>0, <2>0, <4>2, SetStateAt
      <4> QED BY <2>3, <4>1, <4>3 DEF Cancels
    <3>2. CASE Current(a) \notin {"active", "stopping"}
      <4>1. NextStop(s) BY <1>2, <3>2 DEF StopUnderLock
      <4> QED BY <1>0, <2>3, <4>1, NextStopLeaves DEF Cancels, StopsOK
    <3> QED BY <3>1, <3>2
  <2>8. ActiveHasRun' BY <2>2, <2>4, SMT DEF IInv, ActiveHasRun
  <2>9. HealthLooks' BY <1>0, <2>2, <2>4, Busy, SMT DEF IInv, HealthLooks
  <2>10. RunIsWatched'
    <3>1. ASSUME NEW j \in 1..MaxInstances, run[a][j] = "running", <<a, j>> \notin unwatched'
          PROVE  j = k /\ state'[a][k] = "stopping"
      <4>1. j = k /\ IsTaken(a) BY <2>0, <2>4, <3>1 DEF IInv, RunIsWatched
      <4>2. Current(a) \in {"active", "stopping"} BY <2>4, <3>1, <4>1 DEF IsTaken
      <4>3. SetState(a, k, "stopping") BY <1>2, <4>2 DEF StopUnderLock
      <4>4. state'[a][k] = "stopping" BY <1>0, <2>0, <3>1, <4>1, <4>3, SetStateAt
      <4> QED BY <4>1, <4>4
    <3> QED BY <1>0, <2>2, <2>4, <3>1, Busy, SMT DEF IInv, RunIsWatched, IsTaken, Current
  <2> QED BY <2>5, <2>6, <2>7, <2>8, <2>9, <2>10 DEF IInv
<1>3. CASE CancelExecution(s)
  <2> DEFINE k == stop[s].k
  <2>0. /\ a \in Agents /\ k \in 1..MaxInstances /\ stop[s].then \in {"waiting", "offline"}
        /\ lock = s /\ state[a][k] # "starting"
    BY <1>0, <1>3, SMT DEF CancelExecution, StopsOK, IInv, Cancels
  <2>1. \A b \in Agents : \A j \in 1..MaxInstances :
          state'[b][j] = IF b = a /\ j = k THEN stop[s].then ELSE state[b][j]
    BY <1>0, <1>3, <2>0, SetStateAt DEF CancelExecution
  <2>2. \A b \in Agents : \A j \in 1..MaxInstances :
          run'[b][j] = IF b = a /\ j = k /\ run[b][j] = "running" THEN "failed" ELSE run[b][j]
    BY <1>0, <1>3, <2>0, SMT DEF CancelExecution, InstancesOK
  <2>3. /\ UNCHANGED <<inst, unwatched, call, health>>
        /\ stop'[s].at # "cancel" /\ \A u \in Stoppers : u # s => stop'[u] = stop[u]
    BY <1>0, <1>3, NextStopLeaves DEF CancelExecution, StopsOK
  <2>4. Launches' BY <1>0, <2>0, <2>1, <2>2, <2>3, Busy, SMT DEF IInv, Launches, IsLaunching, Id
  <2>5. Prepares' BY <2>0, <2>3, Distinct DEF IInv, Prepares
  <2>6. Cancels' BY <2>0, <2>3 DEF IInv, Cancels
  <2>7. ActiveHasRun' BY <2>0, <2>1, <2>2, SMT DEF IInv, ActiveHasRun
  <2>8. HealthLooks' BY <1>0, <2>0, <2>1, <2>2, <2>3, Busy, SMT DEF IInv, HealthLooks
  <2>9. RunIsWatched'
    BY <1>0, <2>0, <2>1, <2>2, <2>3, Busy, SMT DEF IInv, RunIsWatched, IsTaken, Current
  <2> QED BY <2>4, <2>5, <2>6, <2>7, <2>8, <2>9 DEF IInv
<1>4. CASE ActivateLimit(s)
  <2>1. NoStop.at # "cancel" BY DEF NoStop, StopCall
  <2> QED BY <1>4, <2>1, QuietStop DEF ActivateLimit
<1>5. CASE CancelFails(s)
  <2>1. lock = s BY <1>5 DEF CancelFails, IInv, Cancels
  <2> QED BY <1>5, <2>1, NextStopLeaves, QuietStop DEF CancelFails, instances
<1>6. ASSUME NEW b \in Agents, StopAgent(s, b) PROVE IInv'
  <2>1. StopCall("lock", {}, b, "offline").at # "cancel" BY DEF StopCall
  <2> QED BY <1>6, <2>1, QuietStop DEF StopAgent
<1>7. ASSUME NEW b \in Agents, RateLimited(s, b) PROVE IInv'
  <2> DEFINE x == StopCall("mark", {d \in Agents : Current(d) \in {"active", "starting"}}, NoOne, "waiting")
  <2>1. x.at # "cancel" BY DEF StopCall
  <2> QED BY <1>7, <2>1, QuietStop DEF RateLimited
<1> QED BY <1>1, <1>2, <1>3, <1>4, <1>5, <1>6, <1>7 DEF Stopping

\* A step of the health or the probe loop, or of a confirmation, that leaves the
\* instances, the lock and the stops alone.
LEMMA QuietLoop ==
  ASSUME IInv, TypeOK', UNCHANGED <<instances, lock, stop>>,
         \/ UNCHANGED call
         \/ \E c \in Callers : \E a \in Agents : Begin(c, a),
         HealthLooks'
  PROVE  IInv'
<1>1. \A c \in Callers : call'[c] = call[c] \/ call'[c].at = "check"
  BY SMT DEF Begin, IInv, TypeOK, CallsOK
<1>2. \A c \in Callers : call'[c].at = "prepare" => lock' = c BY <1>1 DEF IInv, Prepares
<1>3. \A s \in Stoppers : stop'[s].at = "cancel" => stop'[s] = stop[s] /\ lock' = s
  BY DEF IInv, Cancels
<1> QED BY <1>1, <1>2, <1>3, QuietStep

LEMMA HealthKeeps ==
  ASSUME IInv, TypeOK', Health
  PROVE  IInv'
<1> DEFINE a == health.agent  k == health.k
<1>0. TypeOK /\ InstancesOK /\ HealthOK BY DEF IInv, TypeOK
<1>1. CASE HealthTick
  <2>1. HealthLooks' BY <1>1, SMT DEF HealthTick, HealthLooks, Scanning
  <2> QED BY <1>1, <2>1, QuietLoop DEF HealthTick
<1>2. CASE HealthNext
  <2>1. UNCHANGED <<instances, lock, stop, call>> BY <1>2 DEF HealthNext
  <2>2. CASE health' = NoHealth
    <3>1. HealthLooks' BY <2>2, SMT DEF HealthLooks, NoHealth
    <3> QED BY <2>1, <3>1, QuietLoop
  <2>3. ASSUME NEW p \in health.todo,
               health' = IF state[p[1]][p[2]] = "active"
                         THEN [at |-> "look", todo |-> health.todo \ {p}, agent |-> p[1], k |-> p[2]]
                         ELSE Scanning(health.todo \ {p})
        PROVE  IInv'
    <3>1. p[1] \in Agents /\ p[2] \in 1..MaxInstances BY <1>0, <2>3 DEF HealthOK
    <3>2. HealthLooks'
      BY <2>1, <2>3, <3>1, SMT DEF HealthLooks, Scanning, IInv, ActiveHasRun, instances
    <3> QED BY <2>1, <3>2, QuietLoop
  <2> QED BY <1>2, <2>2, <2>3 DEF HealthNext
<1>3. CASE ExecutionOutcome
  <2>1. HealthLooks'
    BY <1>0, <1>3, SMT DEF ExecutionOutcome, HealthLooks, HealthOK, Scanning, IInv, instances
  <2> QED BY <1>3, <2>1, QuietLoop DEF ExecutionOutcome
<1>4. CASE HandleStopped
  <2>0. /\ a \in Agents /\ k \in 1..MaxInstances /\ health.at = "handle"
        /\ run[a][k] # "running" /\ run[a][k] # "none" /\ state[a][k] # "starting"
    BY <1>4, Busy, <1>0 DEF HandleStopped, IInv, HealthLooks
  <2>1. \A b \in Agents : \A j \in 1..MaxInstances :
          state'[b][j] = IF b = a /\ j = k THEN "offline" ELSE state[b][j]
    BY <1>0, <1>4, <2>0, SetStateAt DEF HandleStopped
  <2>2. \A c \in Callers : call'[c] = call[c] \/ call'[c].at = "check"
    <3>1. UNCHANGED call \/ Begin("health", a) BY <1>4 DEF HandleStopped
    <3> QED BY <1>0, <3>1, SMT DEF Begin, TypeOK, CallsOK, Callers
  <2>3. UNCHANGED <<inst, run, unwatched, lock, stop>> BY <1>4 DEF HandleStopped
  <2>4. Launches' BY <1>0, <2>0, <2>1, <2>2, <2>3, Busy, SMT DEF IInv, Launches, IsLaunching, Id
  <2>5. Prepares'
    BY <1>0, <2>0, <2>1, <2>2, <2>3, Busy, SMT DEF IInv, Prepares, IsTaken, Current
  <2>6. Cancels' BY <1>0, <2>0, <2>1, <2>3, Busy, SMT DEF IInv, Cancels
  <2>7. ActiveHasRun' BY <2>1, <2>3, SMT DEF IInv, ActiveHasRun
  <2>8. HealthLooks' BY <1>0, <1>4, SMT DEF HandleStopped, HealthOK, HealthLooks, Scanning
  <2>9. RunIsWatched'
    BY <1>0, <2>0, <2>1, <2>3, Busy, SMT DEF IInv, RunIsWatched, IsTaken, Current
  <2> QED BY <2>4, <2>5, <2>6, <2>7, <2>8, <2>9 DEF IInv
<1>5. CASE ParkProvider
  <2>1. HealthLooks' BY <1>5, SMT DEF ParkProvider, HealthLooks, Scanning
  <2> QED BY <1>5, <2>1, QuietLoop DEF ParkProvider
<1> QED BY <1>1, <1>2, <1>3, <1>4, <1>5 DEF Health

LEMMA ProbeKeeps ==
  ASSUME IInv, TypeOK', Probe \/ \E a \in Agents : ConfirmLiveness(a)
  PROVE  IInv'
<1>1. UNCHANGED <<instances, lock, stop, health>>
  BY DEF Probe, Sweep, ResolveWait, SweepOrphans, SweepDone, SkipProbe, ProbeSucceeds, ConfirmLiveness
<1>2. UNCHANGED call \/ \E c \in Callers : \E a \in Agents : Begin(c, a)
  <2>1. CASE ResolveWait
    <3>1. UNCHANGED call \/ \E a \in probe.agents : UNCHANGED call \/ Begin("probe", a)
      BY <2>1 DEF ResolveWait
    <3>2. probe.agents \subseteq Agents BY SMT DEF IInv, TypeOK, ProbeOK
    <3> QED BY <3>1, <3>2 DEF Callers
  <2>2. CASE ~ResolveWait
    BY <2>2 DEF Probe, Sweep, SweepOrphans, SweepDone, SkipProbe, ProbeSucceeds, ConfirmLiveness
  <2> QED BY <2>1, <2>2
<1>3. HealthLooks' BY <1>1 DEF IInv, HealthLooks, instances
<1> QED BY <1>1, <1>2, <1>3, QuietLoop

LEMMA ExitKeeps ==
  ASSUME IInv, TypeOK', NEW a \in Agents, NEW k \in 1..MaxInstances, Exit(a, k)
  PROVE  IInv'
<1>0. TypeOK /\ InstancesOK BY DEF IInv, TypeOK
<1>1. PICK r \in {"done", "limited", "failed"} : run' = [run EXCEPT ![a][k] = r] BY DEF Exit
<1>2. \A b \in Agents : \A j \in 1..MaxInstances :
        run'[b][j] = IF b = a /\ j = k THEN r ELSE run[b][j]
  BY <1>0, <1>1, SMT DEF InstancesOK
<1>3. run[a][k] = "running" /\ UNCHANGED <<inst, state, unwatched, lock, call, stop, health>>
  BY DEF Exit
<1>4. Launches' BY <1>0, <1>2, <1>3, Busy, SMT DEF IInv, Launches, IsLaunching, Id
<1>5. Prepares' /\ Cancels' BY <1>3 DEF IInv, Prepares, Cancels, IsTaken, Current
<1>6. ActiveHasRun' BY <1>2, <1>3, SMT DEF IInv, ActiveHasRun
<1>7. HealthLooks' BY <1>0, <1>2, <1>3, Busy, SMT DEF IInv, HealthLooks
<1>8. RunIsWatched' BY <1>2, <1>3, SMT DEF IInv, RunIsWatched, IsTaken, Current
<1> QED BY <1>4, <1>5, <1>6, <1>7, <1>8 DEF IInv

LEMMA RestartKeeps ==
  ASSUME IInv, TypeOK', Restart
  PROVE  IInv'
<1>1. /\ \A c \in Callers : call'[c].at = "idle"
      /\ \A s \in Stoppers : stop'[s].at = "idle"
      /\ health'.at = "idle" /\ UNCHANGED <<state, run>>
      /\ \A a \in Agents : \A k \in 1..MaxInstances :
           run[a][k] = "running" => <<a, k>> \in unwatched'
  BY SMT DEF Restart, Idle, NoStop, StopCall, NoHealth
<1>2. Launches' /\ Prepares' /\ Cancels' /\ HealthLooks'
  BY <1>1 DEF Launches, Prepares, Cancels, HealthLooks, IsLaunching
<1>3. ActiveHasRun' BY <1>1 DEF IInv, ActiveHasRun
<1>4. RunIsWatched' BY <1>1 DEF RunIsWatched
<1> QED BY <1>2, <1>3, <1>4 DEF IInv

LEMMA IInvInit == Init => IInv
<1> SUFFICES ASSUME Init PROVE IInv OBVIOUS
<1>1. TypeOK BY InitTypes
<1>2. Launches /\ Prepares /\ Cancels /\ HealthLooks
  BY SMT DEF Init, Launches, Prepares, Cancels, HealthLooks, IsLaunching, Idle, NoStop, StopCall, NoHealth
<1>3. ActiveHasRun /\ RunIsWatched BY SMT DEF Init, ActiveHasRun, RunIsWatched
<1> QED BY <1>1, <1>2, <1>3 DEF IInv

LEMMA IInvStep == IInv /\ [Next]_vars => IInv'
<1> SUFFICES ASSUME IInv, [Next]_vars PROVE IInv' OBVIOUS
<1>1. TypeOK' BY StepTypes DEF IInv
<1>2. CASE Next
  BY <1>1, <1>2, SpawningKeeps, CallersKeep, StoppingKeeps, HealthKeeps, ProbeKeeps, ExitKeeps,
     RestartKeeps DEF Next
<1>3. CASE UNCHANGED vars
  <2>1. HealthLooks' BY <1>3 DEF IInv, HealthLooks, vars, instances
  <2> QED BY <1>1, <1>3, <2>1, QuietLoop DEF vars
<1> QED BY <1>2, <1>3

LEMMA IInvariance == Spec => []IInv
BY IInvInit, IInvStep, PTL DEF Spec

\* What runs is what _instances shows, unless it was let out of sight.
THEOREM RunsAreWatched == Spec => []RunIsWatched
<1>1. IInv => RunIsWatched BY DEF IInv
<1> QED BY <1>1, IInvariance, PTL

\* Two executions of an agent run at a time only if one was let out of sight.
THEOREM OneRunEach == Spec => []OneRun
<1>1. IInv => OneRun BY DEF IInv, RunIsWatched, OneRun
<1> QED BY <1>1, IInvariance, PTL

=============================================================================
