------------------------- MODULE Execution_proofs --------------------------
(***************************************************************************)
(* What is executed.  First the joint plans of several arms: their         *)
(* admission, the joint step, the report of a run and the finality of a    *)
(* stop, for any agents, fragments and number of ticks.  Then evaluation:  *)
(* what its episodes, traces and reports say, for any policies, horizons,  *)
(* limits, observations and number of episodes.                            *)
(***************************************************************************)
EXTENDS MultiAgentExecution, EvaluationRun, WellFoundedInduction, FiniteSetTheorems,
        TLAPS

-----------------------------------------------------------------------------
(* Admission.                                                              *)

LEMMA ZonesOfPlaces ==
    /\ \A agent : RobotZone(agent) \in {"left", "right", "unknown"}
    /\ \A target : TargetZone(target) \in {"bin_left", "bin_right", "center", "unknown"}
    /\ \A object : ObjectZone(object) \in {"left", "right", "unknown"}
  BY DEF RobotZone, TargetZone, ObjectZone

\* What an arm claims when it puts an object down somewhere known.
LEMMA KnownZones ==
    ASSUME NEW agent, NEW call, call.skill = Put, "unknown" \notin Claim(agent, call).zones
    PROVE  /\ RobotZone(agent) \in {"left", "right"}
           /\ ObjectZone(call.object) \in {"left", "right"}
           /\ TargetZone(call.target) \in {"bin_left", "bin_right", "center"}
           /\ {RobotZone(agent), ObjectZone(call.object), TargetZone(call.target)}
                 \subseteq Claim(agent, call).zones
           /\ Crosses(RobotZone(agent), TargetZone(call.target))
                 => "center" \in Claim(agent, call).zones
  <1>1. Claim(agent, call).zones = ZonesForPut(agent, call.object, call.target)
    BY DEF Claim
  <1> DEFINE zones == {RobotZone(agent), ObjectZone(call.object), TargetZone(call.target)}
  <1>2. "unknown" \notin zones
    BY <1>1 DEF ZonesForPut
  <1>3. Claim(agent, call).zones
           = zones \cup {z \in {"center"} : Crosses(RobotZone(agent), TargetZone(call.target))}
    BY <1>1, <1>2 DEF ZonesForPut
  <1>4. RobotZone(agent) # "unknown" /\ ObjectZone(call.object) # "unknown"
        /\ TargetZone(call.target) # "unknown"
    BY <1>2
  <1>5. /\ RobotZone(agent) \in {"left", "right"}
        /\ ObjectZone(call.object) \in {"left", "right"}
        /\ TargetZone(call.target) \in {"bin_left", "bin_right", "center"}
    BY <1>4, ZonesOfPlaces
  <1> QED
    BY <1>3, <1>5

\* Two arms whose claims do not overlap stay apart.
LEMMA ApartOnTheirSides ==
    ASSUME NEW a, NEW b, NEW x, NEW y, a # b,
           x.skill = Put, y.skill = Put,
           "unknown" \notin Claim(a, x).zones, "unknown" \notin Claim(b, y).zones,
           Claim(a, x).zones \cap Claim(b, y).zones = {}
    PROVE  /\ StaysOnItsSide(a, x)
           /\ ~(TargetZone(x.target) = "center" /\ TargetZone(y.target) = "center")
  <1> DEFINE ra == RobotZone(a)
             rb == RobotZone(b)
             oa == ObjectZone(x.object)
             ta == TargetZone(x.target)
             tb == TargetZone(y.target)
  <1>1. /\ ra \in {"left", "right"} /\ oa \in {"left", "right"}
        /\ ta \in {"bin_left", "bin_right", "center"}
        /\ {ra, oa, ta} \subseteq Claim(a, x).zones
        /\ Crosses(ra, ta) => "center" \in Claim(a, x).zones
    BY KnownZones
  <1>2. /\ rb \in {"left", "right"}
        /\ tb \in {"bin_left", "bin_right", "center"}
        /\ {rb, tb} \subseteq Claim(b, y).zones
        /\ Crosses(rb, tb) => "center" \in Claim(b, y).zones
    BY KnownZones
  <1> HIDE DEF ra, rb, oa, ta, tb
  <1>3. ra # rb /\ oa # rb /\ ta # tb
    BY <1>1, <1>2
  <1>4. ~ ("center" \in Claim(a, x).zones /\ "center" \in Claim(b, y).zones)
    BY Zenon
  <1>5. ra = "left" => oa = "left" /\ ta # "bin_right"
    <2>1. ASSUME ra = "left", ta = "bin_right" PROVE FALSE
      <3>1. "center" \in Claim(a, x).zones /\ rb = "right"
        BY <2>1, <1>1, <1>2, <1>3 DEF Crosses
      <3>2. tb \in {"bin_left", "center"}
        BY <2>1, <1>2, <1>3
      <3>3. "center" \in Claim(b, y).zones
        BY <3>1, <3>2, <1>2 DEF Crosses
      <3> QED
        BY <3>1, <3>3, <1>4
    <2> QED
      BY <2>1, <1>1, <1>2, <1>3
  <1>6. ra = "right" => oa = "right" /\ ta # "bin_left"
    <2>1. ASSUME ra = "right", ta = "bin_left" PROVE FALSE
      <3>1. "center" \in Claim(a, x).zones /\ rb = "left"
        BY <2>1, <1>1, <1>2, <1>3 DEF Crosses
      <3>2. tb \in {"bin_right", "center"}
        BY <2>1, <1>2, <1>3
      <3>3. "center" \in Claim(b, y).zones
        BY <3>1, <3>2, <1>2 DEF Crosses
      <3> QED
        BY <3>1, <3>3, <1>4
    <2> QED
      BY <2>1, <1>1, <1>2, <1>3
  <1>7. ra \in Side(oa) \cap Side(ta)
    BY <1>1, <1>5, <1>6 DEF Side
  <1>8. StaysOnItsSide(a, x)
    BY <1>7 DEF StaysOnItsSide, ra, oa, ta
  <1> QED
    BY <1>3, <1>8 DEF ta, tb

LEMMA ConcurrentPlansAreApart ==
    ASSUME NEW config, NEW p, Schedule(config, p).mode = "concurrent",
           NEW a \in Active(p), NEW b \in Active(p), a # b
    PROVE  /\ StaysOnItsSide(a, p[a])
           /\ p[a].object # p[b].object /\ p[a].target # p[b].target
           /\ ~(TargetZone(p[a].target) = "center" /\ TargetZone(p[b].target) = "center")
  <1> DEFINE claims == [c \in Agents |-> Claim(c, p[c])]
  <1>1. ~Conflicting(p, Active(p), claims)
    BY DEF Schedule, Rejected
  <1>2. Compatible(p[a], p[b], claims, a, b)
    BY <1>1 DEF Conflicting, GroupCompatible
  <1>3. a \in Agents /\ b \in Agents
    BY DEF Active
  <1>4. claims[a] = Claim(a, p[a]) /\ claims[b] = Claim(b, p[b])
    BY <1>3
  <1> HIDE DEF claims
  <1>5. /\ p[a].skill = Put /\ p[b].skill = Put
        /\ p[a].object # p[b].object /\ p[a].target # p[b].target
        /\ "unknown" \notin Claim(a, p[a]).zones /\ "unknown" \notin Claim(b, p[b]).zones
        /\ Claim(a, p[a]).zones \cap Claim(b, p[b]).zones = {}
    BY <1>2, <1>4 DEF Compatible, Overlap
  <1> QED
    BY <1>5, ApartOnTheirSides

\* Arms move at the same time only when each stays on its own side and their objects
\* and targets differ (scheduler.py, workspace.py, compatibility.py together), for
\* every joint plan, every number of agents and every configuration of the scheduler.
THEOREM ReachingAcrossIsAlwaysAlone == Spec => []ReachingAcrossIsAlone
  <1>1. Init => ReachingAcrossIsAlone
    <2> SUFFICES ASSUME Init, schedule.mode = "concurrent",
                        NEW a \in Active(plan), NEW b \in Active(plan), a # b
                 PROVE  /\ StaysOnItsSide(a, plan[a])
                        /\ plan[a].object # plan[b].object /\ plan[a].target # plan[b].target
                        /\ ~(TargetZone(plan[a].target) = "center"
                               /\ TargetZone(plan[b].target) = "center")
      BY DEF ReachingAcrossIsAlone
    <2>1. PICK config \in Configs : schedule = Schedule(config, plan)
      BY DEF Init
    <2> QED
      BY <2>1, ConcurrentPlansAreApart
  <1>2. ReachingAcrossIsAlone /\ [Next]_vars => ReachingAcrossIsAlone'
    <2> SUFFICES ASSUME ReachingAcrossIsAlone, [Next]_vars PROVE ReachingAcrossIsAlone'
      OBVIOUS
    <2>1. UNCHANGED <<plan, schedule>>
      BY DEF Next, vars, caller_vars, Synchronized, Sequential
    <2> QED
      BY <2>1 DEF ReachingAcrossIsAlone, Active
  <1> QED
    BY <1>1, <1>2, PTL DEF Spec

-----------------------------------------------------------------------------
(* The joint stepper.                                                      *)

LEMMA AgentsAreRanked ==
    \A a \in Agents : Rank(a) \in 1 .. Len(AgentOrder) /\ AgentOrder[Rank(a)] = a
  <1> TAKE a \in Agents
  <1>1. \E i \in DOMAIN AgentOrder : AgentOrder[i] = a
    BY DEF Agents
  <1>2. DOMAIN AgentOrder = 1 .. Len(AgentOrder)
    BY OrderAssumption
  <1> QED
    BY <1>1, <1>2 DEF Rank

\* Of some agents one is the last in the order.
LEMMA SomeoneIsLast ==
    ASSUME NEW S \in SUBSET Agents, S # {}
    PROVE  \E a \in S : \A b \in S : Rank(b) <= Rank(a)
  <1> DEFINE n == Len(AgentOrder)
             D == {n - Rank(a) : a \in S}
  <1>1. n \in Nat
    BY OrderAssumption
  <1>2. \A a \in S : Rank(a) \in 1 .. n
    BY AgentsAreRanked
  <1> HIDE DEF n
  <1>3. D \in SUBSET Nat /\ D # {}
    BY <1>1, <1>2
  <1>4. PICK d \in D : \A e \in D : <<e, d>> \notin OpToRel(<, Nat)
    <2> HIDE DEF D
    <2> QED
      BY <1>3, WFMin, NatLessThanWellFounded
  <1>5. \A e \in D : ~ (e < d)
    <2> HIDE DEF D
    <2>1. D \subseteq Nat
      BY <1>3
    <2> QED
      BY <1>4, <2>1, Zenon DEF OpToRel
  <1>6. PICK a \in S : d = n - Rank(a)
    OBVIOUS
  <1>7. ASSUME NEW b \in S PROVE Rank(b) <= Rank(a)
    <2>1. n - Rank(b) \in D
      OBVIOUS
    <2>2. ~ (n - Rank(b) < n - Rank(a))
      BY <2>1, <1>5, <1>6
    <2> QED
      BY <2>2, <1>1, <1>2
  <1> QED
    BY <1>7

\* A merge that does not fail keeps every command of every agent.
LEMMA MergeKeepsCommands ==
    ASSUME NEW f, DOMAIN f \subseteq Agents, ~MergeFails(f),
           NEW a \in DOMAIN f, NEW i \in DOMAIN f[a].command
    PROVE  Merge(f)[i] = f[a].command[i]
  <1>1. i \in Commanded(f) /\ a \in Writers(f, i)
    BY DEF Commanded, Writers
  <1>2. Writers(f, i) \in SUBSET Agents
    BY DEF Writers
  <1> DEFINE last == CHOOSE c \in Writers(f, i) : \A b \in Writers(f, i) : Rank(b) <= Rank(c)
  <1>3. last \in Writers(f, i)
    BY <1>1, <1>2, SomeoneIsLast
  <1>4. Merge(f)[i] = f[last].command[i]
    BY <1>1 DEF Merge
  <1> HIDE DEF last
  <1>5. f[a].command[i] = f[last].command[i]
    BY <1>1, <1>3 DEF MergeFails
  <1> QED
    BY <1>4, <1>5

LEMMA ProvidersAreFinite == Cardinality(Providers) \in Nat
  <1>1. AgentOrder \in Seq(STRING) /\ Len(AgentOrder) \in Nat
    BY OrderAssumption
  <1>2. AgentOrder \in Surjection(1 .. Len(AgentOrder), Agents)
    <2>1. AgentOrder \in [1 .. Len(AgentOrder) -> Agents]
      <3>1. AgentOrder = [i \in 1 .. Len(AgentOrder) |-> AgentOrder[i]]
        BY <1>1
      <3>2. \A i \in 1 .. Len(AgentOrder) : AgentOrder[i] \in Agents
        BY <1>1 DEF Agents
      <3> HIDE <1>1
      <3> QED
        BY <3>1, <3>2
    <2>2. \A a \in Agents : \E i \in 1 .. Len(AgentOrder) : AgentOrder[i] = a
      BY AgentsAreRanked
    <2> QED
      BY <2>1, <2>2 DEF Surjection
  <1>3. IsFiniteSet(1 .. Len(AgentOrder))
    BY <1>1, FS_Interval
  <1>4. IsFiniteSet(Agents)
    BY <1>2, <1>3, FS_Surjection
  <1>5. IsFiniteSet(Providers)
    BY <1>4, FS_Subset, ExecutorAssumption
  <1> QED
    BY <1>5, FS_CardinalityType

-----------------------------------------------------------------------------
(* The inductive invariant of a run.                                       *)

SyncTypes ==
    /\ pc \in {"idle", "loop", "tick", "conclude"}
    /\ cancelled \in BOOLEAN
    /\ step_index \in Nat /\ tick \in Nat
    /\ acted \in [Providers -> Nat]
    /\ seq_pc # "idle" => pc = "idle"

\* What a tick has is made from the present state.
PresentInv ==
    /\ DOMAIN frags \subseteq Providers
    /\ pc # "tick" => DOMAIN frags = {}
    /\ pc \in {"loop", "tick"} => obs = clock /\ events = {}
    /\ \A a \in DOMAIN frags : frags[a].seen = obs

MetricsAfter(n) ==
    [central |-> n, summed |-> n * Cardinality(Providers), stops |-> 0]

AllActed(n) == \A a \in Providers : acted[a] = n

\* As long as nothing has happened the agents are in step.
LockstepInv ==
    /\ pc = "loop" \/ (pc = "conclude" /\ events = {}) \/ (pc = "idle" /\ result = "SUCCEEDED")
          => AllActed(tick) /\ metrics = MetricsAfter(tick)
    /\ pc = "tick" =>
          /\ tick > 0 /\ metrics = MetricsAfter(tick - 1)
          /\ \A a \in Providers : acted[a] = IF a \in DOMAIN frags THEN tick ELSE tick - 1

RunInv == SyncTypes /\ PresentInv /\ LockstepInv

LEMMA RunInvInit == Init => RunInv
  <1> SUFFICES ASSUME Init PROVE RunInv
    OBVIOUS
  <1>1. DOMAIN frags = {}
    BY DEF Init, SyncInit
  <1>2. /\ pc = "idle" /\ cancelled = FALSE /\ step_index = 0 /\ tick = 0
        /\ acted = [a \in Providers |-> 0] /\ result = "none"
    BY DEF Init, SyncInit
  <1> QED
    BY <1>1, <1>2 DEF RunInv, SyncTypes, PresentInv, LockstepInv

\* A run that ends with an event, or with another report than a success.
LEMMA EndOfRun ==
    ASSUME RunInv, UNCHANGED <<seq_pc, tick, acted>>,
           (pc' = "conclude" /\ events' # {}) \/ (pc' = "idle" /\ result' # "SUCCEEDED"),
           pc # "idle" \/ pc' = "idle",
           cancelled' \in BOOLEAN, step_index' \in Nat, DOMAIN frags' = {}
    PROVE  RunInv'
  BY DEF RunInv, SyncTypes, PresentInv, LockstepInv

LEMMA StartTickStep == ASSUME RunInv, StartTick, UNCHANGED seq_vars PROVE RunInv'
  <1>1. /\ pc = "loop" /\ pc' = "tick" /\ tick' = tick + 1
        /\ UNCHANGED <<cancelled, step_index, clock, obs, frags, events, metrics, acted>>
        /\ UNCHANGED seq_pc
    BY DEF StartTick, seq_vars
  <1>2. SyncTypes'
    BY <1>1 DEF RunInv, SyncTypes
  <1>3. PresentInv'
    BY <1>1 DEF RunInv, PresentInv
  <1>4. LockstepInv'
    <2>1. AllActed(tick) /\ metrics = MetricsAfter(tick) /\ DOMAIN frags = {} /\ tick \in Nat
      BY <1>1 DEF RunInv, LockstepInv, PresentInv, SyncTypes
    <2>2. tick' - 1 = tick /\ tick' > 0
      BY <1>1, <2>1
    <2> QED
      BY <1>1, <2>1, <2>2 DEF LockstepInv, AllActed, MetricsAfter
  <1> QED
    BY <1>2, <1>3, <1>4 DEF RunInv

LEMMA NextActionStep == ASSUME RunInv, NextAction, UNCHANGED seq_vars PROVE RunInv'
  <1>1. PICK a \in Unasked, f \in Fragments, late \in BOOLEAN :
           /\ pc = "tick"
           /\ frags' = [b \in DOMAIN frags \cup {a} |->
                           IF b = a
                           THEN [command |-> f.command, ragged |-> f.ragged, seen |-> obs]
                           ELSE frags[b]]
           /\ acted' = [acted EXCEPT ![a] = @ + 1]
           /\ UNCHANGED <<pc, cancelled, step_index, clock, obs, tick, events, metrics, result>>
    BY DEF NextAction
  <1>2. a \in Providers /\ a \notin DOMAIN frags
    BY DEF Unasked
  <1>3. /\ DOMAIN frags' = DOMAIN frags \cup {a}
        /\ frags'[a] = [command |-> f.command, ragged |-> f.ragged, seen |-> obs]
        /\ \A b \in DOMAIN frags : frags'[b] = frags[b]
    BY <1>1, <1>2
  <1>4. UNCHANGED seq_pc
    BY DEF seq_vars
  <1>5. SyncTypes'
    BY <1>1, <1>2, <1>4 DEF RunInv, SyncTypes
  <1>6. PresentInv'
    BY <1>1, <1>2, <1>3 DEF RunInv, PresentInv
  <1>7. LockstepInv'
    <2>1. /\ tick > 0 /\ metrics = MetricsAfter(tick - 1)
          /\ \A b \in Providers : acted[b] = IF b \in DOMAIN frags THEN tick ELSE tick - 1
          /\ tick \in Nat /\ acted \in [Providers -> Nat]
      BY <1>1 DEF RunInv, LockstepInv, SyncTypes
    <2>2. ASSUME NEW b \in Providers
          PROVE  acted'[b] = IF b \in DOMAIN frags' THEN tick ELSE tick - 1
      <3>1. CASE b = a
        BY <3>1, <2>1, <1>1, <1>2, <1>3
      <3>2. CASE b # a
        BY <3>2, <2>1, <1>1, <1>2, <1>3
      <3> QED
        BY <3>1, <3>2
    <2> QED
      BY <2>1, <2>2, <1>1 DEF LockstepInv, MetricsAfter
  <1> QED
    BY <1>5, <1>6, <1>7 DEF RunInv

\* The joint step: everyone acted on the present state, and is counted once.
LEMMA StepEnvStep == ASSUME RunInv, StepEnv, UNCHANGED seq_vars PROVE RunInv'
  <1>0. PICK done \in BOOLEAN, alarms \in SUBSET {"FORBIDDEN_CONTACT", "RESERVATION_VIOLATION",
                                                "OBJECT_OWNERSHIP_CONFLICT"} :
           /\ Monitored
           /\ clock' = clock + 1 /\ step_index' = step_index + 1
           /\ metrics' = [central |-> metrics.central + 1,
                          summed  |-> metrics.summed + Cardinality(DOMAIN frags),
                          stops   |-> metrics.stops + Cardinality({x \in {0} : alarms # {}})]
           /\ events' = events \cup alarms
           /\ cancelled' = (cancelled \/ alarms # {})
           /\ obs' = IF alarms = {} THEN clock' ELSE obs
           /\ pc' = IF alarms # {} \/ done THEN "conclude" ELSE "loop"
           /\ DropTick
           /\ UNCHANGED <<tick, acted, result>>
    BY DEF StepEnv
  <1>1. /\ pc = "tick" /\ Unasked = {} /\ DOMAIN frags' = {} /\ UNCHANGED seq_pc
    BY <1>0 DEF Monitored, DropTick, seq_vars
  <1>2. DOMAIN frags = Providers
    BY <1>1 DEF Unasked, RunInv, PresentInv
  <1>3. cancelled' \in BOOLEAN /\ step_index' \in Nat /\ tick \in Nat
    BY <1>0 DEF RunInv, SyncTypes
  <1>4. CASE alarms # {}
    <2>1. pc' = "conclude" /\ events' # {} /\ UNCHANGED <<tick, acted>>
      BY <1>4, <1>0
    <2> QED
      BY <2>1, <1>1, <1>3, EndOfRun
  <1>5. CASE alarms = {}
    <2>1. /\ tick > 0 /\ metrics = MetricsAfter(tick - 1) /\ AllActed(tick) /\ events = {}
      BY <1>1, <1>2 DEF RunInv, LockstepInv, PresentInv, AllActed
    <2>2. metrics' = MetricsAfter(tick)
      <3>1. Cardinality({x \in {0} : alarms # {}}) = 0
        BY <1>5, FS_EmptySet
      <3> DEFINE n == Cardinality(Providers)
      <3>2. n \in Nat
        BY ProvidersAreFinite
      <3>3. metrics' = [central |-> (tick - 1) + 1, summed |-> (tick - 1) * n + n,
                        stops |-> 0 + 0]
        BY <1>0, <1>2, <2>1, <3>1 DEF MetricsAfter
      <3> HIDE DEF n
      <3>4. (tick - 1) + 1 = tick /\ (tick - 1) * n + n = tick * n /\ 0 + 0 = 0
        BY <1>3, <3>2
      <3> QED
        BY <3>3, <3>4 DEF MetricsAfter, n
    <2>3. SyncTypes'
      BY <1>0, <1>1, <1>3 DEF RunInv, SyncTypes
    <2>4. PresentInv'
      BY <1>0, <1>1, <1>5, <2>1 DEF PresentInv
    <2>5. LockstepInv'
      BY <1>0, <1>5, <2>1, <2>2 DEF LockstepInv, AllActed, MetricsAfter
    <2> QED
      BY <2>3, <2>4, <2>5 DEF RunInv
  <1> QED
    BY <1>4, <1>5

\* The other steps of a run end it, or change nothing that counts.
LEMMA RunStepKeeps == ASSUME RunInv, RunStep, UNCHANGED seq_vars PROVE RunInv'
  <1>0. UNCHANGED seq_pc /\ cancelled \in BOOLEAN /\ step_index \in Nat
    BY DEF seq_vars, RunInv, SyncTypes
  <1>1. CASE StartTick
    BY <1>1, StartTickStep
  <1>2. CASE OutOfTicks
    BY <1>0, <1>2 DEF OutOfTicks, RunInv, SyncTypes, PresentInv, LockstepInv, AllActed, MetricsAfter
  <1>3. CASE ThrowIfCancelled \/ ProviderFails \/ StepRaises
    <2>1. /\ CaughtRuntimeError /\ pc # "idle"
          /\ UNCHANGED <<cancelled, step_index, tick, acted>>
      BY <1>3 DEF ThrowIfCancelled, ProviderFails, StepRaises, Monitored
    <2>2. "CANCELLED" \in events'
      BY <2>1 DEF CaughtRuntimeError
    <2>3. pc' = "conclude" /\ events' # {} /\ DOMAIN frags' = {}
      BY <2>1, <2>2 DEF CaughtRuntimeError, DropTick
    <2> QED
      BY <1>0, <2>1, <2>3, EndOfRun
  <1>4. CASE NextAction
    BY <1>4, NextActionStep
  <1>5. CASE Escapes
    BY <1>0, <1>5, EndOfRun DEF Escapes, Returns, DropTick
  <1>6. CASE StopBeforeStep
    <2>1. PICK codes : CentralStop(codes) /\ codes # {}
      BY <1>6 DEF StopBeforeStep
    <2>2. /\ pc' = "conclude" /\ events' # {} /\ DOMAIN frags' = {} /\ cancelled' = TRUE
          /\ UNCHANGED <<step_index, tick, acted>>
      BY <2>1 DEF CentralStop, DropTick
    <2>3. pc # "idle"
      BY <1>6 DEF StopBeforeStep, Monitored
    <2> QED
      BY <1>0, <2>2, <2>3, EndOfRun
  <1>7. CASE StepEnv
    BY <1>7, StepEnvStep
  <1>8. CASE Conclude
    BY <1>0, <1>8
    DEF Conclude, Returns, Succeeded, RunInv, SyncTypes, PresentInv, LockstepInv, AllActed,
        MetricsAfter
  <1> QED
    BY <1>1, <1>2, <1>3, <1>4, <1>5, <1>6, <1>7, <1>8 DEF RunStep

LEMMA RunInvStep == RunInv /\ [Next]_vars => RunInv'
  <1> SUFFICES ASSUME RunInv, [Next]_vars PROVE RunInv'
    OBVIOUS
  <1>1. CASE Synchronized
    <2>1. UNCHANGED seq_pc /\ pc = "idle" /\ seq_pc = "idle"
      BY <1>1 DEF Synchronized, Idle, seq_vars
    <2>2. CASE schedule.mode = "concurrent"
      <3>1. BeginRun
        BY <1>1, <2>2 DEF Synchronized
      <3>2. SyncTypes' /\ PresentInv'
        BY <2>1, <3>1 DEF BeginRun, RunInv, SyncTypes, PresentInv
      <3>3. LockstepInv'
        <4>1. /\ pc' = "loop" /\ tick' = 0 /\ acted' = [a \in Providers |-> 0]
              /\ metrics' = [central |-> 0, summed |-> 0, stops |-> 0]
          BY <3>1 DEF BeginRun, NewMetrics
        <4>2. 0 * Cardinality(Providers) = 0
          BY ProvidersAreFinite
        <4> QED
          BY <4>1, <4>2 DEF LockstepInv, AllActed, MetricsAfter
      <3> QED
        BY <3>2, <3>3 DEF RunInv
    <2>3. CASE schedule.mode # "concurrent"
      <3>1. Refuse(schedule.mode)
        BY <1>1, <2>3 DEF Synchronized
      <3> QED
        BY <2>1, <3>1 DEF Refuse, Returns, RunInv, SyncTypes, PresentInv, LockstepInv
    <2> QED
      BY <2>2, <2>3
  <1>2. CASE Sequential
    BY <1>2
    DEF Sequential, Idle, SeqExecute, sync_vars, RunInv, SyncTypes, PresentInv, LockstepInv,
        AllActed, MetricsAfter
  <1>3. CASE RunStep /\ UNCHANGED <<seq_vars, caller_vars>>
    BY <1>3, RunStepKeeps
  <1>4. CASE Cancel /\ UNCHANGED <<seq_vars, caller_vars>>
    BY <1>4
    DEF Cancel, seq_vars, RunInv, SyncTypes, PresentInv, LockstepInv, AllActed, MetricsAfter
  <1>5. CASE SequentialCall
    <2>1. seq_pc = "calling" /\ pc = "idle"
      BY <1>5 DEF SequentialCall, SeqCall, RunInv, SyncTypes
    <2> QED
      BY <1>5, <2>1
      DEF SequentialCall, RunInv, SyncTypes, PresentInv, LockstepInv, AllActed, MetricsAfter
  <1>6. CASE (SeqNoExecutor \/ SeqRaises \/ SeqSucceeds) /\ UNCHANGED <<sync_vars, caller_vars>>
    BY <1>6
    DEF SeqNoExecutor, SeqRaises, SeqSucceeds, SeqReturns, sync_vars, RunInv, SyncTypes,
        PresentInv, LockstepInv, AllActed, MetricsAfter
  <1>7. CASE UNCHANGED vars
    BY <1>7
    DEF vars, sync_vars, seq_vars, RunInv, SyncTypes, PresentInv, LockstepInv, AllActed,
        MetricsAfter
  <1> QED
    BY <1>1, <1>2, <1>3, <1>4, <1>5, <1>6, <1>7 DEF Next

LEMMA RunInvHolds == Spec => []RunInv
  BY RunInvInit, RunInvStep, PTL DEF Spec

\* A run that reports SUCCEEDED stepped every tick it began, with one fragment of
\* every agent, and nothing unsafe, failed or cancelled is behind the report
\* (synchronized_executor.py:146), in every run of the same executor.
THEOREM SuccessIsAlwaysLockstep == Spec => []SuccessIsLockstep
  <1>1. RunInv => SuccessIsLockstep
    BY DEF RunInv, LockstepInv, SuccessIsLockstep, AllActed, MetricsAfter
  <1> QED
    BY <1>1, RunInvHolds, PTL

\* Every joint step carries out all commands of all agents, each computed from the
\* observation of the step before (joint_stepper.py merge): an action property.
THEOREM JointStepsAreAlwaysComplete == Spec => JointStepsAreComplete
  <1> DEFINE Complete ==
        step_index' # step_index =>
          /\ DOMAIN frags = Providers
          /\ \A a \in Providers : frags[a].seen = clock
          /\ \A a \in Providers : \A i \in DOMAIN frags[a].command :
                applied'[i] = frags[a].command[i]
  <1>1. RunInv /\ [Next]_vars => [Complete]_sync_vars
    <2> SUFFICES ASSUME RunInv, [Next]_vars, step_index' # step_index PROVE Complete
      OBVIOUS
    <2>1. StepEnv
      BY DEF Next, vars, sync_vars, Synchronized, Sequential, BeginRun, Refuse, SequentialCall,
             RunStep, Cancel, StartTick, OutOfTicks, ThrowIfCancelled, NextAction,
             ProviderFails, Escapes, StopBeforeStep, CentralStop, StepRaises, Conclude
    <2>2. /\ pc = "tick" /\ Unasked = {} /\ ~MergeFails(frags) /\ applied' = Merge(frags)
      BY <2>1 DEF StepEnv, Monitored
    <2>3. DOMAIN frags = Providers /\ \A a \in Providers : frags[a].seen = clock
      BY <2>2 DEF Unasked, RunInv, PresentInv
    <2>4. ASSUME NEW a \in Providers, NEW i \in DOMAIN frags[a].command
          PROVE  applied'[i] = frags[a].command[i]
      BY <2>2, <2>3, MergeKeepsCommands, ExecutorAssumption
    <2> QED
      BY <2>3, <2>4
  <1> QED
    BY <1>1, RunInvHolds, PTL DEF Spec, JointStepsAreComplete

-----------------------------------------------------------------------------
(* STOP_ALL.                                                               *)

LEMMA StopInit == Init => Stops!StopInit
  BY DEF Init, SyncInit, Stops!StopInit

LEMMA StopStep ==
    RunInv /\ [Next]_vars
        => [Stops!Stop \/ Stops!BeginMove \/ Stops!EndMove]_(Stops!stop_vars)
  <1> SUFFICES ASSUME RunInv, [Next]_vars
               PROVE  [Stops!Stop \/ Stops!BeginMove \/ Stops!EndMove]_(Stops!stop_vars)
    OBVIOUS
  <1>0. cancelled \in BOOLEAN
    BY DEF RunInv, SyncTypes
  <1>1. CASE StartTick
    BY <1>1 DEF StartTick, Stops!BeginMove
  <1>2. CASE ProviderFails \/ Escapes \/ StepRaises
    BY <1>2, <1>0
    DEF ProviderFails, Escapes, StepRaises, Monitored, CaughtRuntimeError, Returns, Stops!EndMove
  <1>3. CASE StopBeforeStep
    BY <1>3, <1>0 DEF StopBeforeStep, Monitored, CentralStop, Stops!EndMove
  <1>4. CASE StepEnv
    <2>1. /\ pc = "tick" /\ pc' # "tick" /\ step_index' = step_index + 1
      BY <1>4 DEF StepEnv, Monitored
    <2>2. cancelled' \in {cancelled, TRUE}
      BY <1>4, <1>0 DEF StepEnv
    <2> QED
      BY <2>1, <2>2 DEF Stops!EndMove
  <1>5. CASE Cancel /\ UNCHANGED <<seq_vars, caller_vars>>
    BY <1>5 DEF Cancel, Stops!Stop
  <1>6. CASE OutOfTicks \/ ThrowIfCancelled \/ NextAction \/ Conclude
    BY <1>6
    DEF OutOfTicks, ThrowIfCancelled, CaughtRuntimeError, NextAction, Conclude, Returns,
        Stops!stop_vars
  <1>7. CASE Synchronized
    BY <1>7 DEF Synchronized, Idle, BeginRun, Refuse, Returns, Stops!stop_vars
  <1>8. CASE Sequential \/ SequentialCall
    BY <1>8 DEF Sequential, SequentialCall, sync_vars, Stops!stop_vars
  <1>9. CASE (SeqNoExecutor \/ SeqRaises \/ SeqSucceeds) /\ UNCHANGED <<sync_vars, caller_vars>>
    BY <1>9 DEF sync_vars, Stops!stop_vars
  <1>10. CASE UNCHANGED vars
    BY <1>10 DEF vars, sync_vars, Stops!stop_vars
  <1> QED
    BY <1>1, <1>2, <1>3, <1>4, <1>5, <1>6, <1>7, <1>8, <1>9, <1>10 DEF Next, RunStep

\* The executors implement StopAll: a stop, of the monitor or of anyone else, is final,
\* and at most the tick under way still moves the arms, in this run and in all later ones.
THEOREM StopsAreAlwaysFinal == Spec => StopsAreFinal
  BY RunInvHolds, StopInit, StopStep, PTL DEF Spec, StopsAreFinal, Stops!StopSpec

-----------------------------------------------------------------------------
(* The evaluation run.                                                     *)

\* What stands beside a success, and what a queue holds.
Verdicts == {"SUCCESS", "MANUAL_INTERRUPT"}
Items == [action : Actions, chunk_id : Nat, offset : Nat]
Queues == [horizon : Nat, items : Seq(Items), next_chunk_id : Nat]

\* A record of locals, and one of an episode's directory, have their fields and no other.
RolloutFields ==
    {"queue", "monitor", "info", "obs", "queued", "next", "steps", "collisions",
     "violations", "no_progress", "states", "buffered", "success", "terminated",
     "truncated", "reason"}
DirectoryFields == {"exists", "torn", "events", "trace", "arrays", "states", "result", "row"}
OutputFields == {"exists", "torn", "files", "rows", "metrics"}
IsRollout(r) == r = [f \in RolloutFields |-> r[f]]
IsDirectory(d) == d = [f \in DirectoryFields |-> d[f]]

\* Where there is no episode, and where there is one.
Reporting == {"metrics", "csv", "rows"}
Outside == {"idle", "begin", "clearing", "build", "episode"} \cup Reporting
Stages == Outside \cup Recording
          \cup {"reset", "loop", "judge", "finalize", "states", "result", "row"}
InEpisode == stage \notin Outside

\* The arguments and the place, the directories, and the locals.
ArgumentTypes ==
    /\ setup \in Setups /\ stage \in Stages
    /\ index \in 1 .. setup.episodes + 1 /\ (InEpisode => index \in 1 .. setup.episodes)
DiskTypes ==
    /\ disk = [e \in Episodes |-> disk[e]]
    /\ \A e \in Episodes : /\ IsDirectory(disk[e]) /\ disk[e].trace \in Seq(Nat \X Nat)
                           /\ ~disk[e].exists => disk[e] = NoDirectory
    /\ InEpisode => disk[index].exists
RolloutTypes ==
    /\ IsRollout(ro) /\ ro.queue \in Queues /\ ro.queue.horizon = setup.horizon
    /\ ro.steps \in Nat /\ ro.collisions \in Nat
    /\ ro.success \in BOOLEAN /\ ro.terminated \in BOOLEAN

\* What the episode at hand has recorded.
Trace == disk[index].trace

\* Where each reason and the success come from.
VerdictInv ==
    /\ ro.success => ro.info.is_success /\ ro.terminated /\ ro.reason \in Verdicts
    /\ ro.reason = "SUCCESS" => ro.success
    /\ ~ro.terminated => ro.reason = "MAX_STEPS"
    /\ stage \in Recording \cup {"judge"} => ~ro.terminated
    /\ RolledOut /\ ro.success /\ ro.steps > 0 =>
         /\ ~ro.info.unsafe_state /\ ~ro.info.object_lost
         /\ setup.limit # NoLimit => ro.collisions < setup.limit

\* By how much what is done before the stages of S is ahead of the trace.
Ahead(S) == IF stage \in S THEN 1 ELSE 0

\* What was popped is recorded, but for the step just made; what is queued comes next.
QueueInv ==
    /\ stage \in {"reset", "judge"} \cup Recording \/ (stage = "loop" /\ ~ro.terminated) =>
         LET left == Len(ro.queue.items)
             popped == Len(Trace) + Ahead(Recording)
         IN  RolledOut =>
             /\ popped + left = ro.queue.next_chunk_id * setup.horizon
             /\ left <= setup.horizon
             /\ \A k \in 1 .. left :
                  /\ ro.queue.items[k].action \notin {"nan", "out"}
                  /\ ro.queue.items[k].chunk_id = ro.queue.next_chunk_id - 1
                  /\ ro.queue.items[k].offset = setup.horizon - left + (k - 1)
             /\ stage \in Recording =>
                  /\ left < setup.horizon /\ ro.queue.next_chunk_id > 0
                  /\ ro.queued.chunk_id = ro.queue.next_chunk_id - 1
                  /\ ro.queued.offset = setup.horizon - left - 1
    /\ stage = "loop" =>
         \A k \in DOMAIN ro.queue.items : ro.queue.items[k].action \notin {"nan", "out"}

\* What the locals and the directory of the episode at hand say of each other.
Progress ==
    /\ ro.steps = Len(Trace) + Ahead(Recording)
    /\ ro.states = Len(Trace) + Ahead({"append", "log", "trace"})
    /\ ro.buffered = Len(Trace) + Ahead({"log", "trace"})
    /\ disk[index].events = Len(Trace) + Ahead({"trace"})
WithinAStep(steps, states, rows, d, reason) ==
    /\ steps >= states /\ states >= rows /\ rows >= d.events /\ d.events >= Len(d.trace)
    /\ steps <= Len(d.trace) + (IF reason = "MANUAL_INTERRUPT" THEN 1 ELSE 0)
Closing == {"finalize", "states", "result"}
EpisodeInv ==
    /\ stage \in Recording \cup Closing \cup {"judge"} => RolledOut
    /\ stage = "reset" => ro = NewRollout(setup.horizon)
    /\ InEpisode /\ stage # "row" => disk[index].result = NoResult
    /\ RolledOut /\ stage \in {"reset", "loop", "judge"} \cup Recording => Progress
    /\ stage \in Closing =>
          WithinAStep(ro.steps, ro.states, ro.buffered, disk[index], ro.reason)
    /\ stage \in {"states", "result"} => disk[index].arrays = ro.buffered
    /\ stage = "result" => disk[index].states = ro.states
    /\ stage = "row" /\ RolledOut => disk[index].result = PolicyRolloutResult(ro)

\* What a directory says, whichever episode it is of.
VerdictOf(r) ==
    r.reason # "none" =>
      /\ r.success => r.evidence /\ r.reason \in Verdicts
      /\ r.reason = "SUCCESS" => r.success
DirectoryInv(d, horizon, rolled) ==
    /\ VerdictOf(d.result)
    /\ \A k \in DOMAIN d.trace : d.trace[k] = <<(k - 1) \div horizon, (k - 1) % horizon>>
    /\ d.result.reason # "none" /\ rolled =>
          WithinAStep(d.result.steps, d.states, d.arrays, d, d.result.reason)
DiskInv == \A e \in Episodes : DirectoryInv(disk[e], setup.horizon, RolledOut)

\* The rows in memory are those of the episodes that are over.
RowOf(e, r, learning) ==
    [variation |-> VariationOf(e), reason |-> r.reason, success |-> r.success,
     steps |-> r.steps, learned |-> learning /\ r.success]
RowsOf(kept, directories, n, open, learning) ==
    /\ kept = [k \in 1 .. n - 1 |-> directories[k].row]
    /\ \A e \in Episodes : /\ directories[e].exists <=> e < n \/ (e = n /\ open)
                           /\ ~directories[e].torn
    /\ \A e \in 1 .. n - 1 :
          directories[e].row = RowOf(e, directories[e].result, learning)

\* The files that are written by now: none before the last episode is over.
Written ==
    IF stage = "metrics" THEN {"run_manifest.json"}
    ELSE IF stage = "csv" THEN {"run_manifest.json", "metrics.json"}
    ELSE IF stage = "rows" THEN {"run_manifest.json", "metrics.json", "episodes.csv"}
    ELSE {}
OutputTypes ==
    /\ output = [f \in OutputFields |-> output[f]]
    /\ Benchmark /\ ~output.exists =>
          output = NoOutput /\ \A e \in Episodes : ~disk[e].exists
    /\ Benchmark => DOMAIN output.rows \subseteq Episodes
CleanStart == stage \notin {"idle", "begin", "clearing"}
RowsInv ==
    /\ stage \in {"idle", "begin", "clearing", "build"} => index = 1 /\ results = <<>>
    /\ stage \in Reporting => index = setup.episodes + 1
    /\ stage = "clearing" => Benchmark /\ output.exists
    /\ Benchmark /\ CleanStart =>
          /\ output.exists /\ ~output.torn /\ output.files = Written
          /\ stage # "rows" => output.rows = <<>>
          /\ RowsOf(results, disk, index, InEpisode, RolledOut)
    /\ Benchmark /\ stage = "rows" =>
          \E n \in 0 .. setup.episodes : output.rows = [k \in 1 .. n |-> results[k]]
    /\ ReportsMatchEpisodes

\* What concerns the whole run and what concerns the rollout at hand.
OuterInv == ArgumentTypes /\ DiskTypes /\ DiskInv /\ OutputTypes /\ RowsInv
InnerInv == RolloutTypes /\ VerdictInv /\ QueueInv /\ EpisodeInv
EvaluationInv == OuterInv /\ InnerInv

-----------------------------------------------------------------------------
(* The operators of a rollout, each by the locals it leaves. *)

\* What none of them changes but those that step: how far the episode has come.
SameProgress(s, r) ==
    /\ s.steps = r.steps /\ s.collisions = r.collisions
    /\ s.states = r.states /\ s.buffered = r.buffered

\* The locals on entry.
LEMMA NewRolloutFields ==
    ASSUME NEW h
    PROVE  LET s == NewRollout(h) IN
           /\ IsRollout(s) /\ s.queue = NewQueue(h) /\ s.info = NoInfo /\ s.steps = 0
           /\ s.collisions = 0 /\ s.states = 0 /\ s.buffered = 0 /\ s.success = FALSE
           /\ s.terminated = FALSE /\ s.reason = "MAX_STEPS"
BY DEF NewRollout, IsRollout, RolloutFields

\* After env.reset.
LEMMA AfterResetFields ==
    ASSUME NEW r, IsRollout(r), r.info = NoInfo, NEW reset \in ResetInfos
    PROVE  LET s == AfterReset(r, reset) IN
           /\ IsRollout(s) /\ s.queue = r.queue /\ SameProgress(s, r)
           /\ s.info.is_success = reset.is_success
           /\ reset.is_success => s.success = TRUE /\ s.terminated = TRUE
                                  /\ s.reason = "SUCCESS"
           /\ ~reset.is_success => s.success = r.success /\ s.terminated = r.terminated
                                   /\ s.reason = r.reason
<1> DEFINE t == [r EXCEPT !.obs = reset.obs, !.info.is_success = reset.is_success]
<1>1. /\ IsRollout(t) /\ t.queue = r.queue /\ SameProgress(t, r)
      /\ t.info.is_success = reset.is_success
      /\ t.success = r.success /\ t.terminated = r.terminated /\ t.reason = r.reason
  BY DEF IsRollout, RolloutFields, SameProgress, NoInfo
<1> HIDE DEF t
<1>2. ~reset.is_success => AfterReset(r, reset) = t
  BY DEF AfterReset, t
<1>3. reset.is_success => AfterReset(r, reset) = [EndedBy(t, "SUCCESS") EXCEPT !.success = TRUE]
  BY DEF AfterReset, t
<1> DEFINE u == [EndedBy(t, "SUCCESS") EXCEPT !.success = TRUE]
<1>4. /\ IsRollout(u) /\ u.queue = t.queue /\ SameProgress(u, t) /\ u.info = t.info
      /\ u.success = TRUE /\ u.terminated = TRUE /\ u.reason = "SUCCESS"
  BY <1>1 DEF IsRollout, RolloutFields, SameProgress, EndedBy
<1> HIDE DEF u
<1> QED  BY <1>1, <1>2, <1>3, <1>4 DEF u, SameProgress

\* After a chunk, loaded or refused.
Inferred(s, r, f, rows) ==
    /\ IsRollout(s) /\ SameProgress(s, r) /\ s.info = r.info /\ s.success = r.success
    /\ f = "none" => /\ s.queue = Loaded(r.queue, rows)
                     /\ s.terminated = r.terminated /\ s.reason = r.reason
    /\ f # "none" => s.queue = r.queue /\ s.terminated = TRUE /\ s.reason = f

LEMMA AfterInferenceFields ==
    ASSUME NEW r, IsRollout(r), NEW c, NEW i, NEW raw
    PROVE  Inferred(AfterInference(r, c, i, raw), r, Refusal(r, c, i, raw), raw.rows)
<1> DEFINE f == Refusal(r, c, i, raw)
           v == Violations(r, c, i, raw)
           l == Loaded(r.queue, raw.rows)
           a == [r EXCEPT !.queue = l]
           b == [EndedBy(r, f) EXCEPT !.violations = @ + v]
<1>1. AfterInference(r, c, i, raw) = IF f = "none" THEN a ELSE b
  BY DEF AfterInference, IsRollout, RolloutFields
<1> HIDE DEF f, v, l
<1>2. /\ IsRollout(a) /\ SameProgress(a, r) /\ a.info = r.info /\ a.success = r.success
      /\ a.queue = l /\ a.terminated = r.terminated /\ a.reason = r.reason
  BY DEF IsRollout, RolloutFields, SameProgress
<1>3. /\ IsRollout(b) /\ SameProgress(b, r) /\ b.info = r.info /\ b.success = r.success
      /\ b.queue = r.queue /\ b.terminated = TRUE /\ b.reason = f
  BY DEF IsRollout, RolloutFields, SameProgress, EndedBy
<1> HIDE DEF a, b
<1> QED  BY <1>1, <1>2, <1>3 DEF f, l, Inferred

\* After env.step has returned.
LEMMA AfterStepFields ==
    ASSUME NEW r, IsRollout(r), NEW info
    PROVE  LET s == AfterStep(r, info) IN
           /\ IsRollout(s) /\ s.steps = r.steps + 1 /\ s.collisions = r.collisions
           /\ s.states = r.states /\ s.buffered = r.buffered /\ s.success = r.success
           /\ s.terminated = r.terminated /\ s.reason = r.reason
           /\ s.queue = Popped(r.queue) /\ s.queued = Head(r.queue.items)
<1> DEFINE i == [f \in DOMAIN NoInfo |-> info[f]]
           h == Head(r.queue.items)
           p == Popped(r.queue)
           n == [state |-> info.state, obs |-> info.obs]
           a == [r EXCEPT !.info = i, !.steps = @ + 1, !.queued = h, !.queue = p, !.next = n]
<1>1. AfterStep(r, info) = a
  BY DEF AfterStep, IsRollout, RolloutFields
<1> HIDE DEF i, h, p, n
<1>2. /\ IsRollout(a) /\ a.steps = r.steps + 1 /\ a.collisions = r.collisions
      /\ a.states = r.states /\ a.buffered = r.buffered /\ a.success = r.success
      /\ a.terminated = r.terminated /\ a.reason = r.reason
      /\ a.queue = p /\ a.queued = h
  BY DEF IsRollout, RolloutFields
<1> HIDE DEF a
<1> QED  BY <1>1, <1>2 DEF p, h

\* After env.step has raised.
LEMMA AfterBridgeErrorFields ==
    ASSUME NEW r, IsRollout(r)
    PROVE  LET s == AfterBridgeError(r) IN
           /\ IsRollout(s) /\ SameProgress(s, r) /\ s.success = r.success
           /\ s.info = r.info /\ s.terminated = TRUE /\ s.reason = "BRIDGE_ERROR"
           /\ s.queue = Popped(r.queue)
<1> DEFINE p == Popped(r.queue)
           a == [EndedBy(r, "BRIDGE_ERROR") EXCEPT !.queue = p]
<1>1. AfterBridgeError(r) = a
  BY DEF AfterBridgeError, EndedBy, IsRollout, RolloutFields
<1> HIDE DEF p
<1>2. /\ IsRollout(a) /\ SameProgress(a, r) /\ a.success = r.success
      /\ a.info = r.info /\ a.terminated = TRUE /\ a.reason = "BRIDGE_ERROR"
      /\ a.queue = p
  BY DEF IsRollout, RolloutFields, SameProgress, EndedBy
<1> HIDE DEF a
<1> QED  BY <1>1, <1>2 DEF p

\* On the way out of the loop, and after an interrupt.
LEMMA LeavingFields ==
    ASSUME NEW r, IsRollout(r)
    PROVE  /\ LET s == Left(r) IN
              /\ IsRollout(s) /\ SameProgress(s, r) /\ s.info = r.info
              /\ s.success = r.success /\ s.terminated = r.terminated
              /\ s.reason = r.reason /\ s.queue = Cleared(r.queue)
           /\ LET s == Interrupted(r) IN
              /\ IsRollout(s) /\ SameProgress(s, r) /\ s.info = r.info
              /\ s.success = r.success /\ s.terminated = TRUE
              /\ s.reason = "MANUAL_INTERRUPT" /\ s.queue = Cleared(r.queue)
<1> DEFINE q == Cleared(r.queue)
           t == r.truncated \/ (~r.terminated /\ r.steps >= MaxSteps)
           a == [r EXCEPT !.truncated = t, !.queue = q]
           b == [EndedBy(r, "MANUAL_INTERRUPT") EXCEPT !.queue = q]
<1>1. Left(r) = a
  BY DEF Left, IsRollout, RolloutFields
<1>2. Interrupted(r) = b
  BY DEF Interrupted, IsRollout, RolloutFields, EndedBy
<1> HIDE DEF q, t
<1>3. /\ IsRollout(a) /\ SameProgress(a, r) /\ a.info = r.info
      /\ a.success = r.success /\ a.terminated = r.terminated
      /\ a.reason = r.reason /\ a.queue = q
  BY DEF IsRollout, RolloutFields, SameProgress
<1>4. /\ IsRollout(b) /\ SameProgress(b, r) /\ b.info = r.info
      /\ b.success = r.success /\ b.terminated = TRUE
      /\ b.reason = "MANUAL_INTERRUPT" /\ b.queue = q
  BY DEF IsRollout, RolloutFields, SameProgress, EndedBy
<1> HIDE DEF a, b
<1> QED  BY <1>1, <1>2, <1>3, <1>4 DEF q

\* After the step has been judged.
Judged(s, r, reason) ==
    /\ IsRollout(s) /\ s.queue = r.queue /\ s.steps = r.steps
    /\ s.states = r.states /\ s.buffered = r.buffered /\ s.info = r.info
    /\ s.collisions = r.collisions + (IF r.info.collision THEN 1 ELSE 0)
    /\ s.success = (reason = "SUCCESS")
    /\ reason \in {"none", "MAX_STEPS"} =>
         s.terminated = r.terminated /\ s.reason = r.reason
    /\ reason \notin {"none", "MAX_STEPS"} => s.terminated = TRUE /\ s.reason = reason

LEMMA AfterJudgementFields ==
    ASSUME NEW r, IsRollout(r), NEW limit
    PROVE  Judged(AfterJudgement(r, limit), r, JudgedReason(r, limit))
<1> DEFINE reason == JudgedReason(r, limit)
           c == IF r.info.collision THEN 1 ELSE 0
           stalled == Stalled(r)
           m == IF reason \in {"none", "NO_PROGRESS"} THEN stalled ELSE r.monitor
           o == r.next.obs
           t == [r EXCEPT !.collisions = @ + c, !.monitor = m, !.success = reason = "SUCCESS",
                          !.obs = o, !.queued = "none", !.next = "none"]
           u == [t EXCEPT !.truncated = TRUE]
           v == [EndedBy(t, reason) EXCEPT !.no_progress = @ + 1]
           w == EndedBy(t, reason)
<1>1. AfterJudgement(r, limit) =
        CASE reason = "none" -> t [] reason = "MAX_STEPS" -> u
          [] reason = "NO_PROGRESS" -> v [] OTHER -> w
  BY DEF AfterJudgement, IsRollout, RolloutFields
<1> HIDE DEF reason, c, m, o
<1>2. /\ IsRollout(t) /\ t.queue = r.queue /\ t.steps = r.steps
      /\ t.states = r.states /\ t.buffered = r.buffered /\ t.info = r.info
      /\ t.collisions = r.collisions + c
      /\ t.success = (reason = "SUCCESS")
      /\ t.terminated = r.terminated /\ t.reason = r.reason
  BY DEF IsRollout, RolloutFields
<1> DEFINE Alike(s) ==
             /\ IsRollout(s) /\ s.queue = t.queue /\ s.steps = t.steps
             /\ s.states = t.states /\ s.buffered = t.buffered /\ s.info = t.info
             /\ s.collisions = t.collisions /\ s.success = t.success
<1> HIDE DEF t
<1>3. Alike(u) /\ u.terminated = t.terminated /\ u.reason = t.reason
  BY <1>2 DEF IsRollout, RolloutFields
<1>4. Alike(v) /\ v.terminated = TRUE /\ v.reason = reason
  BY <1>2 DEF IsRollout, RolloutFields, EndedBy
<1>5. Alike(w) /\ w.terminated = TRUE /\ w.reason = reason
  BY <1>2 DEF IsRollout, RolloutFields, EndedBy
<1> HIDE DEF u, v, w
<1> QED  BY <1>1, <1>2, <1>3, <1>4, <1>5 DEF reason, c, Judged

\* A step is judged a success only when the monitor has nothing to say against it.
LEMMA SuccessIsSafe ==
    ASSUME NEW r, NEW limit \in Nat, r.collisions \in Nat,
           JudgedReason(r, limit) = "SUCCESS"
    PROVE  /\ r.info.is_success /\ ~r.info.unsafe_state /\ ~r.info.object_lost
           /\ limit # NoLimit =>
                r.collisions + (IF r.info.collision THEN 1 ELSE 0) < limit
<1> DEFINE unsafe == _monitor_reason(r.info, r.collisions, limit)
<1>1. unsafe \in {"UNSAFE_STATE", "OBJECT_LOST", "COLLISION_LIMIT", "none"}
  BY DEF _monitor_reason
<1> HIDE DEF unsafe
<1>2. unsafe = "none" /\ r.info.is_success
  BY <1>1 DEF JudgedReason, unsafe
<1> QED  BY <1>2 DEF _monitor_reason, unsafe

\* The queue, loaded with a chunk, popped and cleared.
LEMMA NewQueueFields ==
    ASSUME NEW h \in Nat
    PROVE  NewQueue(h) \in Queues /\ NewQueue(h).horizon = h /\ NewQueue(h).items = <<>>
           /\ NewQueue(h).next_chunk_id = 0
BY DEF NewQueue, Queues

LEMMA LoadedFields ==
    ASSUME NEW q \in Queues, NEW rows \in Seq(Actions), Loadable(q, rows)
    PROVE  LET l == Loaded(q, rows) IN
           /\ l \in Queues /\ l.horizon = q.horizon
           /\ l.next_chunk_id = q.next_chunk_id + 1 /\ Len(l.items) = q.horizon
           /\ \A k \in 1 .. q.horizon : l.items[k] = Item(q.next_chunk_id, rows, k - 1)
           /\ \A k \in 1 .. q.horizon : k \in 1 .. Len(rows) /\ l.items[k].action = rows[k]
<1> DEFINE i == [k \in 1 .. q.horizon |-> Item(q.next_chunk_id, rows, k - 1)]
<1>1. q.horizon \in Nat /\ q.next_chunk_id \in Nat /\ Len(rows) \in Nat /\ Len(rows) >= q.horizon
  BY DEF Queues, Loadable
<1>2. \A k \in 1 .. q.horizon : k \in 1 .. Len(rows) /\ rows[k] \in Actions
  BY <1>1
<1>3. ASSUME NEW k \in 1 .. q.horizon
      PROVE  Item(q.next_chunk_id, rows, k - 1) \in Items
             /\ Item(q.next_chunk_id, rows, k - 1).action = rows[k]
  <2>1. k - 1 \in Nat /\ (k - 1) + 1 = k
    BY <1>1
  <2> QED  BY <2>1, <1>1, <1>2 DEF Item, Items
<1>4. i \in Seq(Items) /\ Len(i) = q.horizon
  <2>1. i \in [1 .. q.horizon -> Items]
    BY <1>3
  <2> HIDE DEF i
  <2> QED  BY <1>1, <2>1
<1> HIDE DEF i
<1>5. Loaded(q, rows) = [q EXCEPT !.items = i, !.next_chunk_id = @ + 1]
  BY DEF Loaded, i
<1> DEFINE n == q.next_chunk_id + 1
<1>6. /\ [q EXCEPT !.items = i, !.next_chunk_id = n] \in Queues /\ n \in Nat
      /\ [q EXCEPT !.items = i, !.next_chunk_id = n] =
            [q EXCEPT !.items = i, !.next_chunk_id = @ + 1]
  <2>1. n \in Nat /\ i \in Seq(Items)
    BY <1>1, <1>4
  <2>2. [q EXCEPT !.items = i, !.next_chunk_id = n] =
            [q EXCEPT !.items = i, !.next_chunk_id = @ + 1]
    BY DEF Queues
  <2> HIDE DEF n
  <2> QED  BY <2>1, <2>2 DEF Queues
<1> QED  BY <1>2, <1>3, <1>4, <1>5, <1>6 DEF i, Queues

LEMMA PoppedFields ==
    ASSUME NEW q \in Queues, q.items # <<>>
    PROVE  LET p == Popped(q) IN
           /\ p \in Queues /\ p.horizon = q.horizon /\ p.next_chunk_id = q.next_chunk_id
           /\ Len(p.items) = Len(q.items) - 1 /\ Len(q.items) \in Nat \ {0}
           /\ \A k \in 1 .. Len(p.items) :
                k + 1 \in 1 .. Len(q.items) /\ p.items[k] = q.items[k + 1]
           /\ Head(q.items) = q.items[1] /\ q.items[1] \in Items
<1> DEFINE i == Tail(q.items)
<1>1. q.items \in Seq(Items)
  BY DEF Queues
<1>2. /\ i \in Seq(Items) /\ Len(i) = Len(q.items) - 1 /\ Len(q.items) \in Nat \ {0}
      /\ \A k \in 1 .. Len(i) : k + 1 \in 1 .. Len(q.items) /\ i[k] = q.items[k + 1]
      /\ Head(q.items) = q.items[1] /\ q.items[1] \in Items
  BY <1>1
<1> HIDE DEF i
<1>3. Popped(q) = [q EXCEPT !.items = i]
  BY DEF Popped, i, Queues
<1>4. [q EXCEPT !.items = i] \in Queues
  BY <1>2 DEF Queues
<1> QED  BY <1>2, <1>3, <1>4 DEF Queues

LEMMA ClearedFields ==
    ASSUME NEW q \in Queues
    PROVE  Cleared(q) \in Queues /\ Cleared(q).horizon = q.horizon
<1>1. <<>> \in Seq(Items)
  OBVIOUS
<1> QED  BY <1>1 DEF Cleared, Queues

\* A chunk that is not refused holds no action that would be.
LEMMA AcceptedRows ==
    ASSUME NEW r, NEW c, NEW i, NEW raw \in RawChunks, Refusal(r, c, i, raw) = "none"
    PROVE  raw.rows \in Seq(Actions)
           /\ \A k \in DOMAIN raw.rows : raw.rows[k] \notin {"nan", "out"}
<1> DEFINE rows == raw.rows
           outs == {k \in DOMAIN rows : rows[k] = "out"}
<1>1. rows \in Seq(Actions) /\ Len(rows) \in Nat /\ DOMAIN rows = 1 .. Len(rows)
  BY DEF RawChunks
<1>2. IsFiniteSet(outs)
  <2>1. IsFiniteSet(1 .. Len(rows))
    BY <1>1, FS_Interval
  <2> QED  BY <1>1, <2>1, FS_Subset
<1>3. "nan" \notin {rows[k] : k \in DOMAIN rows} /\ ~(Cardinality(outs) > 0)
  BY DEF Refusal, validate_native_action_chunk
<1>4. Cardinality(outs) \in Nat
  BY <1>2, FS_CardinalityType
<1>5. outs = {}
  BY <1>2, <1>3, <1>4, FS_EmptySet
<1> QED  BY <1>1, <1>3, <1>5

\* Nor is an action that was accepted with its chunk refused by itself.
LEMMA AcceptedAction ==
    ASSUME NEW a, a \notin {"nan", "out"}
    PROVE  PopRefusal(a) = "none"
<1> DEFINE rows == <<a>>
           outs == {k \in DOMAIN rows : rows[k] = "out"}
<1>1. outs = {} /\ "nan" \notin {rows[k] : k \in DOMAIN rows}
  OBVIOUS
<1>2. Cardinality(outs) = 0
  BY <1>1, FS_EmptySet
<1> DEFINE v == validate_native_action_chunk(rows, TRUE)
<1>3. v = [finite |-> TRUE, shape_ok |-> TRUE, violation_count |-> 0]
  BY <1>1, <1>2 DEF validate_native_action_chunk
<1> HIDE DEF rows, v
<1>4. v.violation_count = 0 /\ v.finite = TRUE
  BY <1>3
<1>5. ~(v.violation_count > 0) /\ v.finite
  BY <1>4
<1> QED  BY <1>5 DEF PopRefusal, rows, v

\* The n-th action of a policy, counted from 0, by its chunk and its place there.
LEMMA ChunkAndOffset ==
    ASSUME NEW h \in Nat \ {0}, NEW c \in Nat, NEW o \in 0 .. h - 1, NEW n \in Nat,
           n = c * h + o
    PROVE  n \div h = c /\ n % h = o
<1> DEFINE q == n \div h
           m == n % h
<1>1. q \in Int /\ m \in 0 .. h - 1 /\ n = h * q + m
  OBVIOUS
<1> HIDE DEF q, m
<1>2. ~(q >= c + 1)
  <2> SUFFICES ASSUME q >= c + 1 PROVE FALSE
    OBVIOUS
  <2>1. h * q >= h * (c + 1)
    BY <1>1
  <2> QED  BY <1>1, <2>1
<1>3. ~(q <= c - 1)
  <2> SUFFICES ASSUME q <= c - 1 PROVE FALSE
    OBVIOUS
  <2>1. h * q <= h * (c - 1)
    BY <1>1
  <2> QED  BY <1>1, <2>1
<1>4. q = c
  BY <1>1, <1>2, <1>3
<1>5. m = o
  BY <1>1, <1>4
<1> QED  BY <1>4, <1>5 DEF q, m

-----------------------------------------------------------------------------
(* What a step inside an episode leaves as it was.                          *)

\* The numbers a process is started with.
LEMMA SetupNumbers ==
    ASSUME ArgumentTypes
    PROVE  /\ setup.horizon \in Nat \ {0} /\ setup.limit \in Nat
           /\ setup.episodes \in Nat \ {0} /\ setup.episodes \in EpisodeCounts
           /\ 1 .. setup.episodes \subseteq Episodes /\ index \in Nat \ {0}
           /\ InEpisode => index \in Episodes
<1>1. setup \in Setups
  BY DEF ArgumentTypes
<1>2. /\ setup.horizon \in Horizons /\ setup.limit \in CollisionLimits
      /\ setup.episodes \in EpisodeCounts
  BY <1>1 DEF Setups
<1>3. setup.horizon \in Nat \ {0} /\ setup.limit \in Nat /\ setup.episodes \in Nat \ {0}
  <2>1. setup.horizon \in 1 .. ChunkSize /\ ChunkSize \in Nat
    BY <1>2, RunAssumption, ChunkSizeAssumption
  <2>2. setup.horizon \in Nat \ {0}
    BY ONLY <2>1
  <2> QED  BY <2>2, <1>2, RunAssumption
<1>4. 1 .. setup.episodes \subseteq Episodes
  BY <1>2 DEF Episodes
<1> QED  BY <1>2, <1>3, <1>4 DEF ArgumentTypes

Frame(places) == UNCHANGED <<setup, index, results, output>> /\ InEpisode /\ stage' \in places

\* While episodes run there is no report yet, and what is not there is not wrong.
NothingWritten ==
    output.exists /\ ~output.torn /\ output.files = {} /\ output.rows = <<>>

LEMMA EpisodeUnreported ==
    ASSUME RowsInv, InEpisode, Benchmark
    PROVE  NothingWritten /\ RowsOf(results, disk, index, TRUE, RolledOut)
BY DEF RowsInv, InEpisode, Outside, Reporting, CleanStart, Written, NothingWritten

LEMMA UnreportedRows ==
    ASSUME Benchmark' => NothingWritten' /\ RowsOf(results', disk', index', TRUE, RolledOut'),
           InEpisode'
    PROVE  RowsInv'
<1>1. ReportsMatchEpisodes'
  BY DEF ReportsMatchEpisodes, NothingWritten
<1>2. InEpisode' = TRUE
  BY DEF InEpisode
<1> QED
  BY <1>1, <1>2 DEF RowsInv, InEpisode, Outside, Reporting, CleanStart, Written, NothingWritten

\* A step of an episode that leaves its directory alone.
LEMMA OuterOfRollout ==
    ASSUME OuterInv, Frame(Stages), InEpisode', UNCHANGED disk
    PROVE  OuterInv'
<1> USE DEF OuterInv, Frame
<1>1. ArgumentTypes'
  BY DEF ArgumentTypes
<1>2. DiskTypes'
  BY DEF DiskTypes
<1>3. DiskInv'
  BY DEF DiskInv, RolledOut
<1>4. OutputTypes'
  BY DEF OutputTypes, Benchmark
<1>5. RowsInv'
  <2>1. Benchmark' = Benchmark
    BY DEF Benchmark
  <2>2. Benchmark => NothingWritten /\ RowsOf(results, disk, index, TRUE, RolledOut)
    BY EpisodeUnreported
  <2>3. RolledOut' = RolledOut
    BY DEF RolledOut
  <2> QED  BY <2>1, <2>2, <2>3, UnreportedRows DEF NothingWritten
<1> QED  BY <1>1, <1>2, <1>3, <1>4, <1>5

\* A step of an episode that changes its own directory, which is still its own.
LEMMA OuterOfDirectory ==
    ASSUME OuterInv, Frame(Stages), InEpisode', NEW d, disk' = [disk EXCEPT ![index] = d],
           IsDirectory(d), d.trace \in Seq(Nat \X Nat), d.exists = disk[index].exists,
           d.torn = disk[index].torn,
           DirectoryInv(d, setup.horizon, RolledOut)
    PROVE  OuterInv' /\ disk'[index'] = d
<1> USE DEF OuterInv, Frame
<1>1. ArgumentTypes'
  BY DEF ArgumentTypes
<1>2. index \in Episodes /\ 1 .. setup.episodes \subseteq Episodes /\ index \in Nat \ {0}
      /\ index \in 1 .. setup.episodes /\ setup.episodes \in Nat
  BY SetupNumbers DEF ArgumentTypes
<1>3. /\ disk' = [e \in Episodes |-> disk'[e]] /\ disk'[index] = d
      /\ \A e \in Episodes : e # index => disk'[e] = disk[e]
  BY <1>2 DEF DiskTypes
<1>4. DiskTypes'
  BY <1>3 DEF DiskTypes
<1>5. DiskInv'
  <2>1. UNCHANGED <<setup.horizon, RolledOut>>
    BY DEF RolledOut
  <2> QED  BY <1>3, <2>1 DEF DiskInv
<1>6. Benchmark' = Benchmark /\ RolledOut' = RolledOut
  BY DEF Benchmark, RolledOut
<1>7. Benchmark => NothingWritten /\ RowsOf(results, disk, index, TRUE, RolledOut)
  BY EpisodeUnreported
<1>8. OutputTypes'
  BY <1>6, <1>7 DEF OutputTypes, NothingWritten
<1>9. RowsInv'
  <2>1. Benchmark => RowsOf(results, disk', index, TRUE, RolledOut)
    <3>1. \A e \in 1 .. index - 1 : e \in Episodes /\ e # index /\ disk'[e] = disk[e]
      BY <1>2, <1>3
    <3>2. \A e \in Episodes : disk'[e].exists = disk[e].exists /\ disk'[e].torn = disk[e].torn
      BY <1>3
    <3> QED  BY <1>7, <3>1, <3>2 DEF RowsOf
  <2>2. Benchmark => NothingWritten'
    BY <1>7 DEF NothingWritten
  <2> QED  BY <1>6, <2>1, <2>2, UnreportedRows
<1> QED  BY <1>1, <1>3, <1>4, <1>5, <1>8, <1>9

-----------------------------------------------------------------------------
(* Steps outside an episode.                                                *)

\* Between two episodes the locals are those on entry, or say nothing new.
LEMMA InnerOutside ==
    ASSUME InnerInv, ArgumentTypes, stage' \in Outside, setup'.horizon = setup.horizon,
           setup'.driver = setup.driver, setup'.limit = setup.limit,
           ro' = ro \/ ro' = NewRollout(setup.horizon)
    PROVE  InnerInv'
<1> USE DEF Outside, Reporting, Recording, Closing
<1>1. setup.horizon \in Nat
  BY SetupNumbers
<1>2. CASE ro' = ro
  BY <1>2 DEF InnerInv, RolloutTypes, VerdictInv, QueueInv, EpisodeInv, InEpisode, RolledOut
<1>3. CASE ro' = NewRollout(setup.horizon)
  <2>1. /\ IsRollout(ro') /\ ro'.queue = NewQueue(setup.horizon) /\ ro'.steps = 0
        /\ ro'.collisions = 0 /\ ro'.success = FALSE /\ ro'.terminated = FALSE
        /\ ro'.reason = "MAX_STEPS"
    BY <1>3, NewRolloutFields
  <2>2. ro'.queue \in Queues /\ ro'.queue.horizon = setup.horizon
    BY <1>1, <2>1, NewQueueFields
  <2>3. RolloutTypes'
    <3>1. IsRollout(ro)'
      BY <2>1
    <3>2. ro'.queue \in Queues /\ ro'.queue.horizon = setup'.horizon
      BY <2>2
    <3>3. ro'.success \in BOOLEAN /\ ro'.terminated \in BOOLEAN
      BY <2>1
    <3>4. ro'.steps \in Nat /\ ro'.collisions \in Nat
      BY <2>1
    <3> QED  BY <3>1, <3>2, <3>3, <3>4 DEF RolloutTypes
  <2>4. VerdictInv'
    BY <2>1 DEF VerdictInv
  <2>5. QueueInv' /\ EpisodeInv'
    BY DEF QueueInv, EpisodeInv, InEpisode
  <2> QED  BY <2>3, <2>4, <2>5 DEF InnerInv
<1> QED  BY <1>2, <1>3

\* A step that leaves the directories alone and is not in an episode any more.
LEMMA SameDirectories ==
    ASSUME EvaluationInv, stage' \in Outside, setup' \in Setups, UNCHANGED disk,
           setup'.horizon = setup.horizon, setup'.driver = setup.driver,
           setup'.limit = setup.limit, setup'.episodes = setup.episodes,
           index' \in 1 .. setup.episodes + 1, ro' = ro \/ ro' = NewRollout(setup.horizon)
    PROVE  /\ InnerInv' /\ ArgumentTypes' /\ DiskTypes' /\ DiskInv'
           /\ Benchmark' = Benchmark /\ RolledOut' = RolledOut
           /\ UNCHANGED output => OutputTypes' /\ ReportsMatchEpisodes'
<1> USE DEF EvaluationInv
<1>1. InnerInv'
  BY InnerOutside DEF OuterInv
<1>2. InEpisode' = FALSE
  BY DEF InEpisode
<1>3. ArgumentTypes'
  BY <1>2 DEF ArgumentTypes, Stages
<1>4. Benchmark' = Benchmark /\ RolledOut' = RolledOut
  BY DEF Benchmark, RolledOut
<1>5. DiskTypes' /\ DiskInv'
  BY <1>2, <1>4 DEF OuterInv, DiskTypes, DiskInv
<1>6. UNCHANGED output => OutputTypes'
  BY <1>4 DEF OuterInv, OutputTypes
<1>7. UNCHANGED output => ReportsMatchEpisodes'
  BY <1>4 DEF OuterInv, RowsInv, ReportsMatchEpisodes
<1> QED  BY <1>1, <1>3, <1>4, <1>5, <1>6, <1>7

\* The process ends, whether it was told to or not.
LEMMA FailKeeps ==
    ASSUME EvaluationInv, Fail
    PROVE  EvaluationInv'
<1>1. /\ stage' = "idle" /\ index' = 1 /\ ro' = NewRollout(setup.horizon)
      /\ results' = <<>> /\ UNCHANGED <<setup, disk, output>>
  BY DEF Fail
<1>2. setup \in Setups /\ index' \in 1 .. setup.episodes + 1
  BY <1>1, SetupNumbers DEF EvaluationInv, OuterInv, ArgumentTypes
<1>3. /\ InnerInv' /\ ArgumentTypes' /\ DiskTypes' /\ DiskInv' /\ OutputTypes'
      /\ ReportsMatchEpisodes'
  BY <1>1, <1>2, SameDirectories DEF Outside
<1>4. RowsInv'
  BY <1>1, <1>3 DEF RowsInv, Reporting, CleanStart
<1> QED  BY <1>3, <1>4 DEF EvaluationInv, OuterInv

\* The script is started, and decides what to do with its output directory.
LEMMA BeginningKeeps ==
    ASSUME EvaluationInv, Invoke \/ StartClearing
    PROVE  EvaluationInv'
<1>1. PICK o \in BOOLEAN : setup' = setup \/ setup' = [setup EXCEPT !.overwrite = o]
  BY DEF Invoke, StartClearing
<1>2. /\ stage \in {"idle", "begin"} /\ stage' \in {"begin", "clearing"}
      /\ UNCHANGED <<index, ro, results, disk, output>>
      /\ stage' = "clearing" => Benchmark /\ output.exists
  BY DEF Invoke, StartClearing
<1>3. setup \in Setups /\ index \in 1 .. setup.episodes + 1 /\ RowsInv
  BY DEF EvaluationInv, OuterInv, ArgumentTypes
<1>4. /\ setup' \in Setups /\ setup'.horizon = setup.horizon /\ setup'.limit = setup.limit
      /\ setup'.driver = setup.driver /\ setup'.episodes = setup.episodes
  BY <1>1, <1>3 DEF Setups
<1>5. /\ InnerInv' /\ ArgumentTypes' /\ DiskTypes' /\ DiskInv' /\ OutputTypes'
      /\ ReportsMatchEpisodes' /\ Benchmark' = Benchmark
  BY <1>2, <1>3, <1>4, SameDirectories DEF Outside
<1>6. RowsInv'
  BY <1>2, <1>3, <1>5 DEF RowsInv, Reporting, CleanStart
<1> QED  BY <1>5, <1>6 DEF EvaluationInv, OuterInv

\* The output directory is made anew.
LEMMA BeginKeeps ==
    ASSUME EvaluationInv, Begin
    PROVE  EvaluationInv'
<1>1. /\ stage = "begin" /\ stage' = "build" /\ (Benchmark => ~output.exists)
      /\ output' = [output EXCEPT !.exists = TRUE]
      /\ UNCHANGED <<setup, index, ro, results, disk>>
  BY DEF Begin
<1>2. OuterInv /\ setup \in Setups /\ index \in 1 .. setup.episodes + 1
  BY DEF EvaluationInv, OuterInv, ArgumentTypes
<1>3. /\ InnerInv' /\ ArgumentTypes' /\ DiskTypes' /\ DiskInv'
      /\ Benchmark' = Benchmark /\ RolledOut' = RolledOut
  BY <1>1, <1>2, SameDirectories DEF Outside
<1>4. index = 1 /\ results = <<>>
  BY <1>1, <1>2 DEF OuterInv, RowsInv
<1>5. /\ output' = [f \in OutputFields |-> output'[f]] /\ output'.exists = TRUE
      /\ output'.torn = output.torn /\ output'.files = output.files
      /\ output'.rows = output.rows
  BY <1>1, <1>2 DEF OuterInv, OutputTypes, OutputFields
<1>6. Benchmark => /\ output.torn = FALSE /\ output.files = {} /\ output.rows = <<>>
                   /\ \A e \in Episodes : disk[e].exists = FALSE /\ disk[e].torn = FALSE
  <2>1. NoDirectory.exists = FALSE /\ NoDirectory.torn = FALSE
    BY DEF NoDirectory, NewDirectory
  <2> QED  BY <1>1, <1>2, <2>1 DEF OuterInv, OutputTypes, DiskTypes, NoOutput
<1>7. OutputTypes'
  BY <1>2, <1>3, <1>5, <1>6 DEF OuterInv, OutputTypes
<1>8. ReportsMatchEpisodes'
  BY <1>3, <1>5, <1>6 DEF ReportsMatchEpisodes
<1>9. Benchmark => RowsOf(<<>>, disk, 1, FALSE, RolledOut)
  <2>1. <<>> = [k \in 1 .. 1 - 1 |-> disk[k].row]
    OBVIOUS
  <2>2. \A e \in Episodes : e \in Nat \ {0}
    BY RunAssumption DEF Episodes
  <2> QED  BY <1>6, <2>1, <2>2 DEF RowsOf
<1>10. InEpisode' = FALSE /\ Written' = {}
  BY <1>1 DEF InEpisode, Outside, Written
<1>11. RowsInv'
  BY <1>1, <1>3, <1>4, <1>5, <1>6, <1>8, <1>9, <1>10 DEF RowsInv, Reporting, CleanStart
<1> QED  BY <1>3, <1>7, <1>11 DEF EvaluationInv, OuterInv

\* What is needed is there.
LEMMA BuildKeeps ==
    ASSUME EvaluationInv, Build
    PROVE  EvaluationInv'
<1>1. /\ stage = "build" /\ stage' = "episode"
      /\ UNCHANGED <<setup, index, ro, results, disk, output>>
  BY DEF Build
<1>2. OuterInv /\ setup \in Setups /\ index \in 1 .. setup.episodes + 1
  BY DEF EvaluationInv, OuterInv, ArgumentTypes
<1>3. /\ InnerInv' /\ ArgumentTypes' /\ DiskTypes' /\ DiskInv' /\ OutputTypes'
      /\ ReportsMatchEpisodes' /\ Benchmark' = Benchmark /\ RolledOut' = RolledOut
  BY <1>1, <1>2, SameDirectories DEF Outside
<1>4. InEpisode = FALSE /\ InEpisode' = FALSE /\ Written = {} /\ Written' = {}
  BY <1>1 DEF InEpisode, Outside, Written
<1>5. RowsInv'
  BY <1>1, <1>2, <1>3, <1>4 DEF OuterInv, RowsInv, Reporting, CleanStart
<1> QED  BY <1>3, <1>5 DEF EvaluationInv, OuterInv

\* A directory that is being removed, or has been, says nothing.
LEMMA RemovedFields ==
    ASSUME NEW d
    PROVE  LET s == Removed(d) IN
           /\ IsDirectory(s) /\ s.trace = <<>> /\ s.result.reason = "none"
           /\ s.torn \/ ~s.exists
           /\ ~s.exists => s = NoDirectory
           /\ \A h, rolled : DirectoryInv(s, h, rolled)
<1>1. ASSUME NEW s \in {NoDirectory, TornDirectory}
      PROVE  /\ IsDirectory(s) /\ s.trace = <<>> /\ s.result.reason = "none"
             /\ s.torn \/ ~s.exists
             /\ ~s.exists => s = NoDirectory
  <2>1. CASE s = NoDirectory
    BY <2>1 DEF IsDirectory, DirectoryFields, NoDirectory, NewDirectory, NoResult
  <2>2. CASE s = TornDirectory
    BY <2>2 DEF IsDirectory, DirectoryFields, TornDirectory, NewDirectory, NoResult
  <2> QED  BY <2>1, <2>2
<1>2. Removed(d) \in {NoDirectory, TornDirectory}
  BY DEF Removed
<1>3. DOMAIN <<>> = {}
  OBVIOUS
<1>4. \A h, rolled : DirectoryInv(Removed(d), h, rolled)
  BY <1>1, <1>2, <1>3 DEF DirectoryInv, VerdictOf
<1> QED  BY <1>1, <1>2, <1>4

\* One more piece of a directory is removed, by the benchmark or by the suite.
LEMMA RemoveKeeps ==
    ASSUME EvaluationInv, stage' = stage, UNCHANGED <<setup, index, ro, results>>,
           NEW e \in Episodes, disk' = [disk EXCEPT ![e] = Removed(@)],
           \/ stage = "clearing" /\ output' = [output EXCEPT !.torn = TRUE]
           \/ stage = "episode" /\ ~Benchmark /\ UNCHANGED output
    PROVE  EvaluationInv'
<1>1. OuterInv /\ InnerInv
  BY DEF EvaluationInv
<1> DEFINE d == Removed(disk[e])
<1>2. /\ IsDirectory(d) /\ d.trace = <<>> /\ (d.torn \/ ~d.exists)
      /\ (~d.exists => d = NoDirectory)
      /\ \A h, rolled : DirectoryInv(d, h, rolled)
  BY RemovedFields
<1>3. disk' = [disk EXCEPT ![e] = d]
  OBVIOUS
<1> HIDE DEF d
<1>4. /\ disk' = [f \in Episodes |-> disk'[f]] /\ disk'[e] = d
      /\ \A f \in Episodes : f # e => disk'[f] = disk[f]
  BY <1>1, <1>3 DEF OuterInv, DiskTypes
<1>5. InEpisode' = FALSE /\ InEpisode = FALSE /\ Benchmark' = Benchmark /\ RolledOut' = RolledOut
  BY DEF InEpisode, Outside, Benchmark, RolledOut
<1>6. InnerInv'
  BY <1>1, InnerOutside DEF OuterInv, Outside
<1>7. ArgumentTypes'
  BY <1>1, <1>5 DEF OuterInv, ArgumentTypes
<1>8. DiskTypes'
  <2>1. <<>> \in Seq(Nat \X Nat)
    OBVIOUS
  <2> QED  BY <1>1, <1>2, <1>4, <1>5, <2>1 DEF OuterInv, DiskTypes
<1>9. DiskInv'
  BY <1>1, <1>2, <1>4, <1>5 DEF OuterInv, DiskInv
<1>10. /\ output' = [f \in OutputFields |-> output'[f]] /\ output'.exists = output.exists
       /\ output'.rows = output.rows /\ (Benchmark => output'.torn = TRUE)
  BY <1>1 DEF OuterInv, OutputTypes, OutputFields
<1>11. stage = "clearing" => Benchmark /\ output.exists
  BY <1>1 DEF OuterInv, RowsInv
<1>12. OutputTypes'
  BY <1>1, <1>5, <1>10, <1>11 DEF OuterInv, OutputTypes
<1>13. ReportsMatchEpisodes'
  <2>1. ASSUME Benchmark, NEW f \in DOMAIN output.rows, disk'[f].exists, ~disk'[f].torn
        PROVE  disk'[f].row = output.rows[f]
    <3>1. f \in Episodes /\ f # e
      BY <1>1, <1>2, <1>4, <2>1 DEF OuterInv, OutputTypes
    <3>2. disk'[f] = disk[f]
      BY <1>4, <3>1
    <3> QED  BY <1>1, <2>1, <3>2 DEF OuterInv, RowsInv, ReportsMatchEpisodes
  <2> QED  BY <1>5, <1>10, <2>1 DEF ReportsMatchEpisodes
<1>14. RowsInv'
  BY <1>1, <1>5, <1>10, <1>11, <1>13 DEF OuterInv, RowsInv, Reporting, CleanStart
<1> QED  BY <1>6, <1>7, <1>8, <1>9, <1>12, <1>14 DEF EvaluationInv, OuterInv

\* rmtree goes on.
LEMMA ClearKeeps ==
    ASSUME EvaluationInv, Clear
    PROVE  EvaluationInv'
<1>1. OuterInv /\ setup \in Setups /\ index \in 1 .. setup.episodes + 1
  BY DEF EvaluationInv, OuterInv, ArgumentTypes
<1>2. stage = "clearing" /\ UNCHANGED <<setup, index, ro, results>>
  BY DEF Clear
<1>3. Benchmark /\ output.exists /\ index = 1 /\ results = <<>>
  BY <1>1, <1>2 DEF OuterInv, RowsInv
<1>4. CASE stage' = stage /\ output' = [output EXCEPT !.torn = TRUE]
           /\ \E e \in Episodes : disk' = [disk EXCEPT ![e] = Removed(@)]
  BY <1>2, <1>4, RemoveKeeps
<1>5. ASSUME NEW f, UNCHANGED <<stage, disk>>,
             output' = [output EXCEPT !.torn = TRUE, !.files = @ \ {f},
                            !.rows = IF f = "episodes.csv" THEN <<>> ELSE @]
      PROVE  EvaluationInv'
  <2>1. /\ InnerInv' /\ ArgumentTypes' /\ DiskTypes' /\ DiskInv' /\ Benchmark' = Benchmark
    BY <1>1, <1>2, <1>5, SameDirectories DEF Outside
  <2>2. /\ output' = [g \in OutputFields |-> output'[g]] /\ output'.exists = output.exists
        /\ output'.torn = TRUE
        /\ output'.rows = (IF f = "episodes.csv" THEN <<>> ELSE output.rows)
    BY <1>1, <1>5 DEF OuterInv, OutputTypes, OutputFields
  <2>3. output'.rows = output.rows \/ DOMAIN output'.rows = {}
    BY <2>2
  <2>4. OutputTypes'
    BY <1>1, <1>3, <2>1, <2>2, <2>3 DEF OuterInv, OutputTypes
  <2>5. ReportsMatchEpisodes'
    BY <1>1, <1>3, <1>5, <2>2, <2>3 DEF OuterInv, RowsInv, ReportsMatchEpisodes
  <2>6. RowsInv'
    BY <1>2, <1>3, <1>5, <2>1, <2>2, <2>5 DEF RowsInv, Reporting, CleanStart
  <2> QED  BY <2>1, <2>4, <2>6 DEF EvaluationInv, OuterInv
<1>6. CASE /\ \A e \in Episodes : ~disk[e].exists
           /\ output' = NoOutput /\ stage' = "begin" /\ UNCHANGED disk
  <2>1. /\ InnerInv' /\ ArgumentTypes' /\ DiskTypes' /\ DiskInv'
    BY <1>1, <1>2, <1>6, SameDirectories DEF Outside
  <2>2. /\ output' = [g \in OutputFields |-> output'[g]] /\ output'.files = {}
        /\ output'.rows = <<>>
    BY <1>6 DEF NoOutput, OutputFields
  <2>3. OutputTypes'
    BY <1>6, <2>2 DEF OutputTypes
  <2>4. ReportsMatchEpisodes'
    BY <2>2 DEF ReportsMatchEpisodes
  <2>5. RowsInv'
    BY <1>2, <1>3, <1>6, <2>4 DEF RowsInv, Reporting, CleanStart
  <2> QED  BY <2>1, <2>3, <2>5 DEF EvaluationInv, OuterInv
<1> QED  BY <1>4, <1>5, <1>6 DEF Clear

\* The suite replaces an episode's directory.
LEMMA ReplaceKeeps ==
    ASSUME EvaluationInv, ReplaceDirectory
    PROVE  EvaluationInv'
<1>1. /\ stage = "episode" /\ index <= setup.episodes /\ ~Benchmark
      /\ disk' = [disk EXCEPT ![index] = Removed(@)]
      /\ UNCHANGED <<setup, stage, index, ro, results, output>>
  BY DEF ReplaceDirectory, Benchmark
<1>2. index \in Episodes
  BY <1>1, SetupNumbers DEF EvaluationInv, OuterInv, ArgumentTypes
<1> QED  BY <1>1, <1>2, RemoveKeeps

-----------------------------------------------------------------------------
(* Steps of a rollout.                                                      *)

\* An episode opens with its directory.
LEMMA OpenEpisodeKeeps ==
    ASSUME EvaluationInv, OpenEpisode
    PROVE  EvaluationInv'
<1> USE DEF EvaluationInv
<1>1. /\ stage = "episode" /\ stage' = "reset" /\ index <= setup.episodes
      /\ disk' = [disk EXCEPT ![index] = NewDirectory]
      /\ ro' = NewRollout(setup.horizon) /\ ~disk[index].exists
      /\ UNCHANGED <<setup, index, results, output>>
  BY DEF OpenEpisode
<1>2. /\ setup.horizon \in Nat /\ setup.episodes \in Nat /\ index \in Nat \ {0}
      /\ index \in 1 .. setup.episodes /\ 1 .. setup.episodes \subseteq Episodes
      /\ index \in Episodes
  BY <1>1, SetupNumbers DEF OuterInv, ArgumentTypes
<1>3. /\ IsDirectory(NewDirectory) /\ NewDirectory.trace = <<>> /\ NewDirectory.exists = TRUE
      /\ NewDirectory.torn = FALSE /\ NewDirectory.events = 0
      /\ NewDirectory.result = NoResult /\ NoResult.reason = "none"
  BY DEF IsDirectory, DirectoryFields, NewDirectory, NoResult
<1>4. <<>> \in Seq(Nat \X Nat) /\ DOMAIN <<>> = {} /\ Len(<<>>) = 0
  OBVIOUS
<1>5. /\ disk' = [e \in Episodes |-> disk'[e]] /\ disk'[index] = NewDirectory
      /\ \A e \in Episodes : e # index => disk'[e] = disk[e]
  BY <1>1, <1>2 DEF OuterInv, DiskTypes
<1>6. ArgumentTypes'
  BY <1>1, <1>2 DEF OuterInv, ArgumentTypes, Stages, InEpisode, Outside, Reporting
<1>7. DiskTypes'
  <2>1. disk' = [e \in Episodes |-> disk'[e]]
    BY <1>5
  <2>2. ASSUME NEW e \in Episodes
        PROVE  IsDirectory(disk'[e]) /\ disk'[e].trace \in Seq(Nat \X Nat)
    BY <1>3, <1>4, <1>5 DEF OuterInv, DiskTypes
  <2>3. \A e \in Episodes : ~disk'[e].exists => disk'[e] = NoDirectory
    BY <1>3, <1>5 DEF OuterInv, DiskTypes
  <2>4. disk'[index'].exists
    BY <1>1, <1>3, <1>5
  <2> QED  BY <2>1, <2>2, <2>3, <2>4 DEF DiskTypes
<1>8. DiskInv'
  <2>1. DirectoryInv(NewDirectory, setup.horizon, RolledOut)
    BY <1>3, <1>4 DEF DirectoryInv, VerdictOf
  <2>2. UNCHANGED <<setup.horizon, RolledOut>>
    BY <1>1 DEF RolledOut
  <2> QED  BY <1>5, <2>1, <2>2 DEF OuterInv, DiskInv
<1>9. OutputTypes' /\ RowsInv'
  <2>1. Benchmark' = Benchmark /\ RolledOut' = RolledOut
    BY <1>1 DEF Benchmark, RolledOut
  <2>2. Benchmark => NothingWritten /\ RowsOf(results, disk, index, FALSE, RolledOut)
    <3>1. InEpisode = FALSE /\ Written = {}
      BY <1>1 DEF InEpisode, Outside, Written
    <3> QED  BY <1>1, <3>1 DEF OuterInv, RowsInv, CleanStart, NothingWritten
  <2>3. Benchmark => RowsOf(results, disk', index, TRUE, RolledOut)
    <3>1. \A e \in 1 .. index - 1 : e \in Episodes /\ e # index /\ disk'[e] = disk[e]
      BY <1>2, <1>5
    <3>2. \A e \in Episodes : e # index => disk'[e] = disk[e]
      BY <1>5
    <3>3. disk'[index].exists /\ ~disk'[index].torn
      BY <1>3, <1>5
    <3>4. \A e \in Episodes : e \in Nat
      BY RunAssumption DEF Episodes
    <3> QED  BY <1>2, <2>2, <3>1, <3>2, <3>3, <3>4 DEF RowsOf
  <2>4. InEpisode' /\ (Benchmark => NothingWritten')
    BY <1>1, <2>2 DEF InEpisode, Outside, Reporting, NothingWritten
  <2>5. OutputTypes'
    BY <1>1, <2>1, <2>2 DEF OuterInv, OutputTypes, NothingWritten
  <2> QED  BY <1>1, <2>1, <2>3, <2>4, <2>5, UnreportedRows
<1>10. InnerInv'
  <2>1. /\ IsRollout(ro') /\ ro'.queue = NewQueue(setup.horizon) /\ ro'.steps = 0
        /\ ro'.collisions = 0 /\ ro'.states = 0 /\ ro'.buffered = 0
        /\ ro'.success = FALSE /\ ro'.terminated = FALSE /\ ro'.reason = "MAX_STEPS"
    BY <1>1, NewRolloutFields
  <2>2. /\ ro'.queue \in Queues /\ ro'.queue.horizon = setup.horizon
        /\ ro'.queue.items = <<>> /\ ro'.queue.next_chunk_id = 0
    BY <1>2, <2>1, NewQueueFields
  <2>3. Trace' = <<>> /\ disk'[index].result = NoResult /\ disk'[index].events = 0
    BY <1>1, <1>3, <1>5 DEF Trace
  <2>4. RolloutTypes'
    <3>1. IsRollout(ro)' /\ ro'.success \in BOOLEAN /\ ro'.terminated \in BOOLEAN
      BY <2>1
    <3>2. ro'.steps \in Nat /\ ro'.collisions \in Nat
      BY <2>1
    <3>3. ro'.queue \in Queues /\ ro'.queue.horizon = setup'.horizon
      BY <1>1, <2>2
    <3> QED  BY <3>1, <3>2, <3>3 DEF RolloutTypes
  <2>5. VerdictInv'
    BY <1>1, <2>1 DEF VerdictInv
  <2>6. QueueInv'
    BY <1>1, <1>2, <1>4, <2>2, <2>3 DEF QueueInv, Ahead, Recording
  <2>7. EpisodeInv'
    BY <1>1, <1>4, <2>1, <2>3 DEF EpisodeInv, Progress, Ahead, Recording, Closing
  <2> QED  BY <2>4, <2>5, <2>6, <2>7 DEF InnerInv
<1> QED  BY <1>6, <1>7, <1>8, <1>9, <1>10 DEF OuterInv

\* What holds inside an episode, for the steps that follow.
LEMMA InsideEpisode ==
    ASSUME EvaluationInv, InEpisode
    PROVE  /\ index \in Episodes /\ setup.horizon \in Nat \ {0} /\ setup.limit \in Nat
           /\ IsDirectory(disk[index]) /\ Trace \in Seq(Nat \X Nat) /\ Len(Trace) \in Nat
           /\ DirectoryInv(disk[index], setup.horizon, RolledOut)
           /\ IsRollout(ro) /\ ro.queue \in Queues /\ ro.queue.horizon = setup.horizon
           /\ ro.queue.next_chunk_id \in Nat /\ ro.queue.items \in Seq(Items)
           /\ Len(ro.queue.items) \in Nat
           /\ DOMAIN ro.queue.items = 1 .. Len(ro.queue.items)
           /\ ro.steps \in Nat /\ ro.collisions \in Nat
           /\ ro.success \in BOOLEAN /\ ro.terminated \in BOOLEAN
           /\ VerdictInv /\ QueueInv /\ EpisodeInv /\ OuterInv
<1>1. OuterInv /\ InnerInv
  BY DEF EvaluationInv
<1>2. index \in Episodes /\ setup.horizon \in Nat \ {0} /\ setup.limit \in Nat
  BY <1>1, SetupNumbers DEF OuterInv
<1>3. /\ IsDirectory(disk[index]) /\ Trace \in Seq(Nat \X Nat)
      /\ DirectoryInv(disk[index], setup.horizon, RolledOut)
  BY <1>1, <1>2 DEF OuterInv, DiskTypes, DiskInv, Trace
<1>4. RolloutTypes /\ VerdictInv /\ QueueInv /\ EpisodeInv
  BY <1>1 DEF InnerInv
<1>5. ro.queue \in Queues
  BY <1>4 DEF RolloutTypes
<1>6. ro.queue.next_chunk_id \in Nat /\ ro.queue.items \in Seq(Items)
  BY <1>5 DEF Queues
<1>7. Len(Trace) \in Nat /\ Len(ro.queue.items) \in Nat
      /\ DOMAIN ro.queue.items = 1 .. Len(ro.queue.items)
  BY <1>3, <1>6
<1> QED  BY <1>1, <1>2, <1>3, <1>4, <1>5, <1>6, <1>7 DEF RolloutTypes

\* The environment is reset, for a rollout or for held actions.
LEMMA ResetKeeps ==
    ASSUME EvaluationInv, Reset \/ HoldReset
    PROVE  EvaluationInv'
<1> USE DEF EvaluationInv
<1>1. /\ stage = "reset" /\ stage' = "loop"
      /\ \E reset \in ResetInfos : ro' = AfterReset(ro, reset)
      /\ UNCHANGED <<setup, index, results, disk, output>>
  BY DEF Reset, HoldReset, Rollout, Hold
<1>2. PICK reset \in ResetInfos : ro' = AfterReset(ro, reset)
  BY <1>1
<1>3. OuterInv'
  BY <1>1, OuterOfRollout DEF Frame, InEpisode, Outside, Reporting, Stages
<1>4. setup.horizon \in Nat
  BY SetupNumbers DEF OuterInv
<1>5. /\ ro = NewRollout(setup.horizon) /\ disk[index].result = NoResult
      /\ (RolledOut => Progress)
  BY <1>1 DEF InnerInv, EpisodeInv, InEpisode, Outside, Reporting
<1>6. /\ IsRollout(ro) /\ ro.queue = NewQueue(setup.horizon) /\ ro.info = NoInfo
      /\ ro.steps = 0 /\ ro.collisions = 0 /\ ro.success = FALSE
      /\ ro.terminated = FALSE /\ ro.reason = "MAX_STEPS"
  BY <1>5, NewRolloutFields
<1>7. /\ IsRollout(ro') /\ ro'.queue = ro.queue /\ ro'.steps = ro.steps
      /\ ro'.collisions = ro.collisions
      /\ ro'.states = ro.states /\ ro'.buffered = ro.buffered
      /\ ro'.info.is_success = reset.is_success
      /\ reset.is_success => ro'.success = TRUE /\ ro'.terminated = TRUE
                             /\ ro'.reason = "SUCCESS"
      /\ ~reset.is_success => ro'.success = ro.success /\ ro'.terminated = ro.terminated
                              /\ ro'.reason = ro.reason
  BY <1>2, <1>6, AfterResetFields DEF SameProgress
<1>8. /\ ro'.queue \in Queues /\ ro'.queue.horizon = setup.horizon
      /\ ro'.queue.items = <<>> /\ ro'.queue.next_chunk_id = 0
  BY <1>4, <1>6, <1>7, NewQueueFields
<1>9. RolloutTypes'
  <2>1. IsRollout(ro)' /\ ro'.success \in BOOLEAN /\ ro'.terminated \in BOOLEAN
    BY <1>6, <1>7
  <2>2. ro'.steps \in Nat /\ ro'.collisions \in Nat
    BY <1>6, <1>7
  <2>3. ro'.queue \in Queues /\ ro'.queue.horizon = setup'.horizon
    BY <1>1, <1>8
  <2> QED  BY <2>1, <2>2, <2>3 DEF RolloutTypes
<1>10. VerdictInv'
  BY <1>1, <1>6, <1>7 DEF VerdictInv, Recording, Verdicts
<1>11. Trace' = Trace /\ RolledOut' = RolledOut /\ (RolledOut => Len(Trace) = 0)
  <2>1. Len(Trace) \in Nat
    BY <1>1, InsideEpisode DEF InEpisode, Outside, Reporting
  <2> QED  BY <1>1, <1>5, <1>6, <2>1 DEF Trace, RolledOut, Progress, Ahead, Recording
<1>12. QueueInv'
  BY <1>1, <1>4, <1>8, <1>11 DEF QueueInv, Ahead, Recording
<1>13. EpisodeInv'
  BY <1>1, <1>5, <1>7, <1>11 DEF EpisodeInv, Progress, Ahead, Recording, Closing
<1> QED  BY <1>3, <1>9, <1>10, <1>12, <1>13 DEF InnerInv

\* The queue is empty: a chunk is loaded, or the episode ends, or load_chunk raises.
LEMMA InferKeeps ==
    ASSUME EvaluationInv, Infer
    PROVE  EvaluationInv'
<1> USE DEF EvaluationInv
<1> DEFINE c == setup.checkpoint
           i == setup.instruction
<1>1. PICK raw \in PolicyAnswers :
        IF LoadRaises(ro, c, i, raw) THEN Fail
        ELSE /\ ro' = AfterInference(ro, c, i, raw)
             /\ UNCHANGED <<setup, stage, index, results, disk, output, invocations>>
  BY DEF Infer
<1>2. CASE LoadRaises(ro, c, i, raw)
  BY <1>1, <1>2, FailKeeps
<1>3. CASE ~LoadRaises(ro, c, i, raw)
  <2>1. /\ stage = "loop" /\ ro.queue.items = <<>> /\ RolledOut /\ ~ro.terminated
        /\ ro' = AfterInference(ro, c, i, raw)
        /\ UNCHANGED <<setup, stage, index, results, disk, output>>
    BY <1>1, <1>3 DEF Infer, Rollout, RolledOut, Running
  <2>2. OuterInv'
    BY <2>1, OuterOfRollout DEF Frame, InEpisode, Outside, Reporting, Stages
  <2>3. RolloutTypes /\ VerdictInv /\ QueueInv /\ EpisodeInv
    BY DEF InnerInv
  <2>4. /\ IsRollout(ro) /\ ro.queue \in Queues /\ ro.queue.horizon = setup.horizon
        /\ ro.success = FALSE /\ ro.terminated = FALSE
    BY <2>1, <2>3 DEF RolloutTypes, VerdictInv
  <2>5. /\ setup.horizon \in Nat \ {0} /\ ro.queue.next_chunk_id \in Nat
        /\ Len(Trace) \in Nat /\ Len(ro.queue.items) = 0
    <3>1. index \in Episodes /\ setup.horizon \in Nat \ {0}
      BY <2>1, SetupNumbers DEF OuterInv, InEpisode, Outside, Reporting
    <3>2. Trace \in Seq(Nat \X Nat)
      BY <3>1 DEF OuterInv, DiskTypes, Trace
    <3> QED  BY <2>1, <2>4, <3>1, <3>2 DEF Queues
  <2> DEFINE f == Refusal(ro, c, i, raw)
  <2>6. /\ IsRollout(ro') /\ ro'.steps = ro.steps /\ ro'.collisions = ro.collisions
        /\ ro'.states = ro.states /\ ro'.buffered = ro.buffered
        /\ ro'.info = ro.info /\ ro'.success = ro.success
        /\ f = "none" => /\ ro'.queue = Loaded(ro.queue, raw.rows)
                         /\ ro'.terminated = ro.terminated /\ ro'.reason = ro.reason
        /\ f # "none" => /\ ro'.queue = ro.queue /\ ro'.terminated = TRUE
                         /\ ro'.reason = f
    <3>1. Inferred(ro', ro, f, raw.rows)
      BY <2>1, <2>4, AfterInferenceFields
    <3> QED  BY <3>1 DEF Inferred, SameProgress
  <2>7. f # "SUCCESS"
    BY DEF Refusal
  <2> HIDE DEF f
  <2>8. VerdictInv'
    BY <2>1, <2>3, <2>4, <2>6, <2>7 DEF VerdictInv, Recording, RolledOut
  <2>9. EpisodeInv'
    BY <2>1, <2>3, <2>6
       DEF EpisodeInv, Trace, RolledOut, InEpisode, Outside, Reporting, Progress, Ahead,
           Recording, Closing
  <2>10. CASE f # "none"
    <3>1. RolloutTypes'
      BY <2>1, <2>3, <2>4, <2>6, <2>10 DEF RolloutTypes
    <3>2. QueueInv'
      BY <2>1, <2>5, <2>6, <2>10 DEF QueueInv, Recording
    <3> QED  BY <2>2, <2>8, <2>9, <3>1, <3>2 DEF InnerInv
  <2>11. CASE f = "none"
    <3>1. /\ raw.rows \in Seq(Actions)
          /\ \A k \in DOMAIN raw.rows : raw.rows[k] \notin {"nan", "out"}
      BY <2>11, AcceptedRows, RolloutAssumption DEF f
    <3>2. Loadable(ro.queue, raw.rows)
      BY <1>3, <2>11 DEF LoadRaises, f
    <3> DEFINE l == Loaded(ro.queue, raw.rows)
               n == ro.queue.next_chunk_id
    <3>3. /\ l \in Queues /\ l.horizon = setup.horizon
          /\ l.next_chunk_id = n + 1 /\ Len(l.items) = setup.horizon
          /\ \A k \in 1 .. setup.horizon : l.items[k] = Item(n, raw.rows, k - 1)
          /\ \A k \in 1 .. setup.horizon :
               k \in 1 .. Len(raw.rows) /\ l.items[k].action = raw.rows[k]
      BY <2>4, <3>1, <3>2, LoadedFields
    <3> HIDE DEF l
    <3>4. ro'.queue = l /\ ro'.terminated = FALSE
      BY <2>4, <2>6, <2>11 DEF l
    <3>5. RolloutTypes'
      BY <2>1, <2>3, <2>4, <2>6, <3>3, <3>4 DEF RolloutTypes
    <3>6. \A k \in 1 .. Len(l.items) :
            /\ l.items[k].action \notin {"nan", "out"}
            /\ l.items[k].chunk_id = n /\ l.items[k].offset = k - 1
      <4> SUFFICES ASSUME NEW k \in 1 .. setup.horizon
                   PROVE  /\ l.items[k].action \notin {"nan", "out"}
                          /\ l.items[k].chunk_id = n /\ l.items[k].offset = k - 1
        BY <3>3
      <4>1. k \in DOMAIN raw.rows /\ l.items[k].action = raw.rows[k]
        BY <3>1, <3>3
      <4>2. l.items[k] = Item(n, raw.rows, k - 1)
        BY <3>3
      <4> QED  BY <3>1, <4>1, <4>2 DEF Item
    <3>7. Len(Trace) + 0 + 0 = n * setup.horizon
      BY <2>1, <2>3, <2>5 DEF QueueInv, Ahead, Recording
    <3>8. Len(Trace) + 0 + setup.horizon = (n + 1) * setup.horizon
      BY <2>5, <3>7
    <3>9. DOMAIN l.items = 1 .. Len(l.items) /\ (n + 1) - 1 = n
      BY <2>5, <3>3 DEF Queues
    <3>10. QueueInv'
      <4>1. /\ Len(Trace') + 0 + Len(l.items) = l.next_chunk_id * setup'.horizon
            /\ Len(l.items) <= setup'.horizon
        BY <2>1, <2>5, <3>3, <3>8 DEF Trace
      <4>2. \A k \in 1 .. Len(l.items) :
               /\ l.items[k].action \notin {"nan", "out"}
               /\ l.items[k].chunk_id = l.next_chunk_id - 1
               /\ l.items[k].offset = setup'.horizon - Len(l.items) + (k - 1)
        BY <2>1, <2>5, <3>3, <3>6, <3>9
      <4> QED  BY <2>1, <2>5, <3>4, <3>9, <4>1, <4>2 DEF QueueInv, Ahead, Recording
    <3> QED  BY <2>2, <2>8, <2>9, <3>5, <3>10 DEF InnerInv
  <2> QED  BY <2>10, <2>11
<1> QED  BY <1>2, <1>3

\* env.step raises.
LEMMA BridgeErrorKeeps ==
    ASSUME EvaluationInv, Rollout("loop"), ro.queue.items # <<>>, Running(ro),
           ro' = AfterBridgeError(ro),
           UNCHANGED <<setup, stage, index, results, disk, output>>
    PROVE  EvaluationInv'
<1>1. stage = "loop" /\ stage' = "loop" /\ InEpisode /\ RolledOut /\ ~ro.terminated
  BY DEF Rollout, RolledOut, InEpisode, Outside, Reporting, Running
<1>2. OuterInv'
  BY <1>1, OuterOfRollout DEF EvaluationInv, Frame, InEpisode, Outside, Reporting, Stages
<1>3. /\ IsRollout(ro') /\ ro'.steps = ro.steps /\ ro'.collisions = ro.collisions
      /\ ro'.states = ro.states /\ ro'.buffered = ro.buffered
      /\ ro'.success = ro.success /\ ro'.info = ro.info
      /\ ro'.terminated = TRUE /\ ro'.reason = "BRIDGE_ERROR"
      /\ ro'.queue = Popped(ro.queue)
  BY <1>1, InsideEpisode, AfterBridgeErrorFields DEF SameProgress
<1> DEFINE p == Popped(ro.queue)
<1>4. /\ p \in Queues /\ p.horizon = ro.queue.horizon
      /\ \A k \in 1 .. Len(p.items) :
           k + 1 \in 1 .. Len(ro.queue.items) /\ p.items[k] = ro.queue.items[k + 1]
  BY <1>1, InsideEpisode, PoppedFields
<1> HIDE DEF p
<1>5. ro'.queue = p
  BY <1>3 DEF p
<1>6. RolloutTypes'
  <2>1. IsRollout(ro)' /\ ro'.success \in BOOLEAN /\ ro'.terminated \in BOOLEAN
    BY <1>1, <1>3, InsideEpisode
  <2>2. ro'.steps \in Nat /\ ro'.collisions \in Nat
    BY <1>1, <1>3, InsideEpisode
  <2>3. ro'.queue \in Queues /\ ro'.queue.horizon = setup'.horizon
    BY <1>1, <1>4, <1>5, InsideEpisode
  <2> QED  BY <2>1, <2>2, <2>3 DEF RolloutTypes
<1>7. ro.success = FALSE
  BY <1>1, InsideEpisode DEF VerdictInv
<1>8. VerdictInv'
  BY <1>1, <1>3, <1>7 DEF VerdictInv, Recording
<1>9. QueueInv'
  <2>1. DOMAIN p.items = 1 .. Len(p.items)
    BY <1>4 DEF Queues
  <2>2. \A k \in DOMAIN ro.queue.items : ro.queue.items[k].action \notin {"nan", "out"}
    BY <1>1, InsideEpisode DEF QueueInv
  <2>3. \A k \in DOMAIN p.items : p.items[k].action \notin {"nan", "out"}
    BY <1>1, <1>4, <2>1, <2>2, InsideEpisode
  <2> QED  BY <1>1, <1>3, <1>5, <2>3 DEF QueueInv, Recording
<1>10. EpisodeInv'
  BY <1>1, <1>3, InsideEpisode DEF EpisodeInv, Trace, RolledOut, InEpisode, Outside, Reporting,
     Progress, Ahead, Recording, Closing
<1> QED  BY <1>2, <1>6, <1>8, <1>9, <1>10 DEF EvaluationInv, InnerInv

\* env.step returns.
LEMMA SteppedKeeps ==
    ASSUME EvaluationInv, Rollout("loop"), ro.queue.items # <<>>, Running(ro),
           NEW info \in StepInfos, ro' = AfterStep(ro, info), stage' = "record",
           UNCHANGED <<setup, index, results, disk, output>>
    PROVE  EvaluationInv'
<1>1. stage = "loop" /\ InEpisode /\ RolledOut /\ ~ro.terminated /\ RolledOut'
  BY DEF Rollout, RolledOut, InEpisode, Outside, Reporting, Running
<1>2. OuterInv'
  BY <1>1, OuterOfRollout DEF EvaluationInv, Frame, InEpisode, Outside, Reporting, Stages, Recording
<1>3. /\ IsRollout(ro') /\ ro'.steps = ro.steps + 1 /\ ro'.collisions = ro.collisions
      /\ ro'.states = ro.states /\ ro'.buffered = ro.buffered /\ ro'.success = ro.success
      /\ ro'.terminated = ro.terminated /\ ro'.reason = ro.reason
      /\ ro'.queue = Popped(ro.queue) /\ ro'.queued = Head(ro.queue.items)
  BY <1>1, InsideEpisode, AfterStepFields
<1> DEFINE p == Popped(ro.queue)
           n == ro.queue.next_chunk_id
           h == setup.horizon
           t == Len(Trace)
           l == Len(ro.queue.items)
<1>4. /\ p \in Queues /\ p.horizon = h /\ p.next_chunk_id = n
      /\ Len(p.items) = l - 1 /\ l \in Nat \ {0}
      /\ \A k \in 1 .. Len(p.items) :
           k + 1 \in 1 .. l /\ p.items[k] = ro.queue.items[k + 1]
      /\ Head(ro.queue.items) = ro.queue.items[1]
  BY <1>1, InsideEpisode, PoppedFields
<1> HIDE DEF p
<1>5. ro'.queue = p /\ ro'.queued = ro.queue.items[1]
  BY <1>3, <1>4 DEF p
<1>6. RolloutTypes'
  <2>1. IsRollout(ro)' /\ ro'.success \in BOOLEAN /\ ro'.terminated \in BOOLEAN
    BY <1>1, <1>3, InsideEpisode
  <2>2. ro'.steps \in Nat /\ ro'.collisions \in Nat
    BY <1>1, <1>3, InsideEpisode
  <2>3. ro'.queue \in Queues /\ ro'.queue.horizon = setup'.horizon
    BY <1>1, <1>4, <1>5, InsideEpisode
  <2> QED  BY <2>1, <2>2, <2>3 DEF RolloutTypes
<1>7. ro.success = FALSE /\ ro.reason = "MAX_STEPS"
  BY <1>1, InsideEpisode DEF VerdictInv
<1>8. VerdictInv'
  BY <1>1, <1>3, <1>7 DEF VerdictInv
<1>9. /\ h \in Nat \ {0} /\ n \in Nat /\ t \in Nat /\ Trace' = Trace
  BY <1>1, InsideEpisode DEF Trace
<1>10. /\ t + 0 + l = n * h /\ l <= h
       /\ \A k \in 1 .. l :
            /\ ro.queue.items[k].action \notin {"nan", "out"}
            /\ ro.queue.items[k].chunk_id = n - 1
            /\ ro.queue.items[k].offset = h - l + (k - 1)
  BY <1>1, <1>4, <1>9, InsideEpisode DEF QueueInv, Ahead, Recording
<1> DEFINE m == Len(p.items)
<1> HIDE DEF n, h, t, l, m
<1>11. m = l - 1 /\ l \in Nat \ {0} /\ m < h /\ t + 1 + m = n * h
  <2>1. m = l - 1 /\ l \in Nat \ {0}
    BY <1>4 DEF m, l
  <2> QED  BY <1>9, <1>10, <2>1
<1>12. n > 0
  <2>1. n = 0 => n * h = 0
    BY <1>9
  <2> QED  BY <1>9, <1>11, <2>1
<1>13. ASSUME NEW k \in 1 .. m
       PROVE  /\ p.items[k].action \notin {"nan", "out"}
              /\ p.items[k].chunk_id = n - 1 /\ p.items[k].offset = h - m + (k - 1)
  <2>1. k + 1 \in 1 .. l /\ p.items[k] = ro.queue.items[k + 1]
    BY <1>4 DEF m, l
  <2>2. h - l + ((k + 1) - 1) = h - m + (k - 1)
    BY <1>9, <1>11
  <2> QED  BY <1>10, <2>1, <2>2
<1>14. ro.queue.items[1].chunk_id = n - 1 /\ ro.queue.items[1].offset = h - m - 1
  <2>1. 1 \in 1 .. l /\ h - l + (1 - 1) = h - m - 1
    BY <1>9, <1>11
  <2> QED  BY <1>10, <2>1
<1>15. QueueInv'
  <2>1. /\ ro'.queue.next_chunk_id = n /\ Len(ro'.queue.items) = m /\ setup'.horizon = h
        /\ Len(Trace') = t
    BY <1>4, <1>5, <1>9 DEF n, m, h, t
  <2>2. t + Ahead(Recording)' + m = n * h /\ m <= h
    BY <1>9, <1>11 DEF Ahead, Recording
  <2> QED  BY <1>5, <1>11, <1>12, <1>13, <1>14, <2>1, <2>2 DEF QueueInv
<1>16. /\ ro.steps = t /\ ro.states = t /\ ro.buffered = t /\ disk[index].events = t
       /\ disk[index].result = NoResult
  BY <1>1, <1>9, InsideEpisode DEF EpisodeInv, Progress, Ahead, Recording, t
<1>17. EpisodeInv'
  <2>1. Len(Trace') = t /\ disk'[index'].result = NoResult /\ disk'[index'].events = t
    BY <1>9, <1>16 DEF t
  <2> QED  BY <1>1, <1>3, <1>9, <1>16, <2>1 DEF EpisodeInv, Progress, Ahead, Recording, Closing
<1> QED  BY <1>2, <1>6, <1>8, <1>15, <1>17 DEF EvaluationInv, InnerInv

LEMMA StepKeeps ==
    ASSUME EvaluationInv, Step
    PROVE  EvaluationInv'
BY BridgeErrorKeeps, SteppedKeeps DEF Step

\* While a step is recorded, the locals stay but for what is counted.
Alike(s, r) ==
    /\ IsRollout(s) /\ s.queue = r.queue /\ s.queued = r.queued /\ s.info = r.info
    /\ s.steps = r.steps /\ s.collisions = r.collisions /\ s.success = r.success
    /\ s.terminated = r.terminated /\ s.reason = r.reason

LEMMA InnerOfRecord ==
    ASSUME EvaluationInv, stage \in Recording, stage' \in Recording \cup {"judge"},
           UNCHANGED <<setup, index>>, Alike(ro', ro),
           Len(Trace') + Ahead(Recording)' = Len(Trace) + 1
    PROVE  RolloutTypes' /\ VerdictInv' /\ QueueInv'
<1>1. InEpisode
  BY DEF InEpisode, Outside, Reporting, Recording
<1>2. RolloutTypes'
  <2>1. RolloutTypes
    BY DEF EvaluationInv, InnerInv
  <2> QED  BY <2>1 DEF RolloutTypes, Alike
<1>3. VerdictInv'
  BY <1>1, InsideEpisode DEF VerdictInv, Alike, RolledOut
<1>4. QueueInv'
  <2> DEFINE n == ro.queue.next_chunk_id
             h == setup.horizon
             l == Len(ro.queue.items)
  <2>1. RolledOut /\ RolledOut'
    BY <1>1, InsideEpisode DEF EpisodeInv, RolledOut
  <2>2. Ahead(Recording) = 1
    BY DEF Ahead
  <2>3. /\ Len(Trace) + 1 + l = n * h /\ l <= h
        /\ l < h /\ n > 0 /\ ro.queued.chunk_id = n - 1 /\ ro.queued.offset = h - l - 1
        /\ \A k \in 1 .. l :
              /\ ro.queue.items[k].action \notin {"nan", "out"}
              /\ ro.queue.items[k].chunk_id = n - 1
              /\ ro.queue.items[k].offset = h - l + (k - 1)
    BY <1>1, <2>1, <2>2, InsideEpisode DEF QueueInv
  <2>4. ro'.queue = ro.queue /\ ro'.queued = ro.queued /\ setup' = setup
    BY DEF Alike
  <2>5. stage' # "loop"
    BY DEF Recording
  <2>6. Len(Trace') + Ahead(Recording)' + l = n * h
    BY <2>3
  <2> HIDE DEF n, h, l
  <2> QED  BY <2>1, <2>3, <2>4, <2>5, <2>6 DEF QueueInv, n, h, l
<1> QED  BY <1>2, <1>3, <1>4

\* The writer's lists grow.
LEMMA BufferKeeps ==
    ASSUME EvaluationInv, UNCHANGED <<setup, index, results, disk, output>>,
           \/ /\ stage = "record" /\ stage' = "append"
              /\ ro' = [ro EXCEPT !.states = @ + 1]
           \/ /\ stage = "append" /\ stage' = "log"
              /\ ro' = [ro EXCEPT !.buffered = @ + 1]
    PROVE  EvaluationInv'
<1>1. InEpisode /\ InEpisode' /\ stage \in Recording /\ stage' \in Recording
  BY DEF InEpisode, Outside, Reporting, Recording
<1>2. OuterInv'
  BY <1>1, OuterOfRollout DEF EvaluationInv, Frame, Stages
<1>3. /\ Alike(ro', ro)
      /\ stage = "record" => ro'.states = ro.states + 1 /\ ro'.buffered = ro.buffered
      /\ stage = "append" => ro'.states = ro.states /\ ro'.buffered = ro.buffered + 1
  <2>1. IsRollout(ro)
    BY <1>1, InsideEpisode
  <2> QED  BY <2>1 DEF Alike, IsRollout, RolloutFields
<1>4. Trace' = Trace /\ Ahead(Recording)' = 1 /\ Ahead(Recording) = 1
  BY <1>1 DEF Trace, Ahead
<1>5. RolloutTypes' /\ VerdictInv' /\ QueueInv'
  BY <1>1, <1>3, <1>4, InnerOfRecord
<1>6. RolledOut /\ RolledOut' /\ disk[index].result = NoResult /\ Progress /\ Len(Trace) \in Nat
  BY <1>1, InsideEpisode DEF EpisodeInv, RolledOut, Recording
<1>7. Progress'
  BY <1>3, <1>4, <1>6 DEF Progress, Ahead, Alike
<1>8. EpisodeInv'
  BY <1>1, <1>6, <1>7 DEF EpisodeInv, Recording, Closing
<1> QED  BY <1>2, <1>5, <1>8 DEF EvaluationInv, InnerInv

\* The event of the step is logged.
LEMMA LogKeeps ==
    ASSUME EvaluationInv, UNCHANGED <<setup, index, ro, results, output>>,
           stage = "log", stage' = "trace", disk' = [disk EXCEPT ![index].events = @ + 1]
    PROVE  EvaluationInv'
<1> DEFINE d == [disk[index] EXCEPT !.events = @ + 1]
<1>1. InEpisode /\ InEpisode' /\ stage \in Recording /\ stage' \in Recording
  BY DEF InEpisode, Outside, Reporting, Recording
<1>2. RolledOut /\ RolledOut' /\ disk[index].result = NoResult /\ Progress /\ Len(Trace) \in Nat
  BY <1>1, InsideEpisode DEF EpisodeInv, RolledOut, Recording
<1>3. NoResult.reason = "none"
  BY DEF NoResult
<1>4. disk' = [disk EXCEPT ![index] = d]
  BY <1>1, InsideEpisode
<1>5. /\ IsDirectory(d) /\ d.trace = Trace /\ d.exists = disk[index].exists
      /\ d.torn = disk[index].torn /\ d.result = NoResult
      /\ d.events = disk[index].events + 1
  BY <1>1, <1>2, InsideEpisode DEF IsDirectory, DirectoryFields, Trace
<1> HIDE DEF d
<1>6. DirectoryInv(d, setup.horizon, RolledOut)
  BY <1>1, <1>3, <1>5, InsideEpisode DEF DirectoryInv, VerdictOf, Trace
<1>7. OuterInv' /\ disk'[index'] = d
  BY <1>1, <1>4, <1>5, <1>6, InsideEpisode, OuterOfDirectory DEF Frame, Stages
<1>8. Trace' = Trace /\ Ahead(Recording)' = 1 /\ Ahead(Recording) = 1
  BY <1>1, <1>5, <1>7 DEF Trace, Ahead
<1>9. Alike(ro', ro)
  BY <1>1, InsideEpisode DEF Alike
<1>10. RolloutTypes' /\ VerdictInv' /\ QueueInv'
  BY <1>1, <1>8, <1>9, InnerOfRecord
<1>11. Progress'
  BY <1>2, <1>5, <1>7, <1>8 DEF Progress, Ahead
<1>12. EpisodeInv'
  BY <1>1, <1>2, <1>5, <1>7, <1>11 DEF EpisodeInv, Recording, Closing
<1> QED  BY <1>7, <1>10, <1>12 DEF EvaluationInv, InnerInv

\* The row of the trace is appended.
LEMMA TraceKeeps ==
    ASSUME EvaluationInv, UNCHANGED <<setup, index, ro, results, output>>,
           stage = "trace", stage' = "judge",
           disk' = [disk EXCEPT ![index].trace = Append(@, TraceRow(ro))]
    PROVE  EvaluationInv'
<1> DEFINE row == TraceRow(ro)
           d == [disk[index] EXCEPT !.trace = Append(@, row)]
           n == ro.queue.next_chunk_id
           h == setup.horizon
           t == Len(Trace)
           l == Len(ro.queue.items)
<1>1. InEpisode /\ InEpisode' /\ stage \in Recording
  BY DEF InEpisode, Outside, Reporting, Recording
<1>2. RolledOut /\ RolledOut' /\ disk[index].result = NoResult /\ Progress
  BY <1>1, InsideEpisode DEF EpisodeInv, RolledOut, Recording
<1>3. NoResult.reason = "none" /\ Ahead(Recording) = 1
  BY <1>1 DEF NoResult, Ahead
<1>4. /\ h \in Nat \ {0} /\ n \in Nat /\ t \in Nat /\ l \in Nat
  BY <1>1, InsideEpisode
<1>5. /\ t + 1 + l = n * h /\ l < h /\ n > 0
      /\ ro.queued.chunk_id = n - 1 /\ ro.queued.offset = h - l - 1
  BY <1>1, <1>2, <1>3, InsideEpisode DEF QueueInv
<1>6. row = <<t \div h, t % h>> /\ row \in Nat \X Nat
  <2> DEFINE c == n - 1
             o == h - l - 1
  <2>1. row = <<c, o>>
    BY <1>5 DEF TraceRow
  <2> HIDE DEF n, h, t, l, row
  <2>2. c \in Nat /\ o \in 0 .. h - 1 /\ t = c * h + o
    <3>1. (n - 1) * h = n * h - h
      BY <1>4
    <3> QED  BY <1>4, <1>5, <3>1
  <2> HIDE DEF c, o
  <2>3. t \div h = c /\ t % h = o
    BY <1>4, <2>2, ChunkAndOffset
  <2>4. o \in Nat
    BY <1>4, <2>2
  <2> QED  BY <2>1, <2>2, <2>3, <2>4
<1>7. disk' = [disk EXCEPT ![index] = d]
  BY <1>1, InsideEpisode
<1> HIDE DEF row
<1>8. /\ IsDirectory(d) /\ d.trace = Append(Trace, row) /\ d.exists = disk[index].exists
      /\ d.torn = disk[index].torn /\ d.result = NoResult
      /\ d.events = disk[index].events
  BY <1>1, <1>2, InsideEpisode DEF IsDirectory, DirectoryFields, Trace
<1> HIDE DEF d
<1>9. /\ d.trace \in Seq(Nat \X Nat) /\ Len(d.trace) = t + 1 /\ d.trace[t + 1] = row
      /\ \A k \in 1 .. t : d.trace[k] = Trace[k]
      /\ DOMAIN d.trace = 1 .. t + 1 /\ DOMAIN Trace = 1 .. t
  BY <1>1, <1>6, <1>8, InsideEpisode
<1>10. DirectoryInv(d, h, RolledOut)
  <2>1. \A k \in 1 .. t : Trace[k] = <<(k - 1) \div h, (k - 1) % h>>
    BY <1>1, <1>9, InsideEpisode DEF DirectoryInv, Trace
  <2>2. (t + 1) - 1 = t /\ 1 .. t + 1 = (1 .. t) \union {t + 1}
    BY <1>4
  <2>3. \A k \in DOMAIN d.trace : d.trace[k] = <<(k - 1) \div h, (k - 1) % h>>
    BY <1>6, <1>9, <2>1, <2>2
  <2> QED  BY <1>3, <1>8, <2>3 DEF DirectoryInv, VerdictOf
<1>11. OuterInv' /\ disk'[index'] = d
  BY <1>1, <1>7, <1>8, <1>9, <1>10, InsideEpisode, OuterOfDirectory DEF Frame, Stages
<1>12. Len(Trace') = t + 1 /\ Ahead(Recording)' = 0
  BY <1>9, <1>11 DEF Trace, Ahead, Recording
<1>13. Alike(ro', ro)
  BY <1>1, InsideEpisode DEF Alike
<1>14. RolloutTypes' /\ VerdictInv' /\ QueueInv'
  BY <1>1, <1>4, <1>12, <1>13, InnerOfRecord
<1>15. Progress'
  BY <1>2, <1>4, <1>8, <1>11, <1>12 DEF Progress, Ahead, Recording
<1>16. EpisodeInv'
  BY <1>1, <1>2, <1>8, <1>11, <1>15 DEF EpisodeInv, Recording, Closing
<1> QED  BY <1>11, <1>14, <1>16 DEF EvaluationInv, InnerInv

LEMMA RecordKeeps ==
    ASSUME EvaluationInv, Record
    PROVE  EvaluationInv'
BY BufferKeeps, LogKeeps, TraceKeeps DEF Record

\* The step just recorded is judged.
LEMMA JudgeKeeps ==
    ASSUME EvaluationInv, Judge
    PROVE  EvaluationInv'
<1> DEFINE j == JudgedReason(ro, setup.limit)
           c == IF ro.info.collision THEN 1 ELSE 0
<1>1. /\ stage = "judge" /\ InEpisode /\ stage' = "loop"
      /\ ro' = AfterJudgement(ro, setup.limit)
      /\ UNCHANGED <<setup, index, results, disk, output>>
  BY DEF Judge, InEpisode, Outside, Reporting
<1>2. RolledOut /\ RolledOut'
  BY <1>1, InsideEpisode DEF EpisodeInv, RolledOut
<1>3. OuterInv'
  BY <1>1, OuterOfRollout DEF EvaluationInv, Frame, InEpisode, Outside, Reporting, Stages
<1>4. /\ IsRollout(ro') /\ ro'.queue = ro.queue /\ ro'.steps = ro.steps
      /\ ro'.states = ro.states /\ ro'.buffered = ro.buffered /\ ro'.info = ro.info
      /\ ro'.collisions = ro.collisions + c /\ ro'.success = (j = "SUCCESS")
      /\ j \in {"none", "MAX_STEPS"} =>
           ro'.terminated = ro.terminated /\ ro'.reason = ro.reason
      /\ j \notin {"none", "MAX_STEPS"} => ro'.terminated = TRUE /\ ro'.reason = j
  <2>1. Judged(ro', ro, j)
    BY <1>1, InsideEpisode, AfterJudgementFields
  <2> QED  BY <2>1 DEF Judged
<1>5. ro.terminated = FALSE /\ ro.reason = "MAX_STEPS"
  BY <1>1, InsideEpisode DEF VerdictInv
<1>6. j = "SUCCESS" =>
        /\ ro.info.is_success /\ ~ro.info.unsafe_state /\ ~ro.info.object_lost
        /\ setup.limit # NoLimit => ro.collisions + c < setup.limit
  BY <1>1, InsideEpisode, SuccessIsSafe
<1>7. c \in Nat
  OBVIOUS
<1> HIDE DEF j, c
<1>8. RolloutTypes'
  <2>1. IsRollout(ro)' /\ ro'.success \in BOOLEAN /\ ro'.terminated \in BOOLEAN
    BY <1>4, <1>5
  <2>2. ro'.steps \in Nat /\ ro'.collisions \in Nat
    BY <1>1, <1>4, <1>7, InsideEpisode
  <2>3. ro'.queue \in Queues /\ ro'.queue.horizon = setup'.horizon
    BY <1>1, <1>4, InsideEpisode
  <2> QED  BY <2>1, <2>2, <2>3 DEF RolloutTypes
<1>9. VerdictInv'
  <2>1. CASE j = "SUCCESS"
    BY <1>1, <1>4, <1>6, <2>1 DEF VerdictInv, Recording, Verdicts
  <2>2. CASE j # "SUCCESS"
    BY <1>1, <1>4, <1>5, <2>2 DEF VerdictInv, Recording
  <2> QED  BY <2>1, <2>2
<1>10. QueueInv'
  <2>1. Trace' = Trace /\ setup' = setup
    BY <1>1 DEF Trace
  <2>2. DOMAIN ro.queue.items = 1 .. Len(ro.queue.items)
    BY <1>1, InsideEpisode
  <2> QED  BY <1>1, <1>2, <1>4, <2>1, <2>2, InsideEpisode
           DEF QueueInv, Ahead, Recording
<1>11. EpisodeInv'
  BY <1>1, <1>2, <1>4, InsideEpisode DEF EpisodeInv, Trace, Progress, Ahead, Recording, Closing
<1> QED  BY <1>3, <1>8, <1>9, <1>10, <1>11 DEF EvaluationInv, InnerInv

\* The loop is over, or interrupted.
LEMMA LeavingKeeps ==
    ASSUME EvaluationInv, Leave \/ Interrupt
    PROVE  EvaluationInv'
<1>1. /\ stage \in {"reset", "loop", "judge"} \cup Recording /\ InEpisode
      /\ stage' = "finalize" /\ UNCHANGED <<setup, index, results, disk, output>>
  BY DEF Leave, Interrupt, Rollout, InEpisode, Outside, Reporting, Recording
<1>2. RolledOut /\ RolledOut'
  BY <1>1, InsideEpisode DEF EpisodeInv, RolledOut, Leave, Interrupt, Rollout
<1>3. OuterInv'
  BY <1>1, OuterOfRollout DEF EvaluationInv, Frame, InEpisode, Outside, Reporting, Stages
<1> DEFINE q == Cleared(ro.queue)
<1>4. /\ IsRollout(ro') /\ ro'.steps = ro.steps /\ ro'.collisions = ro.collisions
      /\ ro'.states = ro.states /\ ro'.buffered = ro.buffered
      /\ ro'.info = ro.info /\ ro'.success = ro.success /\ ro'.queue = q
      /\ \/ stage = "loop" /\ ro'.terminated = ro.terminated /\ ro'.reason = ro.reason
         \/ ro'.terminated = TRUE /\ ro'.reason = "MANUAL_INTERRUPT"
  <2>1. IsRollout(ro)
    BY <1>1, InsideEpisode
  <2>2. (stage = "loop" /\ ro' = Left(ro)) \/ ro' = Interrupted(ro)
    BY DEF Leave, Interrupt, Rollout
  <2> QED  BY <2>1, <2>2, LeavingFields DEF SameProgress
<1>5. q \in Queues /\ q.horizon = setup.horizon
  BY <1>1, InsideEpisode, ClearedFields
<1> HIDE DEF q
<1>6. RolloutTypes'
  <2>1. IsRollout(ro)' /\ ro'.success \in BOOLEAN /\ ro'.terminated \in BOOLEAN
    BY <1>1, <1>4, InsideEpisode
  <2>2. ro'.steps \in Nat /\ ro'.collisions \in Nat
    BY <1>1, <1>4, InsideEpisode
  <2>3. ro'.queue \in Queues /\ ro'.queue.horizon = setup'.horizon
    BY <1>1, <1>4, <1>5
  <2> QED  BY <2>1, <2>2, <2>3 DEF RolloutTypes
<1>7. VerdictInv'
  BY <1>1, <1>2, <1>4, InsideEpisode DEF VerdictInv, Recording, Verdicts
<1>8. QueueInv'
  BY <1>1 DEF QueueInv, Recording
<1>9. EpisodeInv'
  <2>1. /\ disk[index].result = NoResult /\ Progress /\ Len(Trace) \in Nat
    BY <1>1, <1>2, InsideEpisode DEF EpisodeInv, Recording
  <2>2. disk' = disk /\ index' = index
    BY <1>1
  <2>3. WithinAStep(ro'.steps, ro'.states, ro'.buffered, disk[index], ro'.reason)
    <3> DEFINE r == Ahead(Recording)
               s == Ahead({"append", "log", "trace"})
               b == Ahead({"log", "trace"})
               v == Ahead({"trace"})
               t == Len(Trace)
    <3>1. /\ r \in {0, 1} /\ s \in {0, 1} /\ b \in {0, 1} /\ v \in {0, 1}
          /\ r >= s /\ s >= b /\ b >= v
          /\ r = 0 \/ ro'.reason = "MANUAL_INTERRUPT"
      BY <1>4 DEF Ahead, Recording
    <3>2. /\ ro'.steps = t + r /\ ro'.states = t + s /\ ro'.buffered = t + b
          /\ disk[index].events = t + v /\ t \in Nat /\ t = Len(disk[index].trace)
      BY <1>4, <2>1 DEF Progress, Trace
    <3> HIDE DEF r, s, b, v, t
    <3>3. /\ t + r >= t + s /\ t + s >= t + b /\ t + b >= t + v /\ t + v >= t
          /\ t + r <= t + 1 /\ (r = 0 => t + r <= t + 0)
      BY <3>1, <3>2
    <3>4. t + r <= t + (IF ro'.reason = "MANUAL_INTERRUPT" THEN 1 ELSE 0)
      BY <3>1, <3>3
    <3> QED  BY <3>2, <3>3, <3>4 DEF WithinAStep
  <2> QED  BY <1>1, <1>2, <2>1, <2>2, <2>3 DEF EpisodeInv, Recording, Closing
<1> QED  BY <1>3, <1>6, <1>7, <1>8, <1>9 DEF EvaluationInv, InnerInv

\* With the locals as they are, the invariants about them stay.
LEMMA InnerOfFinalize ==
    ASSUME EvaluationInv, InEpisode, UNCHANGED <<setup, index, ro>>,
           stage' \in {"states", "result", "row"}
    PROVE  RolloutTypes' /\ VerdictInv' /\ QueueInv'
<1>1. RolloutTypes /\ VerdictInv
  BY DEF EvaluationInv, InnerInv
<1>2. RolloutTypes'
  BY <1>1 DEF RolloutTypes
<1>3. VerdictInv'
  BY <1>1 DEF VerdictInv, RolledOut, Recording
<1>4. QueueInv'
  BY DEF QueueInv, Recording
<1> QED  BY <1>2, <1>3, <1>4

\* The arrays are written, the actions and then the states.
LEMMA WriteArraysKeeps ==
    ASSUME EvaluationInv, UNCHANGED <<setup, index, ro, results, output>>, NEW d,
           \/ /\ stage = "finalize" /\ stage' = "states"
              /\ d = [disk[index] EXCEPT !.arrays = ro.buffered]
           \/ /\ stage = "states" /\ stage' = "result"
              /\ d = [disk[index] EXCEPT !.states = ro.states],
           disk' = [disk EXCEPT ![index] = d]
    PROVE  EvaluationInv'
<1>1. InEpisode /\ InEpisode' /\ stage \in Closing /\ stage' \in Closing
  BY DEF InEpisode, Outside, Reporting, Closing
<1>2. RolledOut /\ RolledOut'
  BY <1>1, InsideEpisode DEF EpisodeInv, RolledOut
<1>3. disk[index].result = NoResult /\ NoResult.reason = "none"
  BY <1>1, InsideEpisode DEF EpisodeInv, NoResult, Closing
<1>4. /\ IsDirectory(d) /\ d.trace = Trace /\ d.exists = disk[index].exists
      /\ d.torn = disk[index].torn /\ d.events = disk[index].events
      /\ d.result = NoResult
      /\ stage = "finalize" => d.arrays = ro.buffered
      /\ stage = "states" => d.arrays = disk[index].arrays /\ d.states = ro.states
  BY <1>1, <1>3, InsideEpisode DEF IsDirectory, DirectoryFields, Trace
<1>5. DirectoryInv(d, setup.horizon, RolledOut)
  BY <1>1, <1>3, <1>4, InsideEpisode DEF DirectoryInv, VerdictOf, Trace
<1>6. OuterInv' /\ disk'[index'] = d
  BY <1>1, <1>4, <1>5, InsideEpisode, OuterOfDirectory DEF Frame, Stages, Closing
<1>7. EpisodeInv'
  <2>1. WithinAStep(ro.steps, ro.states, ro.buffered, disk[index], ro.reason)
    BY <1>1, InsideEpisode DEF EpisodeInv
  <2>2. WithinAStep(ro.steps, ro.states, ro.buffered, d, ro.reason)
    BY <1>4, <2>1 DEF WithinAStep, Trace
  <2>3. stage = "states" => disk[index].arrays = ro.buffered
    BY <1>1, InsideEpisode DEF EpisodeInv
  <2> QED  BY <1>1, <1>2, <1>4, <1>6, <2>2, <2>3 DEF EpisodeInv, Recording, Closing
<1> QED  BY <1>1, <1>6, <1>7, InnerOfFinalize DEF EvaluationInv, InnerInv, Closing

\* A result is written that tells what the episode's locals say, or rests on its own.
LEMMA WriteResultKeeps ==
    ASSUME EvaluationInv, InEpisode, stage # "row", stage' = "row", NEW r,
           disk' = [disk EXCEPT ![index].result = r], VerdictOf(r),
           UNCHANGED <<setup, index, ro, results, output>>,
           RolledOut => stage = "result" /\ r = PolicyRolloutResult(ro)
    PROVE  EvaluationInv'
<1> DEFINE d == [disk[index] EXCEPT !.result = r]
<1>1. InEpisode'
  BY DEF InEpisode, Outside, Reporting
<1>2. disk' = [disk EXCEPT ![index] = d]
  BY InsideEpisode
<1>3. /\ IsDirectory(d) /\ d.trace = Trace /\ d.exists = disk[index].exists
      /\ d.torn = disk[index].torn /\ d.events = disk[index].events
      /\ d.result = r /\ d.arrays = disk[index].arrays /\ d.states = disk[index].states
  BY InsideEpisode DEF IsDirectory, DirectoryFields, Trace
<1> HIDE DEF d
<1>4. RolledOut => WithinAStep(r.steps, d.states, d.arrays, d, r.reason)
  <2>1. RolledOut => /\ WithinAStep(ro.steps, ro.states, ro.buffered, disk[index], ro.reason)
                     /\ disk[index].arrays = ro.buffered /\ disk[index].states = ro.states
                     /\ r.steps = ro.steps /\ r.reason = ro.reason
    BY InsideEpisode DEF EpisodeInv, PolicyRolloutResult, Closing
  <2> QED  BY <1>3, <2>1 DEF WithinAStep, Trace
<1>5. DirectoryInv(d, setup.horizon, RolledOut)
  BY <1>3, <1>4, InsideEpisode DEF DirectoryInv, Trace
<1>6. OuterInv' /\ disk'[index'] = d
  BY <1>1, <1>2, <1>3, <1>5, InsideEpisode, OuterOfDirectory DEF Frame, Stages
<1>7. EpisodeInv'
  BY <1>3, <1>6 DEF EpisodeInv, RolledOut, Recording, Closing
<1> QED  BY <1>6, <1>7, InnerOfFinalize DEF EvaluationInv, InnerInv

\* The result of a rollout says what its locals do.
LEMMA VerdictOfRollout ==
    ASSUME VerdictInv
    PROVE  VerdictOf(PolicyRolloutResult(ro))
BY DEF VerdictInv, VerdictOf, PolicyRolloutResult

LEMMA FinalizeKeeps ==
    ASSUME EvaluationInv, Finalize
    PROVE  EvaluationInv'
<1>1. UNCHANGED <<setup, index, ro, results, output>>
  BY DEF Finalize
<1>2. CASE \/ /\ stage = "finalize" /\ stage' = "states"
              /\ disk' = [disk EXCEPT ![index].arrays = ro.buffered]
           \/ /\ stage = "states" /\ stage' = "result"
              /\ disk' = [disk EXCEPT ![index].states = ro.states]
  <2>1. index \in Episodes
    BY <1>2, InsideEpisode DEF InEpisode, Outside, Reporting
  <2> QED  BY <1>1, <1>2, <2>1, WriteArraysKeeps
<1>3. CASE /\ stage = "result" /\ stage' = "row"
           /\ disk' = [disk EXCEPT ![index].result = PolicyRolloutResult(ro)]
  <2>1. InEpisode
    BY <1>3 DEF InEpisode, Outside, Reporting
  <2>2. VerdictOf(PolicyRolloutResult(ro))
    BY <2>1, InsideEpisode, VerdictOfRollout
  <2> QED  BY <1>1, <1>3, <2>1, <2>2, WriteResultKeeps
<1> QED  BY <1>2, <1>3 DEF Finalize

-----------------------------------------------------------------------------
(* Held actions, and the planner's episode.                                 *)

LEMMA HoldStepKeeps ==
    ASSUME EvaluationInv, HoldStep
    PROVE  EvaluationInv'
<1>1. /\ stage = "loop" /\ stage' = "loop" /\ InEpisode /\ ~RolledOut /\ ~RolledOut'
      /\ Running(ro) /\ disk' = [disk EXCEPT ![index].events = @ + 1]
      /\ UNCHANGED <<setup, index, results, output>>
  BY DEF HoldStep, Hold, InEpisode, Outside, Reporting, RolledOut
<1>2. PICK info \in StepInfos :
        ro' = [ro EXCEPT !.info = [f \in DOMAIN NoInfo |-> info[f]],
                         !.steps = @ + 1,
                         !.collisions = @ + (IF info.collision THEN 1 ELSE 0),
                         !.success = HoldReason(info) = "SUCCESS",
                         !.terminated = HoldStops(info),
                         !.truncated = ~HoldStops(info) /\ info.truncated,
                         !.reason = HoldReason(info)]
  BY DEF HoldStep
<1> DEFINE d == [disk[index] EXCEPT !.events = @ + 1]
           j == HoldReason(info)
           c == IF info.collision THEN 1 ELSE 0
<1>3. disk[index].result = NoResult
  BY <1>1, InsideEpisode DEF EpisodeInv
<1>4. disk' = [disk EXCEPT ![index] = d]
  BY <1>1, InsideEpisode
<1>5. /\ IsDirectory(d) /\ d.trace = Trace /\ d.exists = disk[index].exists
      /\ d.torn = disk[index].torn /\ d.result = NoResult
  BY <1>1, <1>3, InsideEpisode DEF IsDirectory, DirectoryFields, Trace
<1> HIDE DEF d
<1>6. DirectoryInv(d, setup.horizon, RolledOut)
  BY <1>1, <1>3, <1>5, InsideEpisode DEF DirectoryInv, VerdictOf, Trace
<1>7. OuterInv' /\ disk'[index'] = d
  BY <1>1, <1>4, <1>5, <1>6, InsideEpisode, OuterOfDirectory DEF Frame, InEpisode, Outside,
     Reporting, Stages
<1>8. j = "SUCCESS" => info.is_success
  BY DEF HoldReason
<1>9. HoldStops(info) = (j # "MAX_STEPS") /\ c \in Nat
  BY DEF HoldStops
<1>10. /\ IsRollout(ro') /\ ro'.queue = ro.queue /\ ro'.steps = ro.steps + 1
       /\ ro'.collisions = ro.collisions + c /\ ro'.info.is_success = info.is_success
       /\ ro'.success = (j = "SUCCESS") /\ ro'.terminated = (j # "MAX_STEPS")
       /\ ro'.reason = j
  <2> DEFINE i == [f \in DOMAIN NoInfo |-> info[f]]
             t == ~HoldStops(info) /\ info.truncated
  <2>1. ro' = [ro EXCEPT !.info = i, !.steps = @ + 1, !.collisions = @ + c,
                         !.success = j = "SUCCESS", !.terminated = j # "MAX_STEPS",
                         !.truncated = t, !.reason = j]
    BY <1>2, <1>9
  <2>2. i.is_success = info.is_success
    BY DEF NoInfo
  <2>3. IsRollout(ro)
    BY <1>1, InsideEpisode
  <2> HIDE DEF i, t, j, c
  <2> QED  BY <2>1, <2>2, <2>3 DEF IsRollout, RolloutFields
<1> HIDE DEF j, c
<1>11. RolloutTypes'
  <2>1. IsRollout(ro)' /\ ro'.success \in BOOLEAN /\ ro'.terminated \in BOOLEAN
    BY <1>10
  <2>2. ro'.steps \in Nat /\ ro'.collisions \in Nat
    BY <1>1, <1>9, <1>10, InsideEpisode
  <2>3. ro'.queue \in Queues /\ ro'.queue.horizon = setup'.horizon
    BY <1>1, <1>10, InsideEpisode
  <2> QED  BY <2>1, <2>2, <2>3 DEF RolloutTypes
<1>12. VerdictInv'
  <2>1. CASE j = "SUCCESS"
    BY <1>1, <1>8, <1>10, <2>1 DEF VerdictInv, Recording, Verdicts
  <2>2. CASE j # "SUCCESS"
    BY <1>1, <1>10, <2>2 DEF VerdictInv, Recording
  <2> QED  BY <2>1, <2>2
<1>13. QueueInv'
  BY <1>1, <1>10, InsideEpisode DEF QueueInv
<1>14. EpisodeInv'
  BY <1>1, <1>5, <1>7 DEF EpisodeInv, Recording, Closing
<1> QED  BY <1>7, <1>11, <1>12, <1>13, <1>14 DEF EvaluationInv, InnerInv

LEMMA HoldWriteKeeps ==
    ASSUME EvaluationInv, HoldWrite
    PROVE  EvaluationInv'
<1>1. /\ stage = "loop" /\ InEpisode /\ ~RolledOut /\ stage' = "row"
      /\ disk' = [disk EXCEPT ![index].result = PolicyRolloutResult(ro)]
      /\ UNCHANGED <<setup, index, ro, results, output>>
  BY DEF HoldWrite, Hold, InEpisode, Outside, Reporting, RolledOut
<1>2. VerdictOf(PolicyRolloutResult(ro))
  BY <1>1, InsideEpisode, VerdictOfRollout
<1> QED  BY <1>1, <1>2, WriteResultKeeps

LEMMA RRTEpisodeKeeps ==
    ASSUME EvaluationInv, RRTEpisode
    PROVE  EvaluationInv'
<1>1. PICK parsed, valid, retargeted, postcondition \in BOOLEAN,
           status \in {"SUCCESS", "EXECUTION_FAILED", "TIMEOUT"} :
        LET reason == RRTReason(parsed, valid, retargeted, status, postcondition) IN
        disk' = [disk EXCEPT ![index].result =
                   [PolicyRolloutResult(ro) EXCEPT !.reason = reason,
                        !.success = reason = "SUCCESS", !.evidence = postcondition]]
  BY DEF RRTEpisode
<1> DEFINE j == RRTReason(parsed, valid, retargeted, status, postcondition)
           r == [PolicyRolloutResult(ro) EXCEPT !.reason = j,
                     !.success = j = "SUCCESS", !.evidence = postcondition]
<1>2. /\ stage = "reset" /\ InEpisode /\ ~RolledOut /\ stage' = "row"
      /\ disk' = [disk EXCEPT ![index].result = r]
      /\ UNCHANGED <<setup, index, ro, results, output>>
  BY <1>1 DEF RRTEpisode, InEpisode, Outside, Reporting, RolledOut
<1>3. j = "SUCCESS" => postcondition
  BY DEF RRTReason
<1> HIDE DEF j
<1>4. r.reason = j /\ r.success = (j = "SUCCESS") /\ r.evidence = postcondition
  BY DEF PolicyRolloutResult
<1> HIDE DEF r
<1>5. VerdictOf(r)
  BY <1>3, <1>4 DEF VerdictOf, Verdicts
<1> QED  BY <1>2, <1>5, WriteResultKeeps

-----------------------------------------------------------------------------
(* Rows and reports.                                                        *)

LEMMA KeepRowKeeps ==
    ASSUME EvaluationInv, KeepRow
    PROVE  EvaluationInv'
<1> DEFINE row == Row(index, disk[index].result)
           d == [disk[index] EXCEPT !.row = row]
<1>1. /\ stage = "row" /\ InEpisode /\ stage' = "episode"
      /\ disk' = IF Benchmark THEN [disk EXCEPT ![index].row = row] ELSE disk
      /\ results' = Append(results, row) /\ index' = index + 1
      /\ ro' = NewRollout(setup.horizon) /\ UNCHANGED <<setup, output>>
  BY DEF KeepRow, InEpisode, Outside, Reporting
<1>2. OuterInv /\ InnerInv /\ index \in Episodes /\ IsDirectory(disk[index])
      /\ DirectoryInv(disk[index], setup.horizon, RolledOut) /\ Trace \in Seq(Nat \X Nat)
  BY <1>1, InsideEpisode DEF EvaluationInv
<1>3. /\ setup.episodes \in Nat /\ index \in Nat \ {0} /\ index \in 1 .. setup.episodes
      /\ 1 .. setup.episodes \subseteq Episodes
  BY <1>1, <1>2, SetupNumbers DEF OuterInv, ArgumentTypes
<1>4. InnerInv'
  BY <1>1, <1>2, InnerOutside DEF OuterInv, Outside
<1>5. ArgumentTypes'
  BY <1>1, <1>2, <1>3 DEF OuterInv, ArgumentTypes, Stages, InEpisode, Outside, Reporting
<1>6. /\ IsDirectory(d) /\ d.trace = Trace /\ d.exists = disk[index].exists
      /\ d.result = disk[index].result /\ d.arrays = disk[index].arrays
      /\ d.states = disk[index].states /\ d.events = disk[index].events
      /\ d.torn = disk[index].torn /\ d.row = row
  <2> HIDE DEF row
  <2> QED  BY <1>2 DEF IsDirectory, DirectoryFields, Trace
<1>7. Benchmark => disk' = [disk EXCEPT ![index] = d]
  BY <1>1, <1>2
<1> HIDE DEF d
<1>8. DirectoryInv(d, setup.horizon, RolledOut)
  BY <1>2, <1>6 DEF DirectoryInv, WithinAStep, Trace
<1>9. /\ disk' = [e \in Episodes |-> disk'[e]]
      /\ disk'[index] = (IF Benchmark THEN d ELSE disk[index])
      /\ \A e \in Episodes : e # index => disk'[e] = disk[e]
  BY <1>1, <1>2, <1>7 DEF OuterInv, DiskTypes
<1>10. DiskTypes'
  <2>1. disk[index].exists
    BY <1>1, <1>2 DEF OuterInv, DiskTypes
  <2>2. InEpisode' = FALSE
    BY <1>1 DEF InEpisode, Outside
  <2> QED  BY <1>2, <1>6, <1>9, <2>1, <2>2 DEF OuterInv, DiskTypes
<1>11. DiskInv'
  <2>1. UNCHANGED <<setup.horizon, RolledOut>>
    BY <1>1 DEF RolledOut
  <2> QED  BY <1>2, <1>8, <1>9, <2>1 DEF OuterInv, DiskInv
<1>12. OutputTypes' /\ RowsInv'
  <2>1. Benchmark' = Benchmark /\ (Benchmark => NothingWritten)
    BY <1>1, <1>2, EpisodeUnreported DEF OuterInv, Benchmark
  <2>2. ReportsMatchEpisodes'
    BY <1>1, <2>1 DEF ReportsMatchEpisodes, NothingWritten
  <2>3. ASSUME Benchmark
        PROVE  RowsOf(results', disk', index + 1, FALSE, RolledOut)
    <3>1. RowsOf(results, disk, index, TRUE, RolledOut)
      BY <1>1, <1>2, <2>3, EpisodeUnreported DEF OuterInv
    <3>2. \A e \in 1 .. index - 1 : e \in Episodes /\ e # index /\ disk'[e] = disk[e]
      BY <1>3, <1>9
    <3>3. \A e \in Episodes : disk'[e].exists = disk[e].exists /\ disk'[e].torn = disk[e].torn
      BY <1>6, <1>9
    <3>4. \A e \in Episodes : e \in Nat
      BY RunAssumption DEF Episodes
    <3>5. row = RowOf(index, disk[index].result, RolledOut)
      BY DEF Row, RowOf, RolledOut
    <3> HIDE DEF row
    <3>6. disk'[index] = d
      BY <1>9, <2>3
    <3>7. results = [k \in 1 .. index - 1 |-> disk'[k].row]
      BY <3>1, <3>2 DEF RowsOf
    <3>8. Append(results, row) = [k \in 1 .. (index + 1) - 1 |-> disk'[k].row]
      BY <1>3, <1>6, <3>6, <3>7
    <3>9. \A e \in Episodes :
            /\ disk'[e].exists <=> e < index + 1 \/ (e = index + 1 /\ FALSE)
            /\ ~disk'[e].torn
      BY <1>3, <3>1, <3>3, <3>4 DEF RowsOf
    <3>10. ASSUME NEW e \in 1 .. (index + 1) - 1
           PROVE  disk'[e].row = RowOf(e, disk'[e].result, RolledOut)
      <4>1. CASE e = index
        BY <1>6, <3>5, <3>6, <4>1
      <4>2. CASE e # index
        <5>1. e \in 1 .. index - 1
          BY <1>3, <4>2
        <5> QED  BY <3>1, <3>2, <5>1 DEF RowsOf
      <4> QED  BY <4>1, <4>2
    <3> QED  BY <1>1, <3>8, <3>9, <3>10 DEF RowsOf
  <2>4. InEpisode' = FALSE /\ RolledOut' = RolledOut /\ Written' = {}
    BY <1>1 DEF InEpisode, RolledOut, Outside, Written
  <2>5. OutputTypes'
    BY <1>1, <1>2, <2>1 DEF OuterInv, OutputTypes, NothingWritten
  <2>6. RowsInv'
    BY <1>1, <2>1, <2>2, <2>3, <2>4 DEF RowsInv, Reporting, CleanStart, NothingWritten
  <2> QED  BY <2>5, <2>6
<1> QED  BY <1>4, <1>5, <1>10, <1>11, <1>12 DEF EvaluationInv, OuterInv

\* When the last episode is over, the rows in memory are those of the directories.
LEMMA RowsAtTheEnd ==
    ASSUME EvaluationInv, Benchmark, stage \in Outside, CleanStart, index = setup.episodes + 1
    PROVE  /\ RowsOf(results, disk, setup.episodes + 1, FALSE, RolledOut)
           /\ DOMAIN results = 1 .. setup.episodes /\ Len(results) = setup.episodes
           /\ \A e \in Episodes : /\ disk[e].exists <=> e \in 1 .. setup.episodes
                                  /\ ~disk[e].torn
           /\ \A e \in 1 .. setup.episodes :
                 /\ results[e] = disk[e].row
                 /\ results[e].success = disk[e].result.success
                 /\ results[e].reason = disk[e].result.reason
<1> DEFINE n == setup.episodes
<1>1. n \in Nat \ {0}
  BY SetupNumbers DEF EvaluationInv, OuterInv
<1>2. InEpisode = FALSE
  BY DEF InEpisode
<1>3. RowsOf(results, disk, n + 1, FALSE, RolledOut)
  BY <1>2 DEF EvaluationInv, OuterInv, RowsInv
<1>4. \A e \in Episodes : e \in Nat \ {0}
  BY RunAssumption DEF Episodes
<1> HIDE DEF n
<1>5. results = [k \in 1 .. n |-> disk[k].row]
  BY <1>1, <1>3 DEF RowsOf
<1>6. DOMAIN results = 1 .. n /\ Len(results) = n /\ \A e \in 1 .. n : results[e] = disk[e].row
  BY <1>1, <1>5
<1>7. \A e \in Episodes : (disk[e].exists <=> e \in 1 .. n) /\ ~disk[e].torn
  BY <1>1, <1>3, <1>4 DEF RowsOf
<1>8. \A e \in 1 .. n : results[e].success = disk[e].result.success
                         /\ results[e].reason = disk[e].result.reason
  <2>1. \A e \in 1 .. n : disk[e].row = RowOf(e, disk[e].result, RolledOut)
    BY <1>1, <1>3 DEF RowsOf
  <2>2. \A e, r, b : RowOf(e, r, b).success = r.success /\ RowOf(e, r, b).reason = r.reason
    BY DEF RowOf
  <2> QED  BY <1>6, <2>1, <2>2
<1> QED  BY <1>3, <1>6, <1>7, <1>8 DEF n

\* What metrics.json says then.
LEMMA CountsAtTheEnd ==
    ASSUME EvaluationInv, Benchmark, stage \in Outside, CleanStart, index = setup.episodes + 1
    PROVE  /\ aggregate_results(results).successes =
                Cardinality({e \in 1 .. setup.episodes : disk[e].result.success})
           /\ aggregate_results(results).terminations =
                [x \in {disk[e].result.reason : e \in 1 .. setup.episodes} |->
                   Cardinality({e \in 1 .. setup.episodes : disk[e].result.reason = x})]
<1> DEFINE n == setup.episodes
<1>1. /\ DOMAIN results = 1 .. n
      /\ \A e \in 1 .. n : /\ results[e].success = disk[e].result.success
                            /\ results[e].reason = disk[e].result.reason
  BY RowsAtTheEnd
<1> HIDE DEF n
<1>2. {k \in DOMAIN results : results[k].success} = {e \in 1 .. n : disk[e].result.success}
  BY <1>1
<1>3. \A x : {k \in DOMAIN results : results[k].reason = x} =
               {e \in 1 .. n : disk[e].result.reason = x}
  BY <1>1
<1>4. {r.reason : r \in Range(results)} = {disk[e].result.reason : e \in 1 .. n}
  BY <1>1 DEF Range
<1>5. aggregate_results(results).terminations =
        [x \in {r.reason : r \in Range(results)} |->
           Cardinality({k \in DOMAIN results : results[k].reason = x})]
  BY DEF aggregate_results
<1>6. aggregate_results(results).terminations =
        [x \in {disk[e].result.reason : e \in 1 .. n} |->
           Cardinality({e \in 1 .. n : disk[e].result.reason = x})]
  BY <1>3, <1>4, <1>5
<1>7. aggregate_results(results).successes =
        Cardinality({e \in 1 .. n : disk[e].result.success})
  BY <1>2 DEF aggregate_results
<1> QED  BY <1>6, <1>7 DEF n

\* One more file of the report, or one more row of episodes.csv.
LEMMA ReportGrows ==
    ASSUME EvaluationInv, CleanStart, stage \in Outside, index = setup.episodes + 1,
           UNCHANGED <<setup, disk>>, stage' \in Reporting \cup {"idle"},
           index' \in {1, index}, ro' = ro \/ ro' = NewRollout(setup.horizon),
           results' = (IF stage' = "idle" THEN <<>> ELSE results),
           index' = (IF stage' = "idle" THEN 1 ELSE index),
           output' = [f \in OutputFields |-> output'[f]],
           output'.exists = output.exists, output'.torn = output.torn,
           Benchmark =>
              /\ stage' # "idle" => output'.files = Written'
              /\ stage' = "idle" => output'.files = ReportFiles
              /\ "metrics.json" \in output'.files =>
                    \/ output'.metrics = aggregate_results(results)
                    \/ "metrics.json" \in output.files /\ output'.metrics = output.metrics
              /\ \E n \in 0 .. setup.episodes :
                    /\ output'.rows = [k \in 1 .. n |-> results[k]]
                    /\ stage' \in {"metrics", "csv"} => n = 0
                    /\ stage' = "idle" => n = setup.episodes
    PROVE  EvaluationInv'
<1>1. OuterInv /\ setup \in Setups /\ setup.episodes \in Nat \ {0}
      /\ 1 .. setup.episodes \subseteq Episodes
  BY SetupNumbers DEF EvaluationInv, OuterInv, ArgumentTypes
<1>2. index' \in 1 .. setup.episodes + 1
  BY <1>1
<1>3. /\ InnerInv' /\ ArgumentTypes' /\ DiskTypes' /\ DiskInv'
      /\ Benchmark' = Benchmark /\ RolledOut' = RolledOut
  BY <1>1, <1>2, SameDirectories DEF Outside
<1>4. ASSUME Benchmark
      PROVE  OutputTypes' /\ RowsInv'
  <2>1. /\ RowsOf(results, disk, index, FALSE, RolledOut) /\ Len(results) = setup.episodes
        /\ \A e \in Episodes : /\ disk[e].exists <=> e \in 1 .. setup.episodes
                               /\ ~disk[e].torn
        /\ \A e \in 1 .. setup.episodes : results[e] = disk[e].row
    BY <1>4, RowsAtTheEnd
  <2>2. PICK n \in 0 .. setup.episodes :
           /\ output'.rows = [k \in 1 .. n |-> results[k]]
           /\ stage' \in {"metrics", "csv"} => n = 0
           /\ stage' = "idle" => n = setup.episodes
    BY <1>4
  <2>3. DOMAIN output'.rows = 1 .. n /\ 1 .. n \subseteq 1 .. setup.episodes
        /\ \A e \in 1 .. n : output'.rows[e] = disk[e].row
    BY <1>1, <2>1, <2>2
  <2>4. output.exists /\ ~output.torn
    BY <1>1, <1>4 DEF OuterInv, RowsInv
  <2>5. OutputTypes'
    BY <1>1, <2>3, <2>4 DEF OutputTypes
  <2>6. "metrics.json" \in output'.files =>
          /\ output'.metrics.successes =
               Cardinality({e \in 1 .. setup.episodes : disk[e].result.success})
          /\ output'.metrics.terminations =
               [x \in {disk[e].result.reason : e \in 1 .. setup.episodes} |->
                  Cardinality({e \in 1 .. setup.episodes : disk[e].result.reason = x})]
    <3>1. ReportsMatchEpisodes
      BY <1>1 DEF OuterInv, RowsInv
    <3> QED  BY <1>4, <2>4, <3>1, CountsAtTheEnd DEF ReportsMatchEpisodes
  <2>7. "report.md" \in output'.files =>
          output'.files = ReportFiles /\ DOMAIN output'.rows = 1 .. setup.episodes
    <3>1. stage' # "idle" => "report.md" \notin output'.files
      BY <1>4 DEF Written
    <3> QED  BY <1>4, <2>2, <2>3, <3>1
  <2>8. ReportsMatchEpisodes'
    BY <1>1, <1>3, <2>1, <2>3, <2>4, <2>6, <2>7 DEF ReportsMatchEpisodes
  <2>9. InEpisode' = FALSE
    BY DEF InEpisode, Outside, Reporting
  <2>10. stage' \in {"metrics", "csv"} => output'.rows = <<>>
    BY <2>2
  <2>11. RowsInv'
    <3>1. CASE stage' = "idle"
      BY <2>8, <3>1 DEF RowsInv, Reporting, CleanStart
    <3>2. CASE stage' \in Reporting
      BY <1>3, <1>4, <2>1, <2>2, <2>4, <2>8, <2>9, <2>10, <3>2
         DEF RowsInv, Reporting, CleanStart
    <3> QED  BY <3>1, <3>2
  <2> QED  BY <2>5, <2>11
<1>5. ASSUME ~Benchmark
      PROVE  OutputTypes' /\ RowsInv'
  BY <1>3, <1>5 DEF OutputTypes, RowsInv, ReportsMatchEpisodes, Reporting
<1> QED  BY <1>3, <1>4, <1>5 DEF EvaluationInv, OuterInv

LEMMA ReportKeeps ==
    ASSUME EvaluationInv, StartReport \/ WriteMetrics \/ WriteRows \/ WriteMarkdown
    PROVE  EvaluationInv'
<1> DEFINE n == setup.episodes
<1>1. OuterInv
  BY DEF EvaluationInv
<1>2. n \in Nat \ {0} /\ index \in 1 .. n + 1
  BY <1>1, SetupNumbers DEF OuterInv, ArgumentTypes
<1>3. stage \in {"episode"} \cup Reporting /\ CleanStart /\ stage \in Outside
  BY DEF StartReport, WriteMetrics, WriteRows, WriteMarkdown, Reporting, CleanStart, Outside
<1>4. index = n + 1
  BY <1>1, <1>2, <1>3 DEF StartReport, WriteMetrics, WriteRows, WriteMarkdown, OuterInv,
                          RowsInv, Reporting
<1>5. output = [f \in OutputFields |-> output[f]]
  BY <1>1 DEF OuterInv, OutputTypes
<1>6. Benchmark => /\ output.files = Written /\ (stage # "rows" => output.rows = <<>>)
                   /\ Len(results) = n /\ DOMAIN results = 1 .. n
                   /\ stage = "rows" =>
                        \E m \in 0 .. n : output.rows = [k \in 1 .. m |-> results[k]]
  BY <1>1, <1>3, <1>4, RowsAtTheEnd DEF OuterInv, RowsInv
<1>7. \A r : r = <<>> => r = [k \in 1 .. 0 |-> results[k]]
  OBVIOUS
<1>8. 0 \in 0 .. n
  BY <1>2
<1> HIDE DEF n
<1>9. CASE StartReport
  <2>1. /\ stage = "episode" /\ stage' = "metrics" /\ UNCHANGED <<setup, index, ro, results, disk>>
        /\ output' = IF Benchmark THEN [output EXCEPT !.files = @ \cup {"run_manifest.json"}]
                     ELSE output
    BY <1>9 DEF StartReport
  <2>2. /\ output' = [f \in OutputFields |-> output'[f]] /\ output'.exists = output.exists
        /\ output'.torn = output.torn /\ output'.rows = output.rows
        /\ Benchmark => output'.files = output.files \cup {"run_manifest.json"}
    BY <1>5, <2>1 DEF OutputFields
  <2>3. Written = {} /\ Written' = {"run_manifest.json"}
    BY <2>1 DEF Written
  <2>4. Benchmark => /\ output'.files = Written' /\ "metrics.json" \notin output'.files
                     /\ output'.rows = [k \in 1 .. 0 |-> results[k]]
    BY <1>6, <1>7, <2>1, <2>2, <2>3
  <2> QED  BY <1>3, <1>4, <1>8, <2>1, <2>2, <2>4, ReportGrows DEF Reporting, n
<1>10. CASE WriteMetrics
  <2> DEFINE a == aggregate_results(results)
  <2>1. /\ stage = "metrics" /\ stage' = "csv" /\ UNCHANGED <<setup, index, ro, results, disk>>
        /\ output' = [output EXCEPT !.files = @ \cup {"metrics.json"}, !.metrics = a]
    BY <1>10 DEF WriteMetrics
  <2> HIDE DEF a
  <2>2. /\ output' = [f \in OutputFields |-> output'[f]] /\ output'.exists = output.exists
        /\ output'.torn = output.torn /\ output'.rows = output.rows /\ output'.metrics = a
        /\ output'.files = output.files \cup {"metrics.json"}
    BY <1>5, <2>1 DEF OutputFields
  <2>3. /\ Written = {"run_manifest.json"}
        /\ Written' = {"run_manifest.json", "metrics.json"}
    BY <2>1 DEF Written
  <2>4. Benchmark => /\ output'.files = Written'
                     /\ output'.rows = [k \in 1 .. 0 |-> results[k]]
    BY <1>6, <1>7, <2>1, <2>2, <2>3
  <2> QED  BY <1>3, <1>4, <1>8, <2>1, <2>2, <2>4, ReportGrows DEF Reporting, n, a
<1>11. CASE WriteRows
  <2>1. UNCHANGED <<setup, index, ro, results, disk>>
    BY <1>11 DEF WriteRows
  <2>2. CASE /\ stage = "csv" /\ stage' = "rows"
             /\ output' = [output EXCEPT !.files = @ \cup {"episodes.csv"}, !.rows = <<>>]
    <3>1. /\ output' = [f \in OutputFields |-> output'[f]] /\ output'.exists = output.exists
          /\ output'.torn = output.torn /\ output'.rows = <<>>
          /\ output'.metrics = output.metrics
          /\ output'.files = output.files \cup {"episodes.csv"}
      BY <1>5, <2>2 DEF OutputFields
    <3>2. /\ Written = {"run_manifest.json", "metrics.json"}
          /\ Written' = {"run_manifest.json", "metrics.json", "episodes.csv"}
      BY <2>2 DEF Written
    <3>3. Benchmark => /\ output'.files = Written' /\ "metrics.json" \in output.files
                       /\ output'.rows = [k \in 1 .. 0 |-> results[k]]
      BY <1>6, <1>7, <3>1, <3>2
    <3> QED  BY <1>3, <1>4, <1>8, <2>1, <2>2, <3>1, <3>3, ReportGrows DEF Reporting, n
  <2>3. CASE /\ stage = "rows" /\ stage' = "rows" /\ Len(output.rows) < Len(results)
             /\ output' = [output EXCEPT !.rows = Append(@, results[Len(@) + 1])]
    <3>1. /\ output' = [f \in OutputFields |-> output'[f]] /\ output'.exists = output.exists
          /\ output'.torn = output.torn /\ output'.files = output.files
          /\ output'.metrics = output.metrics
          /\ output'.rows = Append(output.rows, results[Len(output.rows) + 1])
      BY <1>5, <2>3 DEF OutputFields
    <3>2. Written' = Written /\ "metrics.json" \in Written
      BY <2>3 DEF Written
    <3>3. Benchmark => \E m \in 0 .. n : output'.rows = [k \in 1 .. m |-> results[k]]
      <4> SUFFICES ASSUME Benchmark
                   PROVE  \E m \in 0 .. n : output'.rows = [k \in 1 .. m |-> results[k]]
        OBVIOUS
      <4>1. PICK m \in 0 .. n : output.rows = [k \in 1 .. m |-> results[k]]
        BY <1>6, <2>3
      <4>2. Len(output.rows) = m /\ m < n
        BY <1>2, <1>6, <2>3, <4>1
      <4>3. output'.rows = [k \in 1 .. m + 1 |-> results[k]]
        BY <3>1, <4>1, <4>2
      <4>4. m + 1 \in 0 .. n
        BY <1>2, <4>2
      <4> QED  BY <4>3, <4>4
    <3>4. Benchmark => output'.files = Written' /\ "metrics.json" \in output.files
      BY <1>6, <3>1, <3>2
    <3> QED  BY <1>3, <1>4, <2>1, <2>3, <3>1, <3>3, <3>4, ReportGrows DEF Reporting, n
  <2> QED  BY <1>11, <2>2, <2>3 DEF WriteRows
<1>12. CASE WriteMarkdown
  <2>1. /\ stage = "rows" /\ stage' = "idle" /\ UNCHANGED <<setup, disk>>
        /\ Len(output.rows) = Len(results)
        /\ index' = 1 /\ ro' = NewRollout(setup.horizon) /\ results' = <<>>
        /\ output' = [output EXCEPT !.files = @ \cup {"report.md"}]
    BY <1>12 DEF WriteMarkdown
  <2>2. /\ output' = [f \in OutputFields |-> output'[f]] /\ output'.exists = output.exists
        /\ output'.torn = output.torn /\ output'.rows = output.rows
        /\ output'.metrics = output.metrics
        /\ output'.files = output.files \cup {"report.md"}
    BY <1>5, <2>1 DEF OutputFields
  <2>3. Written = {"run_manifest.json", "metrics.json", "episodes.csv"}
    BY <2>1 DEF Written
  <2>4. Benchmark => output'.rows = [k \in 1 .. n |-> results[k]]
    <3> SUFFICES ASSUME Benchmark
                 PROVE  output'.rows = [k \in 1 .. n |-> results[k]]
      OBVIOUS
    <3>1. PICK m \in 0 .. n : output.rows = [k \in 1 .. m |-> results[k]]
      BY <1>6, <2>1
    <3>2. Len(output.rows) = m
      BY <1>2, <3>1
    <3>3. m = n
      BY <1>6, <2>1, <3>2
    <3> QED  BY <2>2, <3>1, <3>3
  <2>5. Benchmark => output'.files = ReportFiles /\ "metrics.json" \in output.files
    BY <1>6, <2>2, <2>3 DEF ReportFiles
  <2>6. n \in 0 .. n
    BY <1>2
  <2> QED  BY <1>3, <1>4, <2>1, <2>2, <2>4, <2>5, <2>6, ReportGrows DEF Reporting, n
<1> QED  BY <1>9, <1>10, <1>11, <1>12

-----------------------------------------------------------------------------
(* The theorems.                                                            *)

\* What follows from the invariant: the three properties.
LEMMA EvaluationConsequences ==
    ASSUME EvaluationInv
    PROVE  SuccessIsClean /\ TraceIsComplete /\ ReportsMatchEpisodes
<1>1. OuterInv /\ InnerInv
  BY DEF EvaluationInv
<1>2. ASSUME NEW e \in Episodes, disk[e].result.reason # "none"
      PROVE  /\ disk[e].result.success =>
                  disk[e].result.evidence
                  /\ disk[e].result.reason \in {"SUCCESS", "MANUAL_INTERRUPT"}
             /\ disk[e].result.reason = "SUCCESS" => disk[e].result.success
  BY <1>1, <1>2 DEF OuterInv, DiskInv, DirectoryInv, VerdictOf, Verdicts
<1>3. ASSUME RolledOut, stage = "row", disk[index].result.success,
             disk[index].result.steps > 0
      PROVE  /\ ~ro.info.unsafe_state /\ ~ro.info.object_lost
             /\ setup.limit # NoLimit => ro.collisions < setup.limit
  <2>1. disk[index].result = PolicyRolloutResult(ro)
    BY <1>1, <1>3 DEF InnerInv, EpisodeInv
  <2>2. ro.success /\ ro.steps > 0
    BY <1>3, <2>1 DEF PolicyRolloutResult
  <2> QED  BY <1>1, <1>3, <2>2 DEF InnerInv, VerdictInv
<1>4. SuccessIsClean
  BY <1>2, <1>3 DEF SuccessIsClean
<1>5. ASSUME stage = "loop", ro.queue.items # <<>>
      PROVE  PopRefusal(Head(ro.queue.items).action) = "none"
  <2>1. InEpisode
    BY <1>5 DEF InEpisode, Outside, Reporting
  <2>2. /\ ro.queue.items \in Seq(Items) /\ DOMAIN ro.queue.items = 1 .. Len(ro.queue.items)
        /\ \A k \in DOMAIN ro.queue.items : ro.queue.items[k].action \notin {"nan", "out"}
    BY <1>5, <2>1, InsideEpisode DEF QueueInv
  <2>3. Head(ro.queue.items) = ro.queue.items[1] /\ 1 \in DOMAIN ro.queue.items
    BY <1>5, <2>2
  <2> QED  BY <2>2, <2>3, AcceptedAction
<1>6. TraceIsComplete
  BY <1>1, <1>5 DEF TraceIsComplete, OuterInv, DiskInv, DirectoryInv, WithinAStep
<1>7. ReportsMatchEpisodes
  BY <1>1 DEF OuterInv, RowsInv
<1> QED  BY <1>4, <1>6, <1>7

LEMMA EvaluationBegins ==
    ASSUME EvaluationInit
    PROVE  EvaluationInv
<1>1. /\ setup \in Invocations /\ setup \in Setups /\ stage = "idle" /\ index = 1
      /\ ro = NewRollout(setup.horizon)
      /\ results = <<>> /\ disk = [e \in Episodes |-> NoDirectory] /\ output = NoOutput
  BY RunAssumption DEF EvaluationInit
<1>2. setup.episodes \in EpisodeCounts /\ setup.horizon \in Horizons
  BY <1>1 DEF Setups
<1>3. setup.episodes \in Nat \ {0}
  BY <1>2, RunAssumption
<1>4. setup.horizon \in Nat
  <2>1. setup.horizon \in 1 .. ChunkSize /\ ChunkSize \in Nat
    BY <1>2, RunAssumption, ChunkSizeAssumption
  <2> QED  BY ONLY <2>1
<1>5. ArgumentTypes
  BY <1>1, <1>3 DEF ArgumentTypes, Stages, InEpisode, Outside
<1>6. /\ IsDirectory(NoDirectory) /\ NoDirectory.trace = <<>>
      /\ NoDirectory.result.reason = "none"
  BY DEF IsDirectory, DirectoryFields, NoDirectory, NewDirectory, NoResult
<1>7. <<>> \in Seq(Nat \X Nat) /\ DOMAIN <<>> = {}
  OBVIOUS
<1>8. DiskTypes
  BY <1>1, <1>6, <1>7 DEF DiskTypes, InEpisode, Outside
<1>9. DirectoryInv(NoDirectory, setup.horizon, RolledOut)
  BY <1>6, <1>7 DEF DirectoryInv, VerdictOf
<1>10. DiskInv
  BY <1>1, <1>9 DEF DiskInv
<1>11. OutputTypes /\ RowsInv
  <2>1. /\ output = [f \in OutputFields |-> output[f]] /\ output.rows = <<>>
        /\ output.files = {} /\ NoDirectory.exists = FALSE
    BY <1>1 DEF NoOutput, OutputFields, NoDirectory, NewDirectory
  <2>2. DOMAIN output.rows = {}
    BY <2>1
  <2>3. OutputTypes
    BY <1>1, <2>1, <2>2 DEF OutputTypes
  <2>4. ReportsMatchEpisodes
    BY <2>1, <2>2 DEF ReportsMatchEpisodes
  <2> QED  BY <1>1, <2>3, <2>4 DEF RowsInv, Reporting, CleanStart
<1>12. /\ IsRollout(ro) /\ ro.queue = NewQueue(setup.horizon) /\ ro.steps = 0
       /\ ro.collisions = 0 /\ ro.success = FALSE /\ ro.terminated = FALSE
       /\ ro.reason = "MAX_STEPS"
  BY <1>1, NewRolloutFields
<1>13. RolloutTypes
  <2>1. ro.queue \in Queues /\ ro.queue.horizon = setup.horizon
    BY <1>4, <1>12, NewQueueFields
  <2>2. ro.success \in BOOLEAN /\ ro.terminated \in BOOLEAN
    BY <1>12
  <2>3. ro.steps \in Nat /\ ro.collisions \in Nat
    BY <1>12
  <2> QED  BY <1>12, <2>1, <2>2, <2>3 DEF RolloutTypes
<1>14. VerdictInv
  BY <1>1, <1>12 DEF VerdictInv, Recording
<1>15. QueueInv /\ EpisodeInv
  BY <1>1 DEF QueueInv, EpisodeInv, InEpisode, Outside, Recording, Closing
<1> QED  BY <1>5, <1>8, <1>10, <1>11, <1>13, <1>14, <1>15
         DEF EvaluationInv, OuterInv, InnerInv

\* Every step keeps the invariant.
LEMMA EvaluationSteps ==
    ASSUME EvaluationInv, [EvaluationNext]_evaluationVars
    PROVE  EvaluationInv'
<1>1. CASE Fail
  BY <1>1, FailKeeps
<1>2. CASE Invoke \/ StartClearing
  BY <1>2, BeginningKeeps
<1>3. CASE Clear \/ ReplaceDirectory
  BY <1>3, ClearKeeps, ReplaceKeeps
<1>4. CASE Begin \/ Build
  BY <1>4, BeginKeeps, BuildKeeps
<1>5. CASE OpenEpisode
  BY <1>5, OpenEpisodeKeeps
<1>6. CASE Reset \/ HoldReset
  BY <1>6, ResetKeeps
<1>7. CASE Infer
  BY <1>7, InferKeeps
<1>8. CASE Step
  BY <1>8, StepKeeps
<1>9. CASE Record
  BY <1>9, RecordKeeps
<1>10. CASE Judge
  BY <1>10, JudgeKeeps
<1>11. CASE Leave \/ Interrupt
  BY <1>11, LeavingKeeps
<1>12. CASE Finalize
  BY <1>12, FinalizeKeeps
<1>13. CASE HoldStep
  BY <1>13, HoldStepKeeps
<1>14. CASE HoldWrite
  BY <1>14, HoldWriteKeeps
<1>15. CASE RRTEpisode
  BY <1>15, RRTEpisodeKeeps
<1>16. CASE KeepRow
  BY <1>16, KeepRowKeeps
<1>17. CASE StartReport \/ WriteMetrics \/ WriteRows \/ WriteMarkdown
  BY <1>17, ReportKeeps
<1>18. CASE UNCHANGED evaluationVars
  <2>1. UNCHANGED <<setup, stage, index, ro, results, disk, output>>
    BY <1>18 DEF evaluationVars
  <2>2. OuterInv /\ InnerInv
    BY DEF EvaluationInv
  <2>3. ArgumentTypes' /\ DiskTypes'
    BY <2>1, <2>2 DEF OuterInv, ArgumentTypes, DiskTypes, InEpisode
  <2>4. DiskInv'
    BY <2>1, <2>2 DEF OuterInv, DiskInv, RolledOut
  <2>5. RowsInv'
    BY <2>1, <2>2
       DEF OuterInv, RowsInv, ReportsMatchEpisodes, Benchmark, RolledOut, InEpisode, CleanStart,
           Written
  <2>6. RolloutTypes' /\ VerdictInv'
    BY <2>1, <2>2 DEF InnerInv, RolloutTypes, VerdictInv, RolledOut
  <2>7. QueueInv'
    BY <2>1, <2>2 DEF InnerInv, QueueInv, RolledOut, Trace, Ahead
  <2>8. EpisodeInv'
    BY <2>1, <2>2 DEF InnerInv, EpisodeInv, RolledOut, Trace, InEpisode, Progress, Ahead
  <2>9. OutputTypes'
    BY <2>1, <2>2 DEF OuterInv, OutputTypes, Benchmark
  <2> QED  BY <2>3, <2>4, <2>5, <2>6, <2>7, <2>8, <2>9 DEF EvaluationInv, OuterInv, InnerInv
<1> QED
  BY <1>1, <1>2, <1>3, <1>4, <1>5, <1>6, <1>7, <1>8, <1>9, <1>10, <1>11, <1>12, <1>13,
     <1>14, <1>15, <1>16, <1>17, <1>18
     DEF EvaluationNext, Refused, BuildFails, Unsupported, DirectoryTaken, PolicyMissing,
          ResetRaises, HoldStepRaises, Crash

LEMMA EvaluationInvariant == EvaluationSpec => []EvaluationInv
<1>1. EvaluationInit => EvaluationInv
  BY EvaluationBegins
<1>2. EvaluationInv /\ [EvaluationNext]_evaluationVars => EvaluationInv'
  BY EvaluationSteps
<1> QED  BY <1>1, <1>2, PTL DEF EvaluationSpec

\* Whoever reports SUCCESS rests on the task predicate, and no reason to stop outranked it
\* (run_policy_rollout, BridgeStepBaseline.run and RRTBaseline.run).
THEOREM SuccessStaysClean == EvaluationSpec => []SuccessIsClean
BY EvaluationInvariant, EvaluationConsequences, PTL

\* The chunk trace of every episode shows each counted step in order, across chunks,
\* interrupts and crashes (ACTActionQueue, EpisodeArtifactWriter).
THEOREM TraceStaysComplete == EvaluationSpec => []TraceIsComplete
BY EvaluationInvariant, EvaluationConsequences, PTL

\* A benchmark report stands for the episodes beside it, whatever ran there before
\* (BenchmarkEvaluator.evaluate, aggregate_results).
THEOREM ReportsStayTrue == EvaluationSpec => []ReportsMatchEpisodes
BY EvaluationInvariant, EvaluationConsequences, PTL
=============================================================================
