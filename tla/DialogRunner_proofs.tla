------------------------ MODULE DialogRunner_proofs ------------------------
(***************************************************************************)
(* Three theorems for all agents, limits and modes.  Outside debug mode no *)
(* dialog of a step's first round ends before every agent has spoken, and  *)
(* no dialog at all without an EXECUTE: neither the early end nor the call *)
(* limit cuts the first sweep over the agents short.  A                    *)
(* response is executed to its end, or not at all.  And the prompts say of *)
(* the past what the simulator has been through.                           *)
(***************************************************************************)
EXTENDS DialogRunner, SequenceTheorems, WellFoundedInduction, TLAPS

\* During a dialog the agents before the one whose turn it is have spoken.
SweptSoFar ==
    pc = "calling" /\ args.comm = "dialog" =>
        \A k \in 1 .. turn - 1 : AgentOrder[k] \in spoken

TurnOK ==
    /\ turn \in 1 .. Len(AgentOrder)
    /\ replan_idx \in Nat
    /\ spoken \subseteq Agents

HeardInv == TurnOK /\ SweptSoFar /\ EveryoneIsHeard

-----------------------------------------------------------------------------
\* The turn goes round: to the next agent, or back to the first one.
LEMMA TurnsGoRound ==
    ASSUME TurnOK, turn' = (turn % Len(AgentOrder)) + 1
    PROVE  /\ turn' \in 1 .. Len(AgentOrder)
           /\ turn < Len(AgentOrder) => turn' = turn + 1
           /\ turn = Len(AgentOrder) => turn' = 1
  <1> DEFINE n == Len(AgentOrder)
  <1>1. n \in Nat \ {0} /\ turn \in 1 .. n
    BY PrompterAssumption DEF TurnOK
  <1> HIDE DEF n
  <1>2. CASE turn < n
    <2>1. turn % n = turn
      BY <1>1, <1>2
    <2> QED
      BY <2>1, <1>1, <1>2 DEF n
  <1>3. CASE turn = n
    <2>1. n % n = 0
      BY <1>1
    <2> QED
      BY <2>1, <1>1, <1>3 DEF n
  <1> QED
    BY <1>1, <1>2, <1>3

\* When the last agent of the sweep has spoken, all have.
LEMMA SweepsAreWhole ==
    ASSUME TurnOK, turn = Len(AgentOrder),
           \A k \in 1 .. turn - 1 : AgentOrder[k] \in spoken,
           spoken' = spoken \cup {AgentOrder[turn]}
    PROVE  spoken' = Agents
  <1>1. spoken' \subseteq Agents
    BY DEF TurnOK, Agents
  <1>2. ASSUME NEW k \in 1 .. Len(AgentOrder) PROVE AgentOrder[k] \in spoken'
    <2>1. k = turn \/ k \in 1 .. turn - 1
      BY PrompterAssumption
    <2> QED
      BY <2>1
  <1> QED
    BY <1>1, <1>2 DEF Agents

LEMMA HeardInit == Init => HeardInv
  BY PrompterAssumption
  DEF Init, PrompterInit, HeardInv, TurnOK, SweptSoFar, EveryoneIsHeard

LEMMA HeardStep == HeardInv /\ [Next]_vars => HeardInv'
  <1> SUFFICES ASSUME HeardInv, [Next]_vars PROVE HeardInv'
    OBVIOUS
  <1> USE DEF HeardInv
  <1>1. CASE Call
    <2>1. CASE args.comm = "dialog"
      <3>1. /\ pc = "calling" /\ Speak(args.debug_mode) /\ args' = args
            /\ pc' = IF DialogEnds(args.debug_mode) THEN "judging" ELSE "calling"
        BY <1>1, <2>1 DEF Call, process_vars
      <3>2. /\ turn' \in 1 .. Len(AgentOrder)
            /\ turn < Len(AgentOrder) => turn' = turn + 1
            /\ turn = Len(AgentOrder) => turn' = 1
        BY <3>1, TurnsGoRound DEF Speak
      <3>3. turn \in 1 .. Len(AgentOrder)
        BY DEF TurnOK
      <3>4. TurnOK'
        BY <3>1, <3>2, <3>3 DEF TurnOK, Speak, Agents
      <3>5. \A k \in 1 .. turn - 1 : AgentOrder[k] \in spoken
        BY <3>1, <2>1 DEF SweptSoFar
      <3>6. SweptSoFar'
        <4>1. CASE turn < Len(AgentOrder)
          BY <4>1, <3>1, <3>2, <3>3, <3>5, PrompterAssumption DEF SweptSoFar, Speak
        <4>2. CASE turn = Len(AgentOrder)
          BY <4>2, <3>2 DEF SweptSoFar
        <4> QED
          BY <4>1, <4>2, <3>3, PrompterAssumption
      <3>7. EveryoneIsHeard'
        <4>1. OutOfCalls => spoken' = Agents /\ n_calls' >= MaxCalls
          BY <3>1, <3>5, SweepsAreWhole DEF OutOfCalls, Speak
        <4>2. Agreed => executes' /\ (replan_idx' > 0 \/ spoken' = Agents)
          BY <3>1 DEF Agreed, Speak
        <4>3. args.debug_mode => executes' /\ args'.debug_mode
          BY <3>1 DEF Speak, Answers
        <4>4. Agents' = Agents
          BY DEF Agents
        <4>5. CASE pc' = "judging"
          <5>1. Agreed \/ args.debug_mode \/ OutOfCalls
            BY <3>1, <4>5 DEF DialogEnds
          <5> QED
            BY <4>1, <4>2, <4>3, <4>4, <5>1 DEF EveryoneIsHeard
        <4> QED
          BY <4>5 DEF EveryoneIsHeard
      <3> QED
        BY <3>4, <3>6, <3>7
    <2>2. CASE args.comm # "dialog"
      BY <1>1, <2>2
      DEF Call, SpeakAlone, process_vars, TurnOK, SweptSoFar, EveryoneIsHeard
    <2> QED
      BY <2>1, <2>2
  <1>2. CASE StartStep
    BY <1>2, PrompterAssumption
    DEF StartStep, NewRound, NewDialog, round_vars, TurnOK, SweptSoFar, EveryoneIsHeard
  <1>3. CASE Object
    BY <1>3, PrompterAssumption
    DEF Object, NextReplan, NewDialog, round_vars, TurnOK, SweptSoFar, EveryoneIsHeard
  <1>4. CASE StartFresh \/ StartContinued \/ EndRun
    BY <1>4
    DEF StartFresh, StartContinued, EndRun, BeginRun, round_vars, TurnOK, SweptSoFar,
        EveryoneIsHeard
  <1>5. CASE Die \/ OutOfSteps \/ Accept \/ Store
    BY <1>5
    DEF Die, OutOfSteps, Accept, Store, round_vars, TurnOK, SweptSoFar, EveryoneIsHeard
  <1>6. CASE ExecutePlan \/ ExecuteSkill \/ PlanFails
    BY <1>6
    DEF ExecutePlan, ExecuteSkill, PlanFails, Executed, NextStep, round_vars, TurnOK,
        SweptSoFar, EveryoneIsHeard
  <1>7. CASE UNCHANGED vars
    BY <1>7 DEF vars, round_vars, TurnOK, SweptSoFar, EveryoneIsHeard
  <1> QED
    BY <1>1, <1>2, <1>3, <1>4, <1>5, <1>6, <1>7 DEF Next

\* A dialog ends with an EXECUTE or with its calls used up; in the latter case, and in
\* the first round of a step outside debug mode, it has heard every agent
\* (DialogPrompter.prompt_one_dialog_round).
THEOREM EveryoneIsAlwaysHeard == Spec => []EveryoneIsHeard
  <1>1. HeardInv => EveryoneIsHeard
    BY DEF HeardInv
  <1> QED
    BY <1>1, HeardInit, HeardStep, PTL DEF Spec
-----------------------------------------------------------------------------
(* Responses are executed whole or not at all.  While one is being executed *)
(* the simulator is at the state to rewind to followed by the plans of the  *)
(* response that are done; from the prompt to the first plan it is at the   *)
(* state to rewind to; and the plans are stored in their order.             *)

WholePlan == [step : Nat, plan : 1 .. MaxPlans, whole : {TRUE}]

SequencesOK ==
    /\ step \in Nat
    /\ saved \in [step : Nat, env : Seq(Plan), plans : Seq(WholePlan), exists : BOOLEAN]
    /\ env \in Seq(Plan) /\ sim_data \in Seq(Plan)
    /\ loaded \in Seq(WholePlan) /\ response \in Seq(WholePlan)

StoredSoFar ==
    /\ pc \in {"calling", "judging"} => saved.plans = <<>>
    /\ pc = "storing" =>
           /\ Len(saved.plans) < Len(response)
           /\ saved.plans = SubSeq(response, 1, Len(saved.plans))

ExecutedSoFar ==
    /\ pc \in {"calling", "judging", "storing"} => env = sim_data
    /\ pc = "storing" => plan = 1
    /\ pc = "planning" =>
           /\ plan \in 1 .. Len(response)
           /\ env = sim_data \o SubSeq(response, 1, plan - 1)

AtomInv == SequencesOK /\ StoredSoFar /\ ExecutedSoFar

FailuresOK == failed_plans \in Seq([response : Seq(WholePlan), tried : Seq(Plan)])

WhatResponsesDo ==
    pc = "planning" /\ pc' \in {"step", "end"} =>
        \/ /\ env' = sim_data /\ Len(failed_plans') = Len(failed_plans) + 1
        \/ /\ \/ env' = sim_data \o response
              \/ /\ args.output = "skill" /\ outcome' # "open"
                 /\ Len(env') \in Len(sim_data) + 1 .. Len(sim_data) + Len(response)
                 /\ IsPrefix(Front(env'), sim_data \o response)
           /\ round_history' = Append(round_history, response)

\* One more plan of the response after the ones that are done.
LEMMA OneMorePlan ==
    ASSUME NEW S, NEW s \in Seq(S), NEW r \in Seq(S), NEW p \in 1 .. Len(r)
    PROVE  Append(s \o SubSeq(r, 1, p - 1), r[p]) = s \o SubSeq(r, 1, p)
  <1> DEFINE q == SubSeq(r, 1, p - 1)
             q1 == SubSeq(r, 1, p)
             t == Append(s \o q, r[p])
  <1>1. /\ q \in Seq(S) /\ Len(q) = p - 1
        /\ \A i \in 1 .. p - 1 : q[i] = r[i]
    BY SubSeqProperties
  <1>2. /\ q1 \in Seq(S) /\ Len(q1) = p
        /\ \A i \in 1 .. p : q1[i] = r[i]
    BY SubSeqProperties
  <1> HIDE DEF q, q1
  <1>3. t \in Seq(S) /\ Len(t) = Len(s) + p
    BY <1>1
  <1>4. s \o q1 \in Seq(S) /\ Len(s \o q1) = Len(s) + p
    BY <1>2
  <1>5. ASSUME NEW i \in 1 .. Len(s) + p PROVE t[i] = (s \o q1)[i]
    <2> DEFINE u == s \o q
    <2>1. u \in Seq(S) /\ Len(u) = Len(s) + p - 1
      BY <1>1
    <2>2. i <= Len(s) => u[i] = s[i] /\ (s \o q1)[i] = s[i]
      BY <1>1, <1>2
    <2>3. i > Len(s) /\ i < Len(s) + p => u[i] = r[i - Len(s)]
      BY <1>1
    <2>4. i > Len(s) => (s \o q1)[i] = r[i - Len(s)]
      BY <1>2
    <2> HIDE DEF u
    <2>5. i < Len(s) + p => Append(u, r[p])[i] = u[i]
      BY <2>1, AppendProperties
    <2>6. i = Len(s) + p => Append(u, r[p])[i] = r[p] /\ i - Len(s) = p
      BY <2>1, AppendProperties
    <2>7. Append(u, r[p])[i] = (s \o q1)[i]
      <3>1. Len(s) \in Nat /\ p \in Nat \ {0} /\ i \in Nat /\ i <= Len(s) + p
        BY LenProperties
      <3>2. CASE i <= Len(s)
        <4>1. i < Len(s) + p
          BY <3>1, <3>2
        <4> QED
          BY <2>2, <2>5, <3>2, <4>1
      <3>3. CASE i > Len(s) /\ i < Len(s) + p
        BY <2>3, <2>4, <2>5, <3>3
      <3>4. CASE i = Len(s) + p
        <4>1. i > Len(s) /\ i - Len(s) = p
          BY <3>1, <3>4
        <4> QED
          BY <2>4, <2>6, <3>4, <4>1
      <3>5. i <= Len(s) \/ (i > Len(s) /\ i < Len(s) + p) \/ i = Len(s) + p
        BY <3>1
      <3> QED
        BY <3>2, <3>3, <3>4, <3>5, Zenon
    <2> QED
      BY <2>7 DEF u
  <1> HIDE DEF t
  <1>6. t = s \o q1
    BY <1>3, <1>4, <1>5, SeqEqual
  <1> QED
    BY <1>6 DEF t, q, q1

\* At the start of a response none of its plans is done.
LEMMA NoPlanYet ==
    ASSUME NEW S, NEW s \in Seq(S), NEW T, NEW r \in Seq(T)
    PROVE  s = s \o SubSeq(r, 1, 1 - 1)
  <1>1. SubSeq(r, 1, 0) = <<>>
    BY SubSeqEmpty
  <1>2. s \o <<>> = s
    BY ConcatEmptySeq
  <1> QED
    BY <1>1, <1>2

\* Whatever the last move made of plan p, the plans before it are a prefix.
LEMMA PlansBeforeAreAPrefix ==
    ASSUME NEW S, NEW s \in Seq(S), NEW r \in Seq(S), NEW p \in 1 .. Len(r), NEW e \in S
    PROVE  LET t == Append(s \o SubSeq(r, 1, p - 1), e)
           IN  /\ Len(t) \in Len(s) + 1 .. Len(s) + Len(r)
               /\ IsPrefix(Front(t), s \o r)
  <1> DEFINE q == SubSeq(r, 1, p - 1)
             u == s \o q
             t == Append(u, e)
  <1>1. /\ q \in Seq(S) /\ Len(q) = p - 1
        /\ \A i \in 1 .. p - 1 : q[i] = r[i]
    BY SubSeqProperties
  <1>2. u \in Seq(S) /\ Len(u) = Len(s) + p - 1 /\ s \o r \in Seq(S)
    BY <1>1
  <1>3. t \in Seq(S) /\ Len(t) = Len(s) + p
    BY <1>2
  <1>4. Front(t) = u
    <2>1. Front(t) = SubSeq(t, 1, Len(u))
      BY <1>2, <1>3 DEF Front
    <2>2. t = u \o <<e>>
      BY <1>2, AppendIsConcat
    <2>3. SubSeq(u, 1, Len(u)) = u
      BY <1>2, SubSeqFull
    <2>4. SubSeq(t, 1, Len(u)) \in Seq(S) /\ Len(SubSeq(t, 1, Len(u))) = Len(u)
      BY <1>2, <1>3, SubSeqProperties
    <2>5. \A i \in 1 .. Len(u) : SubSeq(t, 1, Len(u))[i] = u[i]
      BY <1>2, <1>3, SubSeqProperties, AppendProperties
    <2> HIDE DEF u, t
    <2> QED
      BY <2>1, <2>4, <2>5, <1>2, SeqEqual
  <1>5. IsPrefix(u, s \o r)
    <2>1. Len(u) <= Len(s \o r)
      BY <1>2
    <2>2. SubSeq(u, 1, Len(u)) = u
      BY <1>2, SubSeqFull
    <2> DEFINE v == SubSeq(s \o r, 1, Len(u))
    <2>3. v \in Seq(S) /\ Len(v) = Len(u)
      BY <1>2, <2>1, SubSeqProperties
    <2>4. ASSUME NEW i \in 1 .. Len(u) PROVE v[i] = u[i]
      <3>1. v[i] = (s \o r)[i]
        BY <1>2, <2>1, SubSeqProperties
      <3> HIDE DEF v
      <3>2. CASE i <= Len(s)
        BY <3>1, <3>2, <1>1, <1>2
      <3>3. CASE i > Len(s)
        BY <3>1, <3>3, <1>1, <1>2
      <3> QED
        BY <3>2, <3>3, <1>2
    <2> HIDE DEF u, v
    <2>5. v = u
      BY <2>3, <2>4, <1>2, SeqEqual
    <2> QED
      BY <2>1, <2>2, <2>5 DEF IsPrefix, v
  <1> HIDE DEF u
  <1>6. Len(t) \in Len(s) + 1 .. Len(s) + Len(r)
    BY <1>3
  <1> QED
    BY <1>4, <1>5, <1>6 DEF u
LEMMA AtomInit == Init => AtomInv
  BY DEF Init, NoFiles, AtomInv, SequencesOK, StoredSoFar, ExecutedSoFar

\* A plan of a response is a plan of the simulator's state.
LEMMA WholePlansArePlans == Seq(WholePlan) \subseteq Seq(Plan)
  <1>1. WholePlan \subseteq Plan
    BY DEF WholePlan, Plan
  <1> QED
    BY <1>1

LEMMA WholePlans ==
    ASSUME NEW p \in WholePlan
    PROVE  /\ p = [p EXCEPT !.whole = TRUE]
           /\ \A whole \in BOOLEAN : [p EXCEPT !.whole = whole] \in Plan
  BY DEF WholePlan, Plan

LEMMA AtomStep == AtomInv /\ [Next]_vars => AtomInv'
  <1> SUFFICES ASSUME AtomInv, [Next]_vars PROVE AtomInv'
    OBVIOUS
  <1>0. SequencesOK /\ StoredSoFar /\ ExecutedSoFar
    BY DEF AtomInv
  <1> USE DEF AtomInv
  <1>1. CASE StartFresh \/ StartContinued \/ EndRun
    <2>1. CASE StartFresh
      BY <1>0, <2>1
      DEF StartFresh, BeginRun, NoFiles, SequencesOK, StoredSoFar, ExecutedSoFar
    <2>2. CASE StartContinued
      <3>1. /\ saved.step \in Nat /\ saved.env \in Seq(Plan)
            /\ saved.plans \in Seq(WholePlan)
        BY <1>0 DEF SequencesOK
      <3> QED
        BY <1>0, <2>2, <3>1
        DEF StartContinued, BeginRun, SequencesOK, StoredSoFar, ExecutedSoFar
    <2>3. CASE EndRun
      <3>1. NoFiles \in [step : Nat, env : Seq(Plan), plans : Seq(WholePlan), exists : BOOLEAN]
        BY DEF NoFiles
      <3>2. CASE UNCHANGED <<env, saved, run_vars>> /\ pc' = "off"
        BY <1>0, <2>3, <3>2
        DEF EndRun, run_vars, SequencesOK, StoredSoFar, ExecutedSoFar
      <3>3. CASE BeginRun(0, <<>>) /\ saved' = NoFiles
        BY <1>0, <2>3, <3>1, <3>3
        DEF EndRun, BeginRun, SequencesOK, StoredSoFar, ExecutedSoFar
      <3> QED
        BY <2>3, <3>2, <3>3 DEF EndRun
    <2> QED
      BY <1>1, <2>1, <2>2, <2>3
  <1>2. CASE Die \/ OutOfSteps
    BY <1>0, <1>2 DEF Die, OutOfSteps, run_vars, SequencesOK, StoredSoFar, ExecutedSoFar
  <1>3. CASE Call
    BY <1>0, <1>3 DEF Call, run_vars, SequencesOK, StoredSoFar, ExecutedSoFar
  <1>4. CASE Object
    BY <1>0, <1>4 DEF Object, SequencesOK, StoredSoFar, ExecutedSoFar
  <1>5. CASE StartStep
    <2>1. /\ sim_data' = env /\ env' = env /\ step' = step
          /\ saved' = [step |-> step, env |-> env, plans |-> loaded, exists |-> TRUE]
          /\ loaded' = <<>>
      BY <1>5 DEF StartStep
    <2>2. CASE loaded = <<>>
      BY <1>0, <1>5, <2>1, <2>2 DEF StartStep, SequencesOK, StoredSoFar, ExecutedSoFar
    <2>3. CASE loaded # <<>>
      <3>1. pc' = "planning" /\ response' = loaded /\ plan' = 1
        BY <1>5, <2>3 DEF StartStep
      <3>2. SequencesOK'
        BY <1>0, <2>1, <3>1 DEF SequencesOK
      <3>3. plan' \in 1 .. Len(response')
        BY <1>0, <2>3, <3>1 DEF SequencesOK
      <3>4. env' = sim_data' \o SubSeq(response', 1, plan' - 1)
        <4>1. env = env \o SubSeq(loaded, 1, 1 - 1)
          BY <1>0, NoPlanYet DEF SequencesOK
        <4> QED
          BY <2>1, <3>1, <4>1
      <3> QED
        BY <3>1, <3>2, <3>3, <3>4 DEF StoredSoFar, ExecutedSoFar
    <2> QED
      BY <2>2, <2>3
  <1>6. CASE Accept
    <2>1. PICK n \in 1 .. MaxPlans :
              response' = [k \in 1 .. n |-> [step |-> step, plan |-> k, whole |-> TRUE]]
      BY <1>6 DEF Accept
    <2>2. response' \in Seq(WholePlan) /\ Len(response') = n
      BY <1>0, <2>1, PrompterAssumption DEF WholePlan, SequencesOK
    <2>3. /\ pc = "judging" /\ plan' = 1
          /\ pc' = IF args.output = "path" THEN "storing" ELSE "planning"
          /\ UNCHANGED <<env, saved, loaded, step, sim_data>>
      BY <1>6 DEF Accept
    <2>4. saved.plans = <<>> /\ env = sim_data
      BY <1>0, <2>3 DEF StoredSoFar, ExecutedSoFar
    <2>5. SubSeq(response', 1, 0) = <<>>
      BY <2>2, SubSeqEmpty
    <2>9. sim_data = sim_data \o SubSeq(response', 1, 1 - 1)
      BY <1>0, <2>2, NoPlanYet DEF SequencesOK
    <2>6. SequencesOK'
      BY <1>0, <2>2, <2>3 DEF SequencesOK
    <2>7. StoredSoFar'
      BY <2>1, <2>2, <2>3, <2>4, <2>5 DEF StoredSoFar
    <2>8. ExecutedSoFar'
      BY <2>2, <2>3, <2>4, <2>9 DEF ExecutedSoFar
    <2> QED
      BY <2>6, <2>7, <2>8
  <1>7. CASE Store
    <2> DEFINE m == Len(saved.plans)
    <2>1. /\ pc = "storing"
          /\ saved' = [saved EXCEPT !.plans = Append(saved.plans, response[m + 1])]
          /\ pc' = IF saved'.plans = response THEN "planning" ELSE "storing"
          /\ UNCHANGED <<env, loaded, step, sim_data, response, plan>>
      BY <1>7 DEF Store, run_vars
    <2>2. /\ saved.plans \in Seq(WholePlan) /\ response \in Seq(WholePlan)
          /\ m \in Nat /\ m + 1 \in 1 .. Len(response)
          /\ saved.plans = SubSeq(response, 1, m)
          /\ plan = 1 /\ env = sim_data
      BY <1>0, <2>1 DEF SequencesOK, StoredSoFar, ExecutedSoFar
    <2>3. saved'.plans = Append(saved.plans, response[m + 1])
      BY <1>0, <2>1 DEF SequencesOK
    <2>4. saved'.plans \in Seq(WholePlan) /\ Len(saved'.plans) = m + 1
      BY <2>2, <2>3
    <2>5. saved'.plans = SubSeq(response, 1, m + 1)
      <3>1. SubSeq(response, 1, m + 1) = SubSeq(response, 1, m) \o <<response[m + 1]>>
        BY <2>2, SubSeqRecursiveSecond
      <3>2. response[m + 1] \in WholePlan
        BY <2>2
      <3>3. saved'.plans = saved.plans \o <<response[m + 1]>>
        BY <2>2, <2>3, <3>2, AppendIsConcat
      <3> QED
        BY <2>2, <3>1, <3>3
    <2>6. SequencesOK'
      BY <1>0, <2>1, <2>3, <2>4 DEF SequencesOK
    <2>7. StoredSoFar'
      <3>1. m + 1 = Len(response) => saved'.plans = response
        BY <2>2, <2>5, SubSeqFull
      <3> QED
        BY <2>1, <2>2, <2>4, <2>5, <3>1 DEF StoredSoFar
    <2>8. sim_data = sim_data \o SubSeq(response, 1, 1 - 1)
      BY <1>0, NoPlanYet DEF SequencesOK
    <2>9. ExecutedSoFar'
      BY <2>1, <2>2, <2>8 DEF ExecutedSoFar
    <2> QED
      BY <2>6, <2>7, <2>9
  <1>8. CASE ExecutePlan \/ ExecuteSkill
    <2>1. /\ pc = "planning" /\ plan' = plan + 1
          /\ UNCHANGED <<saved, loaded, response>>
      BY <1>8 DEF ExecutePlan, ExecuteSkill
    <2>2. plan \in 1 .. Len(response) /\ env = sim_data \o SubSeq(response, 1, plan - 1)
      BY <1>0, <2>1 DEF ExecutedSoFar
    <2>4. response[plan] \in WholePlan
      BY <1>0, <2>2 DEF SequencesOK
    <2>3. PICK whole \in BOOLEAN :
              /\ env' = Append(env, [response[plan] EXCEPT !.whole = whole])
              /\ \/ Executed
                 \/ whole = TRUE /\ ~LastPlan /\ UNCHANGED <<pc, step, sim_data>>
      <3>1. response[plan] = [response[plan] EXCEPT !.whole = TRUE]
        BY <2>4, WholePlans
      <3>2. CASE ExecutePlan
        BY <3>1, <3>2 DEF ExecutePlan
      <3>3. CASE ExecuteSkill
        BY <3>3 DEF ExecuteSkill
      <3> QED
        BY <1>8, <3>2, <3>3
    <2>5. env' \in Seq(Plan)
      BY <1>0, <2>3, <2>4, WholePlans DEF SequencesOK
    <2>6. CASE Executed
      BY <1>0, <2>1, <2>5, <2>6
      DEF Executed, NextStep, SequencesOK, StoredSoFar, ExecutedSoFar
    <2>7. CASE whole = TRUE /\ ~LastPlan /\ UNCHANGED <<pc, step, sim_data>>
      <3>1. env' = Append(env, response[plan])
        BY <2>3, <2>4, <2>7, WholePlans
      <3>2. env' = sim_data \o SubSeq(response, 1, plan)
        <4>1. sim_data \in Seq(Plan) /\ response \in Seq(Plan)
          BY <1>0, WholePlansArePlans DEF SequencesOK
        <4> QED
          BY <2>2, <3>1, <4>1, OneMorePlan
      <3>3. plan + 1 \in 1 .. Len(response) /\ (plan + 1) - 1 = plan
        BY <1>0, <2>2, <2>7 DEF LastPlan, SequencesOK
      <3> QED
        BY <1>0, <2>1, <2>5, <2>7, <3>2, <3>3
        DEF SequencesOK, StoredSoFar, ExecutedSoFar
    <2> QED
      BY <2>3, <2>6, <2>7
  <1>9. CASE PlanFails
    BY <1>0, <1>9
    DEF PlanFails, Rewind, NextStep, SequencesOK, StoredSoFar, ExecutedSoFar
  <1>10. CASE UNCHANGED vars
    BY <1>0, <1>10 DEF vars, run_vars, SequencesOK, StoredSoFar, ExecutedSoFar
  <1> QED
    BY <1>1, <1>2, <1>3, <1>4, <1>5, <1>6, <1>7, <1>8, <1>9, <1>10 DEF Next
LEMMA FailuresStep == AtomInv /\ FailuresOK /\ [Next]_vars => FailuresOK'
  <1> SUFFICES ASSUME AtomInv, FailuresOK, [Next]_vars PROVE FailuresOK'
    OBVIOUS
  <1>1. ASSUME failed_plans' = <<>> \/ failed_plans' = failed_plans PROVE FailuresOK'
    <2>1. CASE failed_plans' = <<>>
      BY <2>1 DEF FailuresOK
    <2>2. CASE failed_plans' = failed_plans
      BY <2>2 DEF FailuresOK
    <2> QED
      BY <1>1, <2>1, <2>2
  <1>2. CASE PlanFails
    <2>1. failed_plans' = Append(failed_plans, [response |-> response, tried |-> sim_data])
      BY <1>2 DEF PlanFails
    <2>2. response \in Seq(WholePlan) /\ sim_data \in Seq(Plan)
      BY DEF AtomInv, SequencesOK
    <2> QED
      BY <2>1, <2>2 DEF FailuresOK
  <1>3. CASE StartFresh \/ StartContinued \/ EndRun
    BY <1>1, <1>3 DEF StartFresh, StartContinued, Start, EndRun
  <1>4. CASE ExecutePlan \/ ExecuteSkill
    BY <1>1, <1>4 DEF ExecutePlan, ExecuteSkill, Executed, memory
  <1>5. CASE UNCHANGED memory
    BY <1>1, <1>5 DEF memory
  <1> QED
    BY <1>2, <1>3, <1>4, <1>5
    DEF Next, vars, Die, StartStep, OutOfSteps, Call, Accept, Object, Store

LEMMA ResponsesAreWhole == AtomInv /\ FailuresOK /\ [Next]_vars => [WhatResponsesDo]_vars
  <1> SUFFICES ASSUME AtomInv, FailuresOK, Next, pc = "planning", pc' \in {"step", "end"}
               PROVE  \/ env' = sim_data /\ Len(failed_plans') = Len(failed_plans) + 1
                      \/ /\ \/ env' = sim_data \o response
                            \/ /\ args.output = "skill" /\ outcome' # "open"
                               /\ Len(env') \in Len(sim_data) + 1
                                                  .. Len(sim_data) + Len(response)
                               /\ IsPrefix(Front(env'), sim_data \o response)
                         /\ round_history' = Append(round_history, response)
    BY DEF WhatResponsesDo
  <1>1. /\ sim_data \in Seq(Plan) /\ response \in Seq(Plan)
        /\ plan \in 1 .. Len(response) /\ response[plan] \in WholePlan
        /\ env = sim_data \o SubSeq(response, 1, plan - 1)
    BY WholePlansArePlans DEF AtomInv, SequencesOK, ExecutedSoFar
  <1>2. CASE ExecutePlan
    <2>1. LastPlan /\ round_history' = Append(round_history, response)
      BY <1>2 DEF ExecutePlan, Executed
    <2>2. env' = sim_data \o SubSeq(response, 1, plan)
      BY <1>1, <1>2, OneMorePlan DEF ExecutePlan
    <2>3. SubSeq(response, 1, plan) = response
      BY <1>1, <2>1, SubSeqFull DEF LastPlan
    <2> QED
      BY <2>1, <2>2, <2>3
  <1>3. CASE ExecuteSkill
    <2>1. PICK o \in Outcomes, whole \in BOOLEAN :
              /\ o = "open" => whole
              /\ env' = Append(env, [response[plan] EXCEPT !.whole = whole])
              /\ o # "open" \/ LastPlan
              /\ outcome' = o /\ round_history' = Append(round_history, response)
      BY <1>3 DEF ExecuteSkill, Executed
    <2>2. CASE o = "open"
      <3>1. env' = Append(env, response[plan])
        BY <1>1, <2>1, <2>2, WholePlans
      <3>2. env' = sim_data \o SubSeq(response, 1, plan)
        BY <1>1, <3>1, OneMorePlan
      <3>3. SubSeq(response, 1, plan) = response
        BY <1>1, <2>1, <2>2, SubSeqFull DEF LastPlan
      <3> QED
        BY <2>1, <3>2, <3>3
    <2>3. CASE o # "open"
      <3>1. args.output = "skill"
        BY <1>3 DEF ExecuteSkill
      <3>2. [response[plan] EXCEPT !.whole = whole] \in Plan
        BY <1>1, WholePlans
      <3>3. /\ Len(env') \in Len(sim_data) + 1 .. Len(sim_data) + Len(response)
            /\ IsPrefix(Front(env'), sim_data \o response)
        BY <1>1, <2>1, <3>2, PlansBeforeAreAPrefix
      <3> QED
        BY <2>1, <2>3, <3>1, <3>3
    <2> QED
      BY <2>2, <2>3
  <1>4. CASE PlanFails
    <2>1. failed_plans' = Append(failed_plans, [response |-> response, tried |-> sim_data])
      BY <1>4 DEF PlanFails
    <2> QED
      BY <1>4, <2>1 DEF PlanFails, Rewind, FailuresOK
  <1> QED
    BY <1>2, <1>3, <1>4
    DEF Next, StartFresh, StartContinued, Start, Die, EndRun, StartStep, OutOfSteps, Call,
        Accept, Object, Store

\* A response is executed to its end (in skill mode to the move that ends the task) and
\* reported as executed, or the simulator is back before its first plan and the response
\* reported as failed (LLMRunner.one_run, its rewind and RRTSkillExecutor.execute).
THEOREM ResponsesAreAlwaysAtomic == Spec => ResponsesAreAtomic
  <1>1. Spec => [](AtomInv /\ FailuresOK)
    <2>1. Init => FailuresOK
      BY DEF Init, FailuresOK
    <2> QED
      BY <2>1, AtomInit, AtomStep, FailuresStep, PTL DEF Spec
  <1>2. Spec => [][WhatResponsesDo]_vars
    BY <1>1, ResponsesAreWhole, PTL DEF Spec
  <1> QED
    BY <1>2 DEF ResponsesAreAtomic, WhatResponsesDo
-----------------------------------------------------------------------------
(* What the prompts say of the past.  The state after the executed          *)
(* responses is where the simulator is from the head of the loop to the     *)
(* first plan, where it is rewound to, and where the failed plans failed.   *)
(* First, what concatenating one more response to the executed ones does.   *)

\* Induction over the natural numbers, with the property as a set.
LEMMA EveryNumber ==
    ASSUME NEW S, 0 \in S, \A n \in Nat : n \in S => n + 1 \in S
    PROVE  \A n \in Nat : n \in S
  <1> SUFFICES ASSUME NEW m \in Nat, m \notin S PROVE FALSE
    OBVIOUS
  <1> DEFINE T == Nat \ S
  <1>1. T \subseteq Nat /\ T # {}
    OBVIOUS
  <1>2. PICK x \in T : \A y \in T : <<y, x>> \notin OpToRel(<, Nat)
    <2> HIDE DEF T
    <2> QED
      BY <1>1, WFMin, NatLessThanWellFounded
  <1>3. x \in Nat /\ x \notin S /\ x # 0
    OBVIOUS
  <1>4. x - 1 \in Nat /\ x - 1 < x /\ (x - 1) + 1 = x
    BY <1>3
  <1>5. x - 1 \in S
    BY <1>2, <1>4 DEF OpToRel
  <1> QED
    BY <1>3, <1>4, <1>5

\* g holds the concatenations of the first parts of s, up to n of them.
Flattens(g, s, n) == g = [i \in 1 .. n |-> IF i = 1 THEN s[i] ELSE g[i - 1] \o s[i]]

LEMMA FlattensAt ==
    ASSUME NEW g, NEW s, NEW n, Flattens(g, s, n), NEW i \in 1 .. n
    PROVE  g[i] = IF i = 1 THEN s[i] ELSE g[i - 1] \o s[i]
  BY Zenon DEF Flattens

LEMMA FlattensExists ==
    ASSUME NEW s, NEW m \in Nat
    PROVE  \E g : Flattens(g, s, m)
  <1> DEFINE S == {n \in Nat : \E g : Flattens(g, s, n)}
  <1>1. 0 \in S
    <2>1. Flattens([i \in 1 .. 0 |-> s], s, 0)
      BY DEF Flattens
    <2> QED
      BY <2>1
  <1>2. ASSUME NEW n \in Nat, n \in S PROVE n + 1 \in S
    <2>1. PICK g : Flattens(g, s, n)
      BY <1>2
    <2> DEFINE h == [i \in 1 .. n + 1 |->
                       IF i <= n THEN g[i] ELSE IF i = 1 THEN s[i] ELSE g[i - 1] \o s[i]]
    <2>2. ASSUME NEW i \in 1 .. n + 1 PROVE h[i] = IF i = 1 THEN s[i] ELSE h[i - 1] \o s[i]
      <3>1. CASE i <= n
        <4>1. g[i] = IF i = 1 THEN s[i] ELSE g[i - 1] \o s[i]
          BY <2>1, <3>1, FlattensAt
        <4>2. i # 1 => h[i - 1] = g[i - 1]
          BY <3>1
        <4> QED
          BY <3>1, <4>1, <4>2
      <3>2. CASE i = n + 1
        BY <3>2
      <3> QED
        BY <3>1, <3>2
    <2>3. Flattens(h, s, n + 1)
      <3>1. h = [i \in 1 .. n + 1 |-> h[i]]
        OBVIOUS
      <3> HIDE DEF h
      <3> QED
        BY <2>2, <3>1, Zenon DEF Flattens
    <2> HIDE DEF h
    <2> QED
      BY <2>3
  <1> HIDE DEF S
  <1>3. m \in S
    BY <1>1, <1>2, EveryNumber
  <1> QED
    BY <1>3 DEF S

\* Equal parts have equal concatenations.
LEMMA FlattensAlike ==
    ASSUME NEW s, NEW t, NEW g, NEW h, NEW n \in Nat, NEW m \in Nat, n <= m,
           \A i \in 1 .. n : s[i] = t[i],
           Flattens(g, s, n), Flattens(h, t, m)
    PROVE  \A i \in 1 .. n : g[i] = h[i]
  <1> DEFINE S == {k \in Nat : k \in 1 .. n => g[k] = h[k]}
  <1>1. 0 \in S
    OBVIOUS
  <1>2. ASSUME NEW k \in Nat, k \in S PROVE k + 1 \in S
    <2> SUFFICES ASSUME k + 1 \in 1 .. n PROVE g[k + 1] = h[k + 1]
      OBVIOUS
    <2>1. /\ g[k + 1] = IF k + 1 = 1 THEN s[k + 1] ELSE g[(k + 1) - 1] \o s[k + 1]
          /\ h[k + 1] = IF k + 1 = 1 THEN t[k + 1] ELSE h[(k + 1) - 1] \o t[k + 1]
      BY FlattensAt
    <2>2. (k + 1) - 1 = k /\ (k + 1 # 1 => k \in 1 .. n)
      OBVIOUS
    <2> QED
      BY <1>2, <2>1, <2>2
  <1>3. \A k \in Nat : k \in S
    <2> HIDE DEF S
    <2> QED
      BY <1>1, <1>2, EveryNumber
  <1> QED
    BY <1>3

LEMMA FlattenSeqUnfolds ==
    ASSUME NEW s, Len(s) \in Nat \ {0}
    PROVE  \E g : Flattens(g, s, Len(s)) /\ FlattenSeq(s) = g[Len(s)]
  <1> DEFINE f == CHOOSE g : g = [i \in 1 .. Len(s) |-> IF i = 1 THEN s[i] ELSE g[i - 1] \o s[i]]
  <1>1. Flattens(f, s, Len(s))
    BY FlattensExists DEF Flattens
  <1>2. FlattenSeq(s) = f[Len(s)]
    BY DEF FlattenSeq
  <1> HIDE DEF f
  <1> QED
    BY <1>1, <1>2

LEMMA FlattenSeqIsSeq ==
    ASSUME NEW X, NEW s \in Seq(Seq(X))
    PROVE  FlattenSeq(s) \in Seq(X)
  <1>1. CASE Len(s) = 0
    <2>1. s = <<>> /\ FlattenSeq(s) = <<>>
      BY <1>1, EmptySeq DEF FlattenSeq
    <2> QED
      BY <2>1, EmptySeq
  <1>2. CASE Len(s) # 0
    <2> DEFINE n == Len(s)
    <2>1. n \in Nat \ {0} /\ \A i \in 1 .. n : s[i] \in Seq(X)
      BY <1>2, LenProperties
    <2>2. PICK g : Flattens(g, s, n) /\ FlattenSeq(s) = g[n]
      BY <2>1, FlattenSeqUnfolds
    <2> HIDE DEF n
    <2> DEFINE S == {k \in Nat : k \in 1 .. n => g[k] \in Seq(X)}
    <2>3. 0 \in S
      OBVIOUS
    <2>4. ASSUME NEW k \in Nat, k \in S PROVE k + 1 \in S
      <3> SUFFICES ASSUME k + 1 \in 1 .. n PROVE g[k + 1] \in Seq(X)
        OBVIOUS
      <3>1. g[k + 1] = IF k + 1 = 1 THEN s[k + 1] ELSE g[(k + 1) - 1] \o s[k + 1]
        BY <2>2, FlattensAt
      <3>2. (k + 1) - 1 = k /\ (k + 1 # 1 => k \in 1 .. n)
        BY <2>1
      <3> QED
        BY <2>1, <2>4, <3>1, <3>2
    <2>5. \A k \in Nat : k \in S
      <3> HIDE DEF S
      <3> QED
        BY <2>3, <2>4, EveryNumber
    <2>6. n \in Nat /\ n \in 1 .. n
      BY <2>1
    <2> QED
      BY <2>2, <2>5, <2>6
  <1> QED
    BY <1>1, <1>2

LEMMA FlattenOneMore ==
    ASSUME NEW X, NEW s \in Seq(Seq(X)), NEW r \in Seq(X)
    PROVE  FlattenSeq(Append(s, r)) = FlattenSeq(s) \o r
  <1> DEFINE t == Append(s, r)
             n == Len(s)
  <1>1. /\ t \in Seq(Seq(X)) /\ Len(t) = n + 1 /\ n \in Nat
        /\ \A i \in 1 .. n : s[i] = t[i]
        /\ t[n + 1] = r
    BY AppendProperties, LenProperties
  <1> HIDE DEF t, n
  <1>2. PICK h : Flattens(h, t, n + 1) /\ FlattenSeq(t) = h[n + 1]
    BY <1>1, FlattenSeqUnfolds
  <1>3. h[n + 1] = IF n + 1 = 1 THEN t[n + 1] ELSE h[(n + 1) - 1] \o t[n + 1]
    BY <1>1, <1>2, FlattensAt
  <1>4. CASE n = 0
    <2>1. s = <<>> /\ FlattenSeq(s) = <<>>
      BY <1>4, EmptySeq DEF n, FlattenSeq
    <2>2. <<>> \o r = r
      BY ConcatEmptySeq
    <2> QED
      BY <1>1, <1>2, <1>3, <1>4, <2>1, <2>2 DEF t
  <1>5. CASE n # 0
    <2>1. PICK g : Flattens(g, s, n) /\ FlattenSeq(s) = g[n]
      BY <1>1, <1>5, FlattenSeqUnfolds DEF n
    <2>2. g[n] = h[n]
      <3>1. n \in Nat /\ n + 1 \in Nat /\ n <= n + 1 /\ n \in 1 .. n
        BY <1>1, <1>5
      <3>2. Flattens(g, s, n)
        BY <2>1 DEF n
      <3>3. \A k, m \in Nat : k <= m /\ Flattens(g, s, k) /\ Flattens(h, t, m)
                              /\ (\A i \in 1 .. k : s[i] = t[i])
                              => \A i \in 1 .. k : g[i] = h[i]
        BY FlattensAlike
      <3>4. \A i \in 1 .. n : s[i] = t[i]
        BY <1>1
      <3>5. \A i \in 1 .. n : g[i] = h[i]
        BY <1>2, <3>1, <3>2, <3>3, <3>4, Zenon
      <3> QED
        BY <3>1, <3>5
    <2>3. (n + 1) - 1 = n /\ n + 1 # 1
      BY <1>1, <1>5
    <2> QED
      BY <1>1, <1>2, <1>3, <2>1, <2>2, <2>3 DEF t
  <1> QED
    BY <1>4, <1>5

-----------------------------------------------------------------------------
Remembered == base \o FlattenSeq(round_history)

PastOK == base \in Seq(Plan) /\ round_history \in Seq(Seq(Plan))

PastInv ==
    /\ PastOK
    /\ pc \in {"step", "calling", "judging", "storing"} => env = Remembered
    /\ pc \in {"calling", "judging", "storing", "planning"} => sim_data = Remembered
    /\ pc \notin {"off", "end"} =>
           \A k \in DOMAIN failed_plans : failed_plans[k].tried = Remembered

LEMMA NothingRemembered ==
    ASSUME NEW S, NEW s \in Seq(S)
    PROVE  s \o FlattenSeq(<<>>) = s
  <1>1. FlattenSeq(<<>>) = <<>>
    BY DEF FlattenSeq
  <1> QED
    BY <1>1, ConcatEmptySeq

\* An executed response is remembered after the ones before it.
LEMMA OneMoreRemembered ==
    ASSUME PastOK, response \in Seq(Plan), base' = base,
           round_history' = Append(round_history, response)
    PROVE  Remembered' = Remembered \o response
  <1>1. FlattenSeq(round_history') = FlattenSeq(round_history) \o response
    BY FlattenOneMore DEF PastOK
  <1>2. FlattenSeq(round_history) \in Seq(Plan)
    BY FlattenSeqIsSeq DEF PastOK
  <1>3. base \o (FlattenSeq(round_history) \o response)
            = (base \o FlattenSeq(round_history)) \o response
    <2> DEFINE f == FlattenSeq(round_history)
    <2>1. base \in Seq(Plan) /\ f \in Seq(Plan)
      BY <1>2 DEF PastOK
    <2> HIDE DEF f
    <2>2. base \o (f \o response) = (base \o f) \o response
      BY <2>1, ConcatAssociative
    <2> QED
      BY <2>2 DEF f
  <1> QED
    BY <1>1, <1>3 DEF Remembered

LEMMA PastInit == Init => PastInv
  BY DEF Init, PastInv, PastOK, Remembered

LEMMA PastStep == AtomInv /\ FailuresOK /\ PastInv /\ [Next]_vars => PastInv'
  <1> SUFFICES ASSUME AtomInv, FailuresOK, PastInv, [Next]_vars PROVE PastInv'
    OBVIOUS
  <1> USE DEF PastInv
  <1>0. SequencesOK
    BY DEF AtomInv
  <1>1. ASSUME base' = env', base' \in Seq(Plan), round_history' = <<>>, failed_plans' = <<>>,
               pc' = "step"
        PROVE  PastInv'
    <2>1. Remembered' = base'
      BY <1>1, NothingRemembered DEF Remembered
    <2> QED
      BY <1>1, <2>1 DEF PastOK
  <1>2. CASE StartFresh
    BY <1>1, <1>2 DEF StartFresh, Start, BeginRun
  <1>3. CASE StartContinued
    <2>1. saved.env \in Seq(Plan)
      BY <1>0 DEF SequencesOK
    <2> QED
      BY <1>1, <1>3, <2>1 DEF StartContinued, Start, BeginRun
  <1>4. CASE EndRun
    <2>1. CASE BeginRun(0, <<>>)
      BY <1>1, <1>4, <2>1 DEF EndRun, BeginRun
    <2>2. CASE pc' = "off" /\ base' = base
      BY <1>4, <2>2 DEF EndRun, PastOK
    <2> QED
      BY <1>4, <2>1, <2>2 DEF EndRun
  <1>5. CASE Die \/ OutOfSteps
    BY <1>5 DEF Die, OutOfSteps, memory, process_vars, PastOK
  <1>6. ASSUME UNCHANGED <<base, round_history, failed_plans, env>>
        PROVE  PastOK' /\ Remembered' = Remembered
    BY <1>6 DEF PastOK, Remembered
  <1>7. CASE StartStep
    <2>1. /\ pc = "step" /\ pc' \in {"calling", "planning"} /\ sim_data' = env
          /\ UNCHANGED <<base, round_history, failed_plans, env>>
      BY <1>7 DEF StartStep, memory, process_vars
    <2> QED
      BY <1>6, <2>1
  <1>8. CASE Call \/ Accept \/ Object \/ Store
    <2>1. /\ pc \in {"calling", "judging", "storing"}
          /\ pc' \in {"step", "calling", "judging", "storing", "planning"}
          /\ UNCHANGED <<base, round_history, failed_plans, env, sim_data>>
      BY <1>8 DEF Call, Accept, Object, Store, memory, process_vars, run_vars
    <2> QED
      BY <1>6, <2>1
  <1>9. CASE ExecutePlan \/ ExecuteSkill
    <2>1. pc = "planning" /\ base' = base
      BY <1>9 DEF ExecutePlan, ExecuteSkill, process_vars
    <2>2. CASE Executed
      <3>1. /\ round_history' = Append(round_history, response) /\ failed_plans' = <<>>
            /\ sim_data' = env'
            /\ pc' = IF outcome' # "open" THEN "end" ELSE "step"
        BY <2>2 DEF Executed, NextStep
      <3>2. response \in Seq(Plan)
        BY <1>0, WholePlansArePlans DEF SequencesOK
      <3>3. PastOK'
        BY <2>1, <3>1, <3>2 DEF PastOK
      <3>4. CASE outcome' # "open"
        BY <3>1, <3>3, <3>4
      <3>5. CASE outcome' = "open"
        <4>1. Len(failed_plans') # Len(failed_plans) + 1
          BY <3>1 DEF FailuresOK
        <4>2. WhatResponsesDo
          <5>1. ~ UNCHANGED vars
            BY <2>1, <3>1, <3>5 DEF vars
          <5> QED
            BY <5>1, ResponsesAreWhole
        <4>3. env' = sim_data \o response
          BY <2>1, <3>1, <3>5, <4>1, <4>2 DEF WhatResponsesDo
        <4>4. Remembered' = Remembered \o response
          BY <2>1, <3>1, <3>2, OneMoreRemembered
        <4> QED
          BY <2>1, <3>1, <3>3, <3>5, <4>3, <4>4
      <3> QED
        BY <3>4, <3>5
    <2>3. CASE UNCHANGED <<pc, sim_data, memory>>
      <3>1. Remembered' = Remembered /\ PastOK'
        BY <2>1, <2>3 DEF memory, Remembered, PastOK
      <3> QED
        BY <2>1, <2>3, <3>1 DEF memory
    <2> QED
      BY <1>9, <2>2, <2>3 DEF ExecutePlan, ExecuteSkill
  <1>10. CASE PlanFails
    <2>1. /\ pc = "planning" /\ env' = sim_data
          /\ failed_plans' = Append(failed_plans, [response |-> response, tried |-> sim_data])
          /\ pc' \in {"step", "end"}
          /\ UNCHANGED <<base, round_history>>
      BY <1>10 DEF PlanFails, Rewind, NextStep, process_vars
    <2>2. PastOK' /\ Remembered' = Remembered
      BY <2>1 DEF PastOK, Remembered
    <2>3. \A k \in DOMAIN failed_plans' : failed_plans'[k].tried = Remembered
      <3> SUFFICES ASSUME NEW k \in DOMAIN failed_plans'
                   PROVE  failed_plans'[k].tried = Remembered
        OBVIOUS
      <3>1. sim_data = Remembered
        BY <2>1
      <3>2. CASE k \in DOMAIN failed_plans
        BY <2>1, <3>2 DEF FailuresOK
      <3>3. CASE k \notin DOMAIN failed_plans
        BY <2>1, <3>1, <3>3 DEF FailuresOK
      <3> QED
        BY <3>2, <3>3
    <2> QED
      BY <2>1, <2>2, <2>3
  <1>11. CASE UNCHANGED vars
    BY <1>6, <1>11 DEF vars, run_vars, memory
  <1> QED
    BY <1>2, <1>3, <1>4, <1>5, <1>7, <1>8, <1>9, <1>10, <1>11 DEF Next

\* At the head of the loop, and while a response is asked for, the responses the prompt
\* lists as executed are what took the simulator from where the run began to where it is,
\* and the plans it lists as failed are the ones that failed from here
\* (LLMRunner.one_run and the prompters' post_execute_update).
THEOREM PromptsAlwaysRememberThePast == Spec => []PromptsRememberThePast
  <1>1. AtomInv /\ FailuresOK /\ PastInv => PromptsRememberThePast
    BY DEF PastInv, PromptsRememberThePast, Prompt, Remembered
  <1>2. Init => FailuresOK
    BY DEF Init, FailuresOK
  <1> QED
    BY <1>1, <1>2, AtomInit, AtomStep, FailuresStep, PastInit, PastStep, PTL DEF Spec
=============================================================================
