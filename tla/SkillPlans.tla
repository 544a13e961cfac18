----------------------------- MODULE SkillPlans -----------------------------
(***************************************************************************)
(* From a response to path plans: prompting/skill_parser.py, the registry  *)
(* and the semantic validator of rocobench/skills, the RRT compiler, and   *)
(* the action parser prompting/parser.py that both output modes end in.    *)
(* A path plan is a LLMPathPlan: what every hand does until the next grasp.*)
(***************************************************************************)
EXTENDS TableTop, FiniteSets

Put == "PUT_OBJECT_IN_CONTAINER"
Wait == "WAIT"

Failed(stage) == [ok |-> FALSE, stage |-> stage, plans |-> <<>>]
Parsed(plans) == [ok |-> TRUE, stage |-> "none", plans |-> plans]

-----------------------------------------------------------------------------
(* Skill calls: registry, parser, validator.                               *)

\* build_pack_grocery_skill_registry: the argument names of each skill.
Registry == [skill \in {Put, Wait} |-> IF skill = Put THEN {"object", "container"} ELSE {}]

\* SkillRegistry.validate_call_shape, the codes of its issues.
ShapeIssues(call) ==
    IF call.skill \notin DOMAIN Registry THEN {"UNKNOWN_SKILL"}
    ELSE {c \in {"MISSING_ARGUMENT"} : Registry[call.skill] \ DOMAIN call.arguments # {}}
           \cup {c \in {"UNKNOWN_ARGUMENT"} : DOMAIN call.arguments \ Registry[call.skill] # {}}

\* One line of text after EXECUTE: the agent if it starts with NAME, the skill it
\* calls, the <<key, value>> pairs it adds to the call (Nothing for a key or a value
\* that is missing or is no identifier), and the parentheses it leaves open.
TextLine(agent, skill, pairs, open) ==
    [agent |-> agent, skill |-> skill, pairs |-> pairs, open |-> open]

\* _paren_balance of the lines of one call.
Balance(call) == FoldLeft(LAMBDA n, line : n + line.open, 0, call)

\* _collect_agent_lines: a call goes on over the next lines, even over another agent's,
\* until its parentheses are closed.
Collected(lines) ==
    LET Reading(acc, line) ==
          LET call == Append(acc.current, line)
          IN  IF ~acc.ok \/ (acc.current = <<>> /\ line.agent = Nothing) \/ Balance(call) < 0
              THEN [acc EXCEPT !.ok = FALSE]
              ELSE IF Balance(call) = 0
              THEN [acc EXCEPT !.calls = Append(@, call), !.current = <<>>]
              ELSE [acc EXCEPT !.current = call]
        read == FoldLeft(Reading, [ok |-> TRUE, calls |-> <<>>, current |-> <<>>], lines)
    IN  [ok |-> read.ok /\ read.current = <<>>, calls |-> read.calls]

\* _parse_arguments, of all the pairs of a call.
ArgumentsParse(pairs) ==
    /\ \A n \in DOMAIN pairs : pairs[n][1] # Nothing /\ pairs[n][2] # Nothing
    /\ \A m, n \in DOMAIN pairs : pairs[m][1] = pairs[n][1] => m = n

Arguments(pairs) ==
    [key \in {pairs[n][1] : n \in DOMAIN pairs} |->
        pairs[CHOOSE n \in DOMAIN pairs : pairs[n][1] = key][2]]

PairsOf(call) == FlattenSeq([n \in DOMAIN call |-> call[n].pairs])

\* The SkillCall of the lines of one call.
CallOf(call) ==
    [agent |-> call[1].agent, skill |-> call[1].skill, arguments |-> Arguments(PairsOf(call))]

\* _parse_skill_call: one call of a known skill, well shaped.
CallParses(call) ==
    /\ call[1].skill \in DOMAIN Registry
    /\ \A n \in 2..Len(call) : call[n].agent = Nothing /\ call[n].skill = Nothing
    /\ ArgumentsParse(PairsOf(call))
    /\ ShapeIssues(CallOf(call)) = {}

\* SkillResponseParser: one well shaped call for each agent, put in the agents' order.
SkillLinesParse(response) ==
    LET read == Collected(response.lines)
        agent(n) == read.calls[n][1].agent
    IN  /\ response.execute /\ read.ok
        /\ \A n \in DOMAIN read.calls : agent(n) \in Agents /\ CallParses(read.calls[n])
        /\ \A m, n \in DOMAIN read.calls : agent(m) = agent(n) => m = n
        /\ {agent(n) : n \in DOMAIN read.calls} = Agents

Calls(response) ==
    LET read == Collected(response.lines).calls
    IN  [a \in Agents |-> CallOf(read[CHOOSE n \in DOMAIN read : read[n][1].agent = a])]

Puts(calls) == {a \in Agents : calls[a].skill = Put}

\* PackGrocerySkillPlanValidator.validate on a plan the parser made: the codes of its
\* issues.  A call with an unknown object or target is looked at no further.
Issues(w, calls) ==
    LET object(a) == calls[a].arguments["object"]
        slot(a) == calls[a].arguments["container"]
        known == {a \in Puts(calls) : object(a) \in Items /\ slot(a) \in Slots}
        issue(code, test) == {c \in {code} : test}
    IN  issue("UNKNOWN_OBJECT", \E a \in Puts(calls) : object(a) \notin Items)
          \cup issue("UNKNOWN_TARGET", \E a \in Puts(calls) :
                       object(a) \in Items /\ slot(a) \notin Slots)
          \cup issue("OBJECT_ALREADY_PACKED", \E a \in known : PackedSlot(w, object(a)) # Nothing)
          \cup issue("TARGET_OCCUPIED", \E a \in known : Occupant(w, slot(a)) # Nothing)
          \cup issue("OBJECT_HELD_BY_OTHER_AGENT", \E a \in known : \E b \in Agents \ {a} :
                       Held(w, b) = object(a))
          \cup issue("AGENT_HOLDING_DIFFERENT_OBJECT", \E a \in known :
                       Held(w, a) \notin {Nothing, object(a)})
          \cup issue("RESOURCE_CONFLICT", \E a, b \in known :
                       a # b /\ (object(a) = object(b) \/ slot(a) = slot(b)))
          \cup issue("NO_PROGRESS", known = {})

-----------------------------------------------------------------------------
(* Actions: the parser of PICK, PLACE, PUT, MOVE and WAIT lines.           *)

\* One hand's part of a path plan: where it goes, what it then grasps (on) or lets go
\* of, what it carries on the way, and whether it returns home after.
Part(target, object, on, inhand, home, waypoints, verb) ==
    [target |-> target, object |-> object, on |-> on, inhand |-> inhand, home |-> home,
     waypoints |-> waypoints, verb |-> verb]

\* adjust_inhand_names: contacts[0], contacts being a set: here the first in item order.
InhandOf(w, a) == Held(w, a)

\* get_target_pos: a slot or an item.
TargetPoint(w, name) == At(IF name \in Slots THEN name ELSE Place(w, name))
Targets == Slots \cup Items

\* parse_pick_action
ParsePick(w, a, act) ==
    IF Contacts(w, a) # {} \/ act.object \notin Items
         \/ \E b \in Agents : act.object \in Contacts(w, b)
    THEN Failed("parse")
    ELSE Parsed(<<Part(TargetPoint(w, act.object), act.object, TRUE, Nothing, FALSE,
                       act.path, act.verb)>>)

\* parse_pick_and_place: both are parsed in the scene before the pick, and the second
\* plan has nothing in hand and no waypoints.
ParsePickPlace(w, a, act) ==
    LET pick == ParsePick(w, a, act)
    IN  IF ~pick.ok \/ act.target \notin Targets THEN Failed("parse")
        ELSE Parsed(pick.plans \o
                    <<Part(TargetPoint(w, act.target), act.object, FALSE, Nothing, TRUE,
                           <<>>, act.verb)>>)

\* parse_place_action
ParsePlace(w, a, act) ==
    IF act.object \notin Contacts(w, a) \/ act.target \notin Targets
    THEN Failed("parse")
    ELSE Parsed(<<Part(TargetPoint(w, act.target), act.object, FALSE, InhandOf(w, a), TRUE,
                       act.path, act.verb)>>)

\* parse_put_action: a PLACE that turns the hand as the target says.
ParsePut(w, a, act) ==
    IF act.object \notin Items \cap Contacts(w, a) \/ act.target \notin Targets
    THEN Failed("parse")
    ELSE Parsed(<<Part(TargetPoint(w, act.target), act.object, FALSE, InhandOf(w, a), TRUE,
                       act.path, act.verb)>>)

\* parse_move_action: straight there, whatever path the line gives.
ParseMove(w, a, act) ==
    IF act.target \notin Targets THEN Failed("parse")
    ELSE Parsed(<<Part(TargetPoint(w, act.target), Nothing, FALSE, InhandOf(w, a), FALSE,
                       <<>>, act.verb)>>)

\* parse_wait_action
ParseWait(w, a, act) ==
    Parsed(<<Part(w.hands[a], Nothing, FALSE, InhandOf(w, a), FALSE, act.path, act.verb)>>)

\* parse_single_line
ParseAction(w, a, act) ==
    CASE act.verb = "PICK PLACE" -> ParsePickPlace(w, a, act)
      [] act.verb = "PICK"       -> ParsePick(w, a, act)
      [] act.verb = "PLACE"      -> ParsePlace(w, a, act)
      [] act.verb = "PUT"        -> ParsePut(w, a, act)
      [] act.verb = "MOVE"       -> ParseMove(w, a, act)
      [] act.verb = "WAIT"       -> ParseWait(w, a, act)
      [] OTHER                   -> Failed("parse")

\* LLMResponseParser.parse: one path plan for each of the longest line's; a shorter
\* line has to WAIT (or MOVE), and repeats.  Every hand has as many waypoints.
ParseActions(w, acts) ==
    LET lines == [a \in Agents |-> ParseAction(w, a, acts[a])]
        n == CHOOSE k \in {Len(lines[a].plans) : a \in Agents} :
               \A a \in Agents : Len(lines[a].plans) =< k
        part(a, k) == lines[a].plans[IF Len(lines[a].plans) = n THEN k ELSE 1]
        short(a) == Len(lines[a].plans) # n
    IN  IF \/ \E a \in Agents : ~lines[a].ok
           \/ \E a \in Agents : short(a) /\ acts[a].verb \notin {"WAIT", "MOVE"}
           \/ \E a, b \in Agents, k \in 1..n :
                Len(part(a, k).waypoints) # Len(part(b, k).waypoints)
        THEN Failed("parse")
        ELSE Parsed([k \in 1..n |-> [a \in Agents |-> part(a, k)]])

\* RRTSkillCompiler.build_synthetic_response, then compile().
Synthetic(w, calls) ==
    [a \in Agents |->
        IF calls[a].skill = Wait
        THEN [verb |-> "WAIT", object |-> Nothing, target |-> Nothing, path |-> <<>>]
        ELSE [verb |-> IF Held(w, a) = calls[a].arguments["object"]
                       THEN "PLACE" ELSE "PICK PLACE",
              object |-> calls[a].arguments["object"],
              target |-> calls[a].arguments["container"], path |-> <<>>]]

Compile(w, calls) ==
    LET r == ParseActions(w, Synthetic(w, calls))
    IN  IF r.ok THEN r ELSE Failed("compilation")

-----------------------------------------------------------------------------
(* Path plans: rocobench/subtask_plan.py, and what feedback.py asks.       *)

Goal(plan) == [a \in Agents |-> plan[a].target]

Inhand(plan) == [a \in Agents |-> plan[a].inhand]

\* get_allowed_collision_ids: in hand or to grasp.
Allowed(plan) == [a \in Agents |-> {plan[a].inhand, plan[a].object} \ {Nothing}]

\* convert_waypoints_dict_to_list
Waypoints(plan) ==
    [n \in DOMAIN plan[AgentOrder[1]].waypoints |-> [a \in Agents |-> plan[a].waypoints[n]]]

\* collision_feedback: in the scene as it is, with the plan's own allowances.
PoseCollides(w, plan, c) == Touching(w, Allowed(plan), Inhand(plan), c)

\* single_step_feedback, its reach and collision tests: inverse kinematics may fail
\* besides.
PoseIsFree(w, plan, c, reach) ==
    /\ \A a \in Agents : c[a].base \in reach[a]
    /\ ~PoseCollides(w, plan, c)

-----------------------------------------------------------------------------
(* PlannedPathPolicy: what it makes of a path.                             *)

\* Mutant of Kept: path[-4:-2].
KeptShorter(path, freq) ==
    LET n == Len(path)
    IN  [i \in 1..((n + freq - 1) \div freq) |-> path[(i - 1) * freq + 1]]
          \o SubSeq(path, IF n < 4 THEN 1 ELSE n - 3, n - 2)

\* path[::control_freq] + path[-3:-1]: the end of a path is never kept for itself.
Kept(path, freq) ==
    LET n == Len(path)
    IN  [i \in 1..((n + freq - 1) \div freq) |-> path[(i - 1) * freq + 1]]
          \o SubSeq(path, IF n < 3 THEN 1 ELSE n - 2, n - 1)

\* parse_llm_plan_for_grasp: the hands that grasp or let go at the end of a plan.
Tograsp(plan) == {a \in Agents : plan[a].object # Nothing}

\* Mutant of Grasped: a weld is never switched off.
GraspedForGood(weld, plan) ==
    [a \in Agents |-> IF a \in Tograsp(plan) /\ plan[a].on THEN plan[a].object ELSE weld[a]]

\* get_grasp_action, after which every hand keeps what it has.
Grasped(weld, plan) ==
    [a \in Agents |->
        IF a \notin Tograsp(plan) THEN weld[a]
        ELSE IF plan[a].on THEN plan[a].object ELSE Nothing]

Homecoming(plan, c) ==
    [a \in Agents |-> IF plan[a].home THEN At(a) ELSE c[a]]
=============================================================================
