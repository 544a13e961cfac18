---------------------------- MODULE MotionPlanner ----------------------------
(***************************************************************************)
(* rocobench/rrt.py and the planning half of rrt_multi_arm.py: plan() and  *)
(* plan_splitted() search a collision free path of joint configurations    *)
(* between two configurations of all the arms: a straight line if there is *)
(* one, else two trees grown towards each other (RRT-connect), then        *)
(* shortcuts.  A configuration is a value, and a node of a tree is its     *)
(* retrace(): the configurations from the root to it.                      *)
(***************************************************************************)
EXTENDS Integers, SequencesExt

CONSTANTS
    Configs,              \* joint configurations of all the arms
    Extend,               \* extend_ee_l2: the samples of the line from one to another
    Iterations,           \* iterations of rrt_connect (800)
    Shortcuts             \* iterations of smooth_path (200, and 50 over a splitted path)

extend_ee_l2(a, b) == Extend[<<a, b>>]

\* It samples t = 0 first and clips the last sample to t = 1; it has no
\* sample only when the hands need not move.
ASSUME MotionAssumption ==
    /\ Extend \in [Configs \X Configs -> Seq(Configs)]
    /\ \A a, b \in Configs :
         /\ extend_ee_l2(a, b) = <<>> => a = b
         /\ extend_ee_l2(a, b) # <<>> =>
              /\ Head(extend_ee_l2(a, b)) = a
              /\ Last(extend_ee_l2(a, b)) = b
    /\ Iterations \in Nat /\ Shortcuts \in Nat

VARIABLES
    stage,                \* where plan() is
    query,                \* its arguments
    here,                 \* start of the leg being planned
    leg,                  \* the number of the goal it leads to
    tree,                 \* nodes1 and nodes2: one grows from the start, one from the goal
    grown,                \* their lengths
    first,                \* the tree that is nodes1
    taken,                \* curr_sample_idx of the sampler
    rounds,               \* iterations of the current loop
    line,                 \* the path of the leg, then the whole path when polished
    all_paths,            \* the legs done
    result                \* path (<<>> for None) and reason

leg_vars == <<here, leg>>
search == <<tree, grown, first, taken>>
motion_vars == <<stage, query, leg_vars, search, rounds, line, all_paths, result>>

Sides == {"start", "goal"}
Other(side) == IF side = "start" THEN "goal" ELSE "start"

Queries ==
    [start : Configs, goal : Configs,
     samples : Seq(Configs),        \* init_samples
     drawn : SUBSET Configs,        \* what the sampler may draw after them
     blocked : SUBSET Configs,      \* check_collision() in the physics it was given
     splitted : BOOLEAN,            \* plan_splitted() rather than plan()
     skip_ends : BOOLEAN,           \* skip_endpoint_collision_check
     skip_direct : BOOLEAN, skip_smooth : BOOLEAN]

NoConfig == CHOOSE c \in Configs : TRUE

NoQuery ==
    [start |-> NoConfig, goal |-> NoConfig, samples |-> <<>>, drawn |-> {}, blocked |-> {},
     splitted |-> FALSE, skip_ends |-> FALSE, skip_direct |-> FALSE, skip_smooth |-> FALSE]

NoResult == [path |-> <<>>, reason |-> "none"]

-----------------------------------------------------------------------------
(* Straight lines and trees.                                               *)

Collides(q) == q \in query.blocked

\* The samples of a line before the first that collides: a loop with a break.
ClearPrefix(a, b) ==
    LET l == extend_ee_l2(a, b)
        n == CHOOSE k \in 0..Len(l) :
                /\ \A i \in 1..k : ~Collides(l[i])
                /\ k < Len(l) => Collides(l[k + 1])
    IN  SubSeq(l, 1, n)

\* direct_path
DirectPath(a, b) ==
    LET l == extend_ee_l2(a, b)
    IN  IF Collides(a) \/ Collides(b) \/ \E i \in DOMAIN l : Collides(l[i])
        THEN <<>>
        ELSE <<a>> \o l

\* The distance of two configurations: extend_ee_l2 takes a sample each 6 mm of it.
Distance(a, b) == Len(extend_ee_l2(a, b))

\* closest_node_to_goal
Closest(node, nodes, q) ==
    /\ node \in nodes
    /\ \A m \in nodes : Distance(Last(node), q) =< Distance(Last(m), q)

\* The nodes added below `node` by a greedy extension towards q, and the last of them.
Added(node, q) ==
    LET p == ClearPrefix(Last(node), q)
    IN  {node \o SubSeq(p, 1, i) : i \in 1..Len(p)}

Reached(node, q) == node \o ClearPrefix(Last(node), q)

\* CenterWaypointsUniformSampler: the given samples in order, then random ones; the
\* legs of plan_splitted() are given none.
Given == IF query.splitted THEN <<>> ELSE query.samples

Samples == IF taken < Len(Given) THEN {Given[taken + 1]} ELSE query.drawn

\* Where the legs of plan_splitted() lead: the samples, without those that collide
\* unless nobody looks, last one first, and then the goal, the only one of plan().
InterimGoals ==
    {0} \cup {i \in DOMAIN query.samples :
                query.skip_ends \/ ~Collides(query.samples[i])}

InterimGoal(i) == IF i = 0 THEN query.goal ELSE query.samples[i]

\* path1[:-1] + path2[::-1], path1 being the one that starts at the start.
Joined(path1, path2) == Front(path1) \o Reverse(path2)

-----------------------------------------------------------------------------
(* plan() and plan_splitted().                                             *)

NoSearch ==
    /\ tree' = [side \in Sides |-> {}] /\ grown' = [side \in Sides |-> 0]
    /\ first' = "start" /\ taken' = 0

Answer(path, reason) ==
    /\ stage' = "done" /\ result' = [path |-> path, reason |-> reason]
    /\ NoSearch /\ rounds' = 0 /\ line' = <<>> /\ all_paths' = <<>>
    /\ leg' = 0
    /\ UNCHANGED <<query, here>>

\* A call of plan(), which has one leg, or of plan_splitted().
Call(q) ==
    /\ stage = "idle"
    /\ query' = q /\ here' = q.start /\ leg' = 0
    /\ stage' = IF q.splitted THEN "whole" ELSE "leg"
    /\ UNCHANGED <<search, rounds, line, all_paths, result>>

\* The leg to the first of the waypoints that come after the k-th.
NextLeg(k) ==
    /\ stage' = "leg"
    /\ \E i \in InterimGoals :
         i < k /\ (\A j \in InterimGoals : j < k => j =< i) /\ leg' = i

\* plan_splitted() tries the whole line, checks the goal, drops the samples that
\* collide, and goes through the others.
WholeLine ==
    LET straight == DirectPath(query.start, query.goal)
        direct == ~query.skip_direct /\ straight # <<>>
        refused == ~query.skip_ends /\ Collides(query.goal)
    IN  /\ stage = "whole"
        /\ \/ direct /\ Answer(straight, "Direct")
           \/ ~direct /\ refused /\ Answer(<<>>, "CollisionAtGoal")
           \/ /\ ~direct /\ ~refused
              /\ NextLeg(Len(query.samples) + 1)
              /\ UNCHANGED <<query, here, search, rounds, line, all_paths, result>>

\* birrt() returned the path p of a leg.
LegDone(p) ==
    \/ /\ leg = 0 /\ query.splitted /\ ~query.skip_smooth
       /\ stage' = "polish" /\ line' = all_paths \o p /\ all_paths' = <<>>
       /\ NoSearch /\ rounds' = 0
       /\ UNCHANGED <<query, leg_vars, result>>
    \/ /\ leg = 0 /\ ~(query.splitted /\ ~query.skip_smooth)
       /\ Answer(all_paths \o p, "Success")
    \/ /\ leg > 0
       /\ NextLeg(leg) /\ here' = InterimGoal(leg) /\ all_paths' = all_paths \o p
       /\ NoSearch /\ rounds' = 0 /\ line' = <<>>
       /\ UNCHANGED <<query, result>>

\* The checks of both ends, then birrt() up to the loop of rrt_connect().
StartLeg ==
    LET goal == InterimGoal(leg)
        started == query.skip_ends \/ ~Collides(here)
        straight == DirectPath(here, goal)
        direct == ~query.skip_direct /\ straight # <<>>
    IN  /\ stage = "leg"
        /\ \/ ~started /\ Answer(<<>>, "CollisionAtStart")
           \/ started /\ Collides(goal) /\ Answer(<<>>, "CollisionAtGoal")
           \/ started /\ ~Collides(goal) /\ direct /\ LegDone(straight)
           \/ /\ started /\ ~Collides(goal) /\ ~direct
              /\ stage' = "grow" /\ rounds' = 0
              /\ tree' = [start |-> {<<here>>}, goal |-> {<<goal>>}]
              /\ grown' = [side \in Sides |-> 1] /\ first' = "start" /\ taken' = 0
              /\ UNCHANGED <<query, leg_vars, line, all_paths, result>>

-----------------------------------------------------------------------------
(* The loops of rrt_connect() and smooth_path().                           *)

\* The smaller tree grows towards a sample as far as nothing collides, then the
\* other one towards what it reached.
Grow ==
    LET one == IF grown[first] > grown[Other(first)] THEN Other(first) ELSE first
        two == Other(one)
    IN  /\ stage = "grow" /\ rounds < Iterations
        /\ \E q \in Samples, n1 \in tree[one], n2 \in tree[two] :
             LET last1 == Reached(n1, q)
                 last2 == Reached(n2, Last(last1))
             IN  /\ Closest(n1, tree[one], q)
                 /\ Closest(n2, tree[two], Last(last1))
                 /\ \/ /\ Last(last1) # Last(last2)
                       /\ tree' = [tree EXCEPT ![one] = @ \cup Added(n1, q),
                                               ![two] = @ \cup Added(n2, Last(last1))]
                       /\ grown' = [grown EXCEPT ![one] = @ + Len(last1) - Len(n1),
                                                 ![two] = @ + Len(last2) - Len(n2)]
                       /\ first' = one /\ rounds' = rounds + 1
                       /\ taken' = IF taken < Len(Given) THEN taken + 1 ELSE taken
                       /\ UNCHANGED <<stage, query, leg_vars, line, all_paths, result>>
                    \/ /\ Last(last1) = Last(last2)
                       /\ LET p == IF one = "start" THEN Joined(last1, last2)
                                   ELSE Joined(last2, last1)
                          IN  \/ query.skip_smooth /\ LegDone(p)
                              \/ /\ ~query.skip_smooth
                                 /\ stage' = "smooth" /\ line' = p /\ rounds' = 0
                                 /\ NoSearch
                                 /\ UNCHANGED <<query, leg_vars, all_paths, result>>

\* Out of time, or of iterations.
GiveUp ==
    /\ stage = "grow"
    /\ \/ rounds < Iterations /\ Answer(<<>>, "Timeout")
       \/ rounds = Iterations /\ Answer(<<>>, "MaxIteration")

\* Mutant of Shortcut: a shortcut is taken unchecked.
ShortcutUnchecked(i, j) ==
    LET cut == extend_ee_l2(line[i], line[j])
    IN  IF Len(cut) < j - i THEN SubSeq(line, 1, i) \o cut \o SubSeq(line, j + 1, Len(line))
        ELSE line

\* A shortcut from the i-th configuration to the j-th.
Shortcut(i, j) ==
    LET cut == extend_ee_l2(line[i], line[j])
    IN  IF Len(cut) < j - i /\ \A k \in DOMAIN cut : ~Collides(cut[k])
        THEN SubSeq(line, 1, i) \o cut \o SubSeq(line, j + 1, Len(line))
        ELSE line

Smooth ==
    /\ stage \in {"smooth", "polish"} /\ rounds < Shortcuts /\ Len(line) > 2
    /\ rounds' = rounds + 1
    /\ \E i, j \in 1..(Len(line) - 1) :
         \/ i + 1 < j /\ line' = Shortcut(i, j)
         \/ i =< j /\ j =< i + 1 /\ line' = line
    /\ UNCHANGED <<stage, query, leg_vars, search, all_paths, result>>

Smoothed ==
    /\ rounds = Shortcuts \/ Len(line) =< 2
    /\ \/ stage = "smooth" /\ LegDone(line)
       \/ stage = "polish" /\ Answer(line, "Smoothed")

\* The caller has the answer.
Return ==
    /\ stage = "done" /\ stage' = "idle"
    /\ query' = NoQuery /\ result' = NoResult /\ here' = NoQuery.start
    /\ UNCHANGED <<leg, search, rounds, line, all_paths>>

PlanningStep == WholeLine \/ StartLeg \/ Grow \/ GiveUp \/ Smooth \/ Smoothed

MotionInit ==
    /\ stage = "idle" /\ query = NoQuery /\ here = NoQuery.start /\ leg = 0
    /\ tree = [side \in Sides |-> {}] /\ grown = [side \in Sides |-> 0]
    /\ first = "start" /\ taken = 0 /\ rounds = 0
    /\ line = <<>> /\ all_paths = <<>> /\ result = NoResult

MotionNext == (\E q \in Queries : Call(q)) \/ PlanningStep \/ Return

MotionSpec == MotionInit /\ [][MotionNext]_motion_vars

-----------------------------------------------------------------------------
(* Properties.                                                             *)

\* Two configurations next to each other on some straight line, or the same one:
\* what one control step may span.
LineLinks ==
    UNION {LET l == Extend[ab] IN {<<l[i], l[i + 1]>> : i \in 1..(Len(l) - 1)} :
             ab \in Configs \X Configs}

Links == LineLinks \cup {<<xy[2], xy[1]>> : xy \in LineLinks} \cup {<<c, c>> : c \in Configs}

LinksUp(p) == \A i \in 1..(Len(p) - 1) : <<p[i], p[i + 1]>> \in Links

\* plan() and plan_splitted() return a path that starts where the arms are, ends at
\* the goal, collides nowhere, its ends included, and never jumps: whichever tree
\* grew first when they met, whichever waypoints were dropped and legs joined, and
\* whatever was cut short afterwards.
PathIsSafe ==
    stage = "done" /\ result.path # <<>> =>
        /\ Head(result.path) = query.start
        /\ Last(result.path) = query.goal
        /\ \A i \in DOMAIN result.path : ~Collides(result.path[i])
        /\ LinksUp(result.path)
=============================================================================
