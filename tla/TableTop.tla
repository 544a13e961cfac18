------------------------------ MODULE TableTop ------------------------------
(***************************************************************************)
(* The grocery table as the skills, the parser and the motion planner see  *)
(* it: two or more arms, items that lie on the table, in a slot of the bin *)
(* or in a hand, and the observation's contacts.  A hand is at the base it *)
(* works at, one sample of its path short of it, or over the table between *)
(* two bases.                                                              *)
(***************************************************************************)
EXTENDS Integers, SequencesExt

CONSTANTS
    AgentOrder,           \* robot_name_map's agents, in order
    ItemOrder,            \* item_names, in order
    Slots,                \* bin_slot_xposes
    Nothing               \* None

Agents == Range(AgentOrder)
Items == Range(ItemOrder)

ASSUME TableAssumption ==
    /\ 1 \in DOMAIN AgentOrder
    /\ Nothing \notin Agents \cup Items \cup Slots
    /\ Agents \cap (Items \cup Slots) = {} /\ Items \cap Slots = {}
    /\ "over" \notin Agents \cup Items \cup Slots

-----------------------------------------------------------------------------
(* Configurations of the arms and the straight lines between them.         *)

\* The base of an agent is its home, that of an item where the scene was set up with it.
Bases == Agents \cup Items \cup Slots

At(base) == [base |-> base, near |-> FALSE]
Near(base) == [base |-> base, near |-> TRUE]
Over == At("over")

Points == {Over} \cup {At(b) : b \in Bases} \cup {Near(b) : b \in Bases}

Arms == [Agents -> Points]

AtHome == [a \in Agents |-> At(a)]

\* One arm's part of the samples of a line: it leaves its base, passes over the
\* table, and nears the other one.
Leg(p, q) ==
    LET off(r) == IF r = Over THEN Over ELSE Near(r.base)
    IN  IF p.base = q.base THEN <<p, p, p, p, q>> ELSE <<p, off(p), Over, off(q), q>>

\* extend_ee_l2 moves every arm at once.
ArmsLine ==
    [pair \in Arms \X Arms |->
        IF pair[1] = pair[2] THEN <<>>
        ELSE [i \in 1..5 |-> [a \in Agents |-> Leg(pair[1][a], pair[2][a])[i]]]]

-----------------------------------------------------------------------------
(* The simulator: hands, the equality constraints that weld an item to a   *)
(* hand, and where the other items rest.                                   *)

NewWorld ==
    [hands |-> AtHome, weld |-> [a \in Agents |-> Nothing], rest |-> [i \in Items |-> i]]

Carriers(w, i) == {a \in Agents : w.weld[a] = i}

Place(w, i) ==
    IF Carriers(w, i) = {} THEN w.rest[i]
    ELSE w.hands[CHOOSE a \in Carriers(w, i) : TRUE].base

\* get_contact(): what a hand is at, and what is welded to it.
Contacts(w, a) == {i \in Items : Place(w, i) = w.hands[a].base \/ w.weld[a] = i}

FirstItem(S) ==
    IF S = {} THEN Nothing
    ELSE ItemOrder[CHOOSE n \in DOMAIN ItemOrder :
                     /\ ItemOrder[n] \in S
                     /\ \A m \in 1..(n - 1) : ItemOrder[m] \notin S]

\* get_agent_held_object
Held(w, a) == FirstItem(Contacts(w, a))

\* get_packed_slot_for_object: an item in contact with the bin, in the nearest slot.
PackedSlot(w, i) == IF Place(w, i) \in Slots THEN Place(w, i) ELSE Nothing

\* get_slot_occupancy
Occupant(w, s) == FirstItem({i \in Items : PackedSlot(w, i) = s})

\* get_reward_done: every item packed.
AllPacked(w) == \A i \in Items : PackedSlot(w, i) # Nothing

\* forward_kinematics_all: an item of set_inhand_info follows its hand, another one is
\* where the scene has it, even if it is being carried.
Follows(inhand, i) == \E a \in Agents : inhand[a] = i

\* allow_collision_pairs, with check_grasp_ids.
MayTouch(allowed, a, i) == i \in allowed[a]

\* Mutant of Touching: the items in the scene are left out of the check.
TouchingArms(w, allowed, inhand, c) ==
    \E a, b \in Agents : a # b /\ c[a].base = c[b].base

\* get_collided_links: two arms at one place, or an arm at an item it may not touch.
Touching(w, allowed, inhand, c) ==
    \/ \E a, b \in Agents : a # b /\ c[a].base = c[b].base
    \/ \E a \in Agents, i \in Items :
          ~MayTouch(allowed, a, i) /\ ~Follows(inhand, i) /\ c[a].base = Place(w, i)

Blocked(w, allowed, inhand) == {c \in Arms : Touching(w, allowed, inhand, c)}

\* env.step(): the controllers bring the arms to a configuration, the welds change.
\* An item let go of rests where the hand is.
Stepped(w, hands, weld) ==
    [hands |-> hands, weld |-> weld,
     rest |-> [i \in Items |->
        IF Carriers(w, i) # {} /\ ~\E a \in Agents : weld[a] = i
        THEN hands[CHOOSE a \in Carriers(w, i) : TRUE].base
        ELSE w.rest[i]]]
=============================================================================
