--------------------------- MODULE MCSkillPipeline ---------------------------
(* Two agents, two items, two slots.                                       *)
EXTENDS SkillPipeline

MCAgentOrder == <<"Alice", "Bob">>
MCItemOrder == <<"apple", "milk">>
MCSlots == {"left", "right"}
MCNothing == "nothing"

MCReach == [a \in Agents |-> Bases \cup {"over"}]

\* What run_dialog.py does by default with skills, --split_parsed_plans, and a plan that
\* has to go through its waypoints.
MCModes ==
    {[output |-> "skill", splitted |-> FALSE, skip_direct |-> FALSE, skip_smooth |-> FALSE],
     [output |-> "path", splitted |-> TRUE, skip_direct |-> FALSE, skip_smooth |-> FALSE],
     [output |-> "action", splitted |-> FALSE, skip_direct |-> TRUE, skip_smooth |-> TRUE]}

SkillModes == {m \in MCModes : m.output = "skill"}

PutLine(a, i, s) == TextLine(a, Put, <<<<"object", i>>, <<"container", s>>>>, 0)
WaitLine(a) == TextLine(a, Wait, <<>>, 0)

Plan(lines) == [execute |-> TRUE, lines |-> lines]

\* Plans, one of them over more lines than agents, and responses the parser refuses: no
\* EXECUTE, no line of an agent, a call that is never closed, a slot given twice, an
\* argument missing.
MCSkillResponses ==
    {Plan(<<PutLine("Alice", "apple", "left"), PutLine("Bob", "milk", s)>>) : s \in Slots}
      \cup {Plan(<<PutLine("Bob", i, "left"), WaitLine("Alice")>>) : i \in Items}
      \cup {Plan(<<WaitLine("Bob"),
                   TextLine("Alice", Put, <<<<"object", "apple">>>>, 1),
                   TextLine(Nothing, Nothing, <<<<"container", "left">>>>, -1)>>),
            [execute |-> FALSE, lines |-> <<>>],
            Plan(<<TextLine(Nothing, Nothing, <<>>, 0)>>),
            Plan(<<TextLine("Alice", Put, <<<<"object", "apple">>>>, 1), WaitLine("Bob")>>),
            Plan(<<TextLine("Alice", Put, <<<<"object", "apple">>, <<"container", "left">>,
                                            <<"container", "right">>>>, 0), WaitLine("Bob")>>),
            Plan(<<TextLine("Alice", Put, <<<<"object", "apple">>>>, 0), WaitLine("Bob")>>)}

Action(verb, i, t, path) == [verb |-> verb, object |-> i, target |-> t, path |-> path]

Both(alices, bobs) ==
    {[a \in Agents |-> IF a = "Alice" THEN p ELSE q] : p \in alices, q \in bobs}

MCActionResponses ==
    [path |->
        Both({Action("PICK", i, Nothing, <<Over>>) : i \in Items}
               \cup {Action("PLACE", "apple", "left", <<Near("left")>>),
                     Action("WAIT", Nothing, Nothing, <<Over>>)},
             {Action("PICK", "milk", Nothing, <<At("Bob")>>),
              Action("PLACE", "milk", "left", <<Over>>),
              Action("PUT", "milk", "right", <<Over>>),
              Action("WAIT", Nothing, Nothing, <<At("Bob")>>)}),
     action |->
        Both({Action("PICK PLACE", "apple", "left", <<>>), Action("WAIT", Nothing, Nothing, <<>>)},
             {Action("PICK PLACE", "milk", s, <<>>) : s \in Slots}
               \cup {Action("MOVE", Nothing, "right", <<>>),
                     Action("WAIT", Nothing, Nothing, <<>>)})]
=============================================================================
