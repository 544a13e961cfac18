-------------------------- MODULE MCMetaWorldRunner --------------------------
(* Two tasks, asked for by name, by group, twice, or wrongly.              *)
EXTENDS MetaWorldRunner

MCKnownTasks == {"reach", "button"}
MCGroups == [easy |-> <<"button", "reach">>]

MCInvocations ==
    {Invocation(<<"reach", "easy">>, 1, m, FALSE) : m \in Modes}
      \cup {Invocation(<<"easy">>, 0, "expert", FALSE),
            Invocation(<<"reach">>, 2, "expert", TRUE),
            Invocation(<<"reach", "typo">>, 1, "llm", FALSE)}
=============================================================================
