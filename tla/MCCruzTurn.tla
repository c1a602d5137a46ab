---- MODULE MCCruzTurn ----
EXTENDS CruzTurn, TLC

CONSTANTS c1, phone, ipad, observe, pm

From(via, c, d) == [via |-> via, conv |-> c, device |-> d]

\* Two turns of one conversation, through either entry.
SameConversation ==
  {From("json", c1, phone), From("json", c1, ipad), From("stream", c1, NoDevice)}

\* Turns without a device, which skip the handoff.
NoHandoff == {From("json", c1, NoDevice), From("stream", c1, NoDevice)}

JsonOnly == {From("json", c1, NoDevice)}

\* What the model may ask for in one reply.
ToolPlans == {<<>>, <<pm, observe>>}

NoTools == {<<>>}

Symmetry == Permutations(Turns)
====
