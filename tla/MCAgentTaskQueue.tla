-------------------------- MODULE MCAgentTaskQueue --------------------------
\* AgentTaskQueue for TLC: two skills, one worker bound to a skill and one
\* that leases anything.
EXTENDS AgentTaskQueue

CONSTANTS s1, s2, w1, w2

MCSkillOf == [s \in Subs |-> IF s = s2 THEN "b" ELSE "a"]
MCFilter  == [w \in Workers |-> IF w = w1 THEN {"a", "b"} ELSE {"a"}]
============================================================================
