----------------------------- MODULE MCAgentRuns -----------------------------
EXTENDS AgentRuns, TLC

CONSTANTS r1, r2, j1, j2, s1, write, look

TwoRuns == {r1, r2}
TwoJobs == {j1, j2}
OneSession == {s1}
OneWrite == {write}
WriteAndRead == {write, look}
\* The last answer, and one that asks for a write, or for a read and a write.
Write1 == {<<>>, <<write>>}
ReadWrite == {<<>>, <<look, write>>}
RunSymmetry == Permutations(TwoJobs) \cup Permutations(TwoRuns)
=============================================================================
