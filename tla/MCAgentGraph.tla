---------------------------- MODULE MCAgentGraph ----------------------------
(***************************************************************************)
(* Instances of AgentGraph, EventStatus and the refinement of Incident for *)
(* TLC.                                                                    *)
(***************************************************************************)
EXTENDS EventStatus, AgentGraphIncident

\* A plain description, one the patterns match, and two near misses.
SampleTexts ==
    {[l1 |-> FALSE, soft_signals |-> 0, verdict |-> "clean"],
     [l1 |-> TRUE,  soft_signals |-> 4, verdict |-> "clean"],
     [l1 |-> FALSE, soft_signals |-> 3, verdict |-> "injection"],
     [l1 |-> FALSE, soft_signals |-> 3, verdict |-> "error"]}

\* A score out of range on either side, one between the two thresholds, NaN, one
\* too large for a float, and replies without a score.
SampleReplies ==
    {[score |-> [kind |-> "number", tenths |-> -2], found |-> 2],
     [score |-> [kind |-> "number", tenths |-> 6],  found |-> 6],
     [score |-> [kind |-> "number", tenths |-> 15], found |-> 10],
     [score |-> [kind |-> "nan"],                   found |-> NoNumber],
     [score |-> [kind |-> "huge"],                  found |-> NoNumber],
     [score |-> [kind |-> "unusable"],              found |-> 6],
     [score |-> [kind |-> "unusable"],              found |-> NoNumber]}

SampleOutputs ==
    {[injection_echo |-> FALSE, prompt_leak |-> FALSE],
     [injection_echo |-> TRUE,  prompt_leak |-> FALSE],
     [injection_echo |-> FALSE, prompt_leak |-> TRUE]}

\* For the run that takes all the rest at once: an answer the filter blocks for
\* what is in it goes the way of one it blocks for its low score.
CleanOutputs == {[injection_echo |-> FALSE, prompt_leak |-> FALSE]}

=============================================================================
