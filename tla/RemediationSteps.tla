-------------------------- MODULE RemediationSteps --------------------------
(***************************************************************************)
(* How remediation_node splits the model's answer into steps               *)
(* (_parse_steps of src/src/agents/remediation.py): one action per line of *)
(* the answer, and the return.                                             *)
(*                                                                         *)
(* Of a line it keeps how it begins; a step is the sequence of the numbers *)
(* of the lines it joins.                                                  *)
(***************************************************************************)
EXTENDS Naturals, Sequences

CONSTANT Answers   \* what the model may answer: sequences of lines

\* digit: "7." and the like; digits: "10."; text: anything else.
LineKinds == {"blank", "digit", "digits", "text"}

VARIABLES
    answer,    \* the stripped lines of the answer
    line,      \* how many of them the loop has seen
    steps,     \* the finished steps
    current,   \* the step in the making
    pc         \* "loop", or "done" once the function has returned its steps

split == <<answer, line, steps, current, pc>>

Init ==
    /\ answer \in Answers
    /\ line = 0
    /\ steps = <<>>
    /\ current = <<>>
    /\ pc = "loop"

\* The second character has to be the separator: "10." does not qualify.
StartsStep(kind) == kind = "digit"

\* steps.append(" ".join(current)), when there is a current step.
Finished == IF current = <<>> THEN steps ELSE Append(steps, current)

AtLine(kinds) ==
    /\ line < Len(answer)
    /\ answer[line + 1] \in kinds
    /\ line' = line + 1
    /\ UNCHANGED <<answer, pc>>

SkipBlank ==
    /\ AtLine({"blank"})
    /\ UNCHANGED <<steps, current>>

StartStep ==
    /\ AtLine({kind \in LineKinds : StartsStep(kind)})
    /\ steps' = Finished
    /\ current' = <<line + 1>>

\* Text before the first number becomes a step of its own.
JoinStep ==
    /\ AtLine({kind \in LineKinds \ {"blank"} : ~StartsStep(kind)})
    /\ current' = Append(current, line + 1)
    /\ UNCHANGED steps

\* An answer without text makes one empty step.
Return ==
    /\ line = Len(answer)
    /\ pc = "loop"
    /\ pc' = "done"
    /\ steps' = IF Finished = <<>> THEN <<<<>>>> ELSE Finished
    /\ UNCHANGED <<answer, line, current>>

Next == SkipBlank \/ StartStep \/ JoinStep \/ Return

Spec == Init /\ [][Next]_split

-----------------------------------------------------------------------------
(* Properties                                                              *)

\* The steps so far, the one in the making included.
Gathered == IF pc = "done" THEN steps ELSE Finished

\* A list of steps holds the first n lines with text and no other line,
HoldsLines(lines, list, n) ==
    /\ \A k \in DOMAIN list : \A j \in DOMAIN list[k] :
          list[k][j] \in 1..n /\ lines[list[k][j]] # "blank"
    /\ \A i \in 1..n : lines[i] # "blank" =>
          \E k \in DOMAIN list : \E j \in DOMAIN list[k] : list[k][j] = i

\* and holds them once each and in the order of the answer.
InOrder(list) ==
    \A k1, k2 \in DOMAIN list :
        \A j1 \in DOMAIN list[k1], j2 \in DOMAIN list[k2] :
            k1 < k2 \/ (k1 = k2 /\ j1 < j2) => list[k1][j1] < list[k2][j2]

\* No line of the answer is lost, repeated or moved (remediation.py:69-83).
LinesAreKept == HoldsLines(answer, Gathered, line) /\ InOrder(Gathered)

\* The lines of a numbered list that begin an item, with a number of one digit
\* or of more.
Numbered(kind) == kind \in {"digit", "digits"}

\* remediation.py:65, "Split numbered list response into individual step
\* strings": every step but the first begins with a number, and none runs on
\* into the next one.
IndividualSteps ==
    \A k \in DOMAIN Gathered :
        /\ k > 1 => Gathered[k] # <<>> /\ Numbered(answer[Gathered[k][1]])
        /\ \A j \in DOMAIN Gathered[k] : j > 1 => ~Numbered(answer[Gathered[k][j]])

=============================================================================
