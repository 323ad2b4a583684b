----------------------- MODULE RemediationStepsProofs -----------------------
(***************************************************************************)
(* Theorems about RemediationSteps for answers of any length.              *)
(***************************************************************************)
EXTENDS RemediationSteps, TLAPS

-----------------------------------------------------------------------------
(* Lists of steps                                                          *)

\* Each step but the first begins with a line that starts a step, and no other
\* of its lines does.
CutAtStarts(lines, list) ==
    \A k \in DOMAIN list :
        /\ k > 1 => list[k] # <<>> /\ StartsStep(lines[list[k][1]])
        /\ \A j \in DOMAIN list[k] : j > 1 => ~StartsStep(lines[list[k][j]])

WellCut(lines, list, n) ==
    /\ HoldsLines(lines, list, n)
    /\ InOrder(list)
    /\ CutAtStarts(lines, list)

\* A line without text changes nothing.
LEMMA LineSkipped ==
    ASSUME NEW lines \in Seq(LineKinds), NEW i \in 1..Len(lines), NEW list,
           WellCut(lines, list, i - 1), lines[i] = "blank"
    PROVE  WellCut(lines, list, i)
<1>1. i \in Nat /\ HoldsLines(lines, list, i - 1)
  BY DEF WellCut
<1>2. \A k \in DOMAIN list : \A j \in DOMAIN list[k] :
          list[k][j] \in 1..i /\ lines[list[k][j]] # "blank"
  BY <1>1 DEF HoldsLines
<1>3. ASSUME NEW h \in 1..i, lines[h] # "blank"
      PROVE  \E k \in DOMAIN list : \E j \in DOMAIN list[k] : list[k][j] = h
  <2>1. h \in 1..(i - 1)
    BY <1>1, <1>3
  <2> QED
    BY <1>1, <1>3, <2>1 DEF HoldsLines
<1>4. HoldsLines(lines, list, i)
  BY <1>2, <1>3 DEF HoldsLines
<1> QED
  BY <1>4 DEF WellCut

\* A line that starts a step is a new one after those there are.
LEMMA StepAdded ==
    ASSUME NEW lines \in Seq(LineKinds), NEW i \in 1..Len(lines),
           NEW old \in Seq(Seq(Nat)),
           WellCut(lines, old, i - 1), StartsStep(lines[i])
    PROVE  WellCut(lines, Append(old, <<i>>), i)
<1> DEFINE new == Append(old, <<i>>)
<1>1. i \in Nat /\ lines[i] # "blank"
  BY DEF StartsStep
<1>2. /\ HoldsLines(lines, old, i - 1)
      /\ InOrder(old)
      /\ CutAtStarts(lines, old)
  BY DEF WellCut
<1>5. /\ DOMAIN old = 1..Len(old) /\ DOMAIN new = 1..(Len(old) + 1) /\ Len(old) \in Nat
      /\ \A k \in DOMAIN old : new[k] = old[k]
      /\ new[Len(old) + 1] = <<i>> /\ DOMAIN <<i>> = {1} /\ <<i>>[1] = i
  BY <1>1
<1>6. \A k \in DOMAIN new : k \in DOMAIN old \/ k = Len(old) + 1
  BY <1>5
<1> HIDE DEF new
<1>7. HoldsLines(lines, new, i)
  <2>1. ASSUME NEW k \in DOMAIN new, NEW j \in DOMAIN new[k]
        PROVE  new[k][j] \in 1..i /\ lines[new[k][j]] # "blank"
    <3>1. CASE k \in DOMAIN old
      <4>1. new[k] = old[k]
        BY <1>5, <3>1
      <4>2. new[k][j] \in 1..(i - 1) /\ lines[new[k][j]] # "blank"
        BY <1>2, <3>1, <4>1 DEF HoldsLines
      <4> QED
        BY <1>1, <4>2
    <3>2. CASE k = Len(old) + 1
      <4>1. new[k][j] = i
        BY <1>5, <3>2
      <4> QED
        BY <1>1, <4>1
    <3> QED
      BY <1>6, <3>1, <3>2
  <2>2. ASSUME NEW h \in 1..i, lines[h] # "blank"
        PROVE  \E k \in DOMAIN new : \E j \in DOMAIN new[k] : new[k][j] = h
    <3>1. CASE h = i
      BY <1>5, <3>1
    <3>2. CASE h # i
      <4>1. h \in 1..(i - 1)
        BY <1>1, <3>2
      <4>2. PICK k \in DOMAIN old : \E j \in DOMAIN old[k] : old[k][j] = h
        BY <1>2, <2>2, <4>1 DEF HoldsLines
      <4>3. k \in DOMAIN new /\ new[k] = old[k]
        BY <1>5
      <4> QED
        BY <4>2, <4>3
    <3> QED
      BY <3>1, <3>2
  <2> QED
    BY <2>1, <2>2 DEF HoldsLines
<1>8. InOrder(new)
  <2>1. SUFFICES ASSUME NEW k1 \in DOMAIN new, NEW k2 \in DOMAIN new,
                        NEW j1 \in DOMAIN new[k1], NEW j2 \in DOMAIN new[k2],
                        k1 < k2 \/ (k1 = k2 /\ j1 < j2)
                 PROVE  new[k1][j1] < new[k2][j2]
    BY DEF InOrder
  <2>2. CASE k2 \in DOMAIN old
    <3>1. k1 \in DOMAIN old
      BY <1>5, <2>1, <2>2
    <3> QED
      BY <1>2, <1>5, <2>1, <2>2, <3>1 DEF InOrder
  <2>3. CASE k2 = Len(old) + 1
    <3>1. j2 = 1 /\ new[k2][j2] = i
      BY <1>5, <2>3
    <3>2. k1 \in DOMAIN old
      <4>1. CASE k1 = Len(old) + 1
        <5>1. j1 = 1
          BY <1>5, <4>1
        <5> QED
          BY <1>5, <2>1, <2>3, <3>1, <4>1, <5>1
      <4> QED
        BY <1>6, <4>1
    <3>3. new[k1][j1] \in 1..(i - 1)
      BY <1>2, <1>5, <3>2 DEF HoldsLines
    <3> QED
      BY <1>1, <3>1, <3>3
  <2> QED
    BY <1>6, <2>2, <2>3
<1>9. CutAtStarts(lines, new)
  <2>1. SUFFICES ASSUME NEW k \in DOMAIN new
                 PROVE  /\ k > 1 => new[k] # <<>> /\ StartsStep(lines[new[k][1]])
                        /\ \A j \in DOMAIN new[k] : j > 1 => ~StartsStep(lines[new[k][j]])
    BY DEF CutAtStarts
  <2>2. CASE k \in DOMAIN old
    BY <1>2, <1>5, <2>2 DEF CutAtStarts
  <2>3. CASE k = Len(old) + 1
    <3>1. <<i>> # <<>>
      OBVIOUS
    <3> QED
      BY <1>5, <2>3, <3>1
  <2> QED
    BY <1>6, <2>2, <2>3
<1> QED
  BY <1>7, <1>8, <1>9 DEF WellCut, new

\* Any other line with text joins the step in the making, or begins the first.
LEMMA LineJoined ==
    ASSUME NEW lines \in Seq(LineKinds), NEW i \in 1..Len(lines),
           NEW done \in Seq(Seq(Nat)), NEW cur \in Seq(Nat),
           cur = <<>> => done = <<>>,
           WellCut(lines, IF cur = <<>> THEN done ELSE Append(done, cur), i - 1),
           lines[i] # "blank", ~StartsStep(lines[i])
    PROVE  WellCut(lines, Append(done, Append(cur, i)), i)
<1> DEFINE more == Append(cur, i)
           old == IF cur = <<>> THEN done ELSE Append(done, cur)
           new == Append(done, more)
           m == Len(done) + 1
<1>1. /\ i \in Nat /\ done \in Seq(Seq(Nat)) /\ cur \in Seq(Nat)
      /\ cur = <<>> => done = <<>>
  OBVIOUS
<1>2. more \in Seq(Nat) /\ more # <<>>
  <2>1. more \in Seq(Nat) /\ Len(more) = Len(cur) + 1 /\ Len(cur) \in Nat
    BY <1>1
  <2> QED
    BY <2>1
<1> HIDE DEF more
<1>5. old = IF cur = <<>> THEN done ELSE Append(done, cur)
  OBVIOUS
<1>6. /\ HoldsLines(lines, old, i - 1)
      /\ InOrder(old)
      /\ CutAtStarts(lines, old)
  BY DEF WellCut
<1> HIDE DEF old
<1>7. /\ m \in Nat /\ m >= 1
      /\ DOMAIN new = 1..m /\ new[m] = more /\ \A k \in 1..(m - 1) : new[k] = done[k]
      /\ Len(cur) \in Nat /\ DOMAIN cur = 1..Len(cur)
      /\ DOMAIN more = 1..(Len(cur) + 1) /\ more[Len(cur) + 1] = i
      /\ \A j \in 1..Len(cur) : more[j] = cur[j]
  BY <1>1, <1>2 DEF more
<1>8. /\ \A k \in 1..(m - 1) : k \in DOMAIN old /\ old[k] = done[k]
      /\ cur # <<>> => m \in DOMAIN old /\ old[m] = cur
      /\ \A k \in DOMAIN old : k \in 1..(m - 1) \/ (k = m /\ cur # <<>>)
      /\ cur = <<>> => m = 1 /\ Len(cur) = 0
  <2>1. CASE cur = <<>>
    <3>1. old = <<>> /\ done = <<>> /\ Len(done) = 0
      BY <1>1, <1>5, <2>1
    <3>2. m = 1 /\ 1..(m - 1) = {} /\ DOMAIN old = {} /\ Len(cur) = 0
      BY <2>1, <3>1
    <3> QED
      BY <2>1, <3>2
  <2>2. CASE cur # <<>>
    <3>1. old = Append(done, cur)
      BY <1>5, <2>2
    <3>2. DOMAIN old = 1..m /\ old[m] = cur /\ \A k \in 1..(m - 1) : old[k] = done[k]
      BY <1>1, <3>1
    <3> QED
      BY <1>7, <2>2, <3>2
  <2> QED
    BY <2>1, <2>2
<1> HIDE DEF new, m
\* Every place of the new list is one of the old list or the last one.
<1>9. ASSUME NEW k \in DOMAIN new, NEW j \in DOMAIN new[k]
      PROVE  \/ k \in DOMAIN old /\ j \in DOMAIN old[k] /\ new[k][j] = old[k][j]
             \/ k = m /\ j = Len(cur) + 1 /\ new[k][j] = i
  <2>1. CASE k = m
    <3>1. j \in 1..(Len(cur) + 1)
      BY <1>7, <1>9, <2>1
    <3>2. CASE j = Len(cur) + 1
      BY <1>7, <2>1, <3>2
    <3>3. CASE j # Len(cur) + 1
      <4>1. j \in 1..Len(cur) /\ cur # <<>>
        BY <1>7, <1>8, <3>1, <3>3
      <4> QED
        BY <1>7, <1>8, <2>1, <4>1
    <3> QED
      BY <3>2, <3>3
  <2>2. CASE k # m
    <3>1. k \in 1..(m - 1)
      BY <1>7, <1>9, <2>2
    <3> QED
      BY <1>7, <1>8, <1>9, <3>1
  <2> QED
    BY <2>1, <2>2
<1>10. HoldsLines(lines, new, i)
  <2>1. ASSUME NEW k \in DOMAIN new, NEW j \in DOMAIN new[k]
        PROVE  new[k][j] \in 1..i /\ lines[new[k][j]] # "blank"
    <3>1. CASE k \in DOMAIN old /\ j \in DOMAIN old[k] /\ new[k][j] = old[k][j]
      BY <1>1, <1>6, <3>1 DEF HoldsLines
    <3>2. CASE new[k][j] = i
      BY <1>1, <3>2
    <3> QED
      BY <1>9, <3>1, <3>2
  <2>2. ASSUME NEW h \in 1..i, lines[h] # "blank"
        PROVE  \E k \in DOMAIN new : \E j \in DOMAIN new[k] : new[k][j] = h
    <3>1. CASE h = i
      <4>1. m \in DOMAIN new /\ Len(cur) + 1 \in DOMAIN new[m] /\ new[m][Len(cur) + 1] = i
        BY <1>7
      <4> QED
        BY <3>1, <4>1
    <3>2. CASE h # i
      <4>1. h \in 1..(i - 1)
        BY <1>1, <3>2
      <4>2. PICK k \in DOMAIN old : \E j \in DOMAIN old[k] : old[k][j] = h
        BY <1>6, <2>2, <4>1 DEF HoldsLines
      <4>3. PICK j \in DOMAIN old[k] : old[k][j] = h
        BY <4>2
      <4>4. k \in DOMAIN new /\ j \in DOMAIN new[k] /\ new[k][j] = old[k][j]
        <5>1. CASE k = m
          <6>1. old[k] = cur /\ j \in 1..Len(cur)
            BY <1>7, <1>8, <4>2, <4>3, <5>1
          <6> QED
            BY <1>7, <4>3, <5>1, <6>1
        <5>2. CASE k # m
          <6>1. k \in 1..(m - 1)
            BY <1>8, <4>2, <5>2
          <6> QED
            BY <1>7, <1>8, <4>3, <6>1
        <5> QED
          BY <5>1, <5>2
      <4> QED
        BY <4>3, <4>4
    <3> QED
      BY <3>1, <3>2
  <2> QED
    BY <2>1, <2>2 DEF HoldsLines
<1>11. InOrder(new)
  <2>1. SUFFICES ASSUME NEW k1 \in DOMAIN new, NEW k2 \in DOMAIN new,
                        NEW j1 \in DOMAIN new[k1], NEW j2 \in DOMAIN new[k2],
                        k1 < k2 \/ (k1 = k2 /\ j1 < j2)
                 PROVE  new[k1][j1] < new[k2][j2]
    BY DEF InOrder
  <2>2. ~(k1 = m /\ j1 = Len(cur) + 1)
    <3>1. k2 \in 1..m /\ (k2 = m => j2 \in 1..(Len(cur) + 1))
      BY <1>7
    <3> QED
      BY <1>7, <2>1, <3>1
  <2>3. k1 \in DOMAIN old /\ j1 \in DOMAIN old[k1] /\ new[k1][j1] = old[k1][j1]
    BY <1>9, <2>2
  <2>4. CASE k2 \in DOMAIN old /\ j2 \in DOMAIN old[k2] /\ new[k2][j2] = old[k2][j2]
    BY <1>6, <2>1, <2>3, <2>4 DEF InOrder
  <2>5. CASE new[k2][j2] = i
    <3>1. new[k1][j1] \in 1..(i - 1)
      BY <1>6, <2>3 DEF HoldsLines
    <3> QED
      BY <1>1, <2>5, <3>1
  <2> QED
    BY <1>9, <2>4, <2>5
<1>12. CutAtStarts(lines, new)
  <2>1. ASSUME NEW k \in DOMAIN new, k > 1
        PROVE  new[k] # <<>> /\ StartsStep(lines[new[k][1]])
    <3>1. k \in DOMAIN old
      BY <1>7, <1>8, <2>1
    <3>2. old[k] # <<>> /\ StartsStep(lines[old[k][1]])
      BY <1>6, <2>1, <3>1 DEF CutAtStarts
    <3>3. CASE k = m
      <4>1. cur # <<>> /\ old[k] = cur
        BY <1>7, <1>8, <3>1, <3>3
      <4>2. 1 \in 1..Len(cur)
        BY <1>1, <1>7, <4>1
      <4> QED
        BY <1>2, <1>7, <3>2, <3>3, <4>1, <4>2
    <3>4. CASE k # m
      <4>1. new[k] = old[k]
        BY <1>7, <1>8, <3>4
      <4> QED
        BY <3>2, <4>1
    <3> QED
      BY <3>3, <3>4
  <2>2. ASSUME NEW k \in DOMAIN new, NEW j \in DOMAIN new[k], j > 1
        PROVE  ~StartsStep(lines[new[k][j]])
    <3>1. CASE k \in DOMAIN old /\ j \in DOMAIN old[k] /\ new[k][j] = old[k][j]
      BY <1>6, <2>2, <3>1 DEF CutAtStarts
    <3>2. CASE new[k][j] = i
      BY <3>2
    <3> QED
      BY <1>9, <3>1, <3>2
  <2> QED
    BY <2>1, <2>2 DEF CutAtStarts
<1> QED
  BY <1>10, <1>11, <1>12 DEF WellCut, new, more

-----------------------------------------------------------------------------
(* The loop                                                                *)

\* What is gathered after a number of lines is what they should make, and a
\* step that is done is never followed by an empty one.
SplitInv ==
    /\ answer \in Seq(LineKinds)
    /\ line \in 0..Len(answer)
    /\ steps \in Seq(Seq(Nat))
    /\ current \in Seq(Nat)
    /\ pc \in {"loop", "done"}
    /\ pc = "loop" /\ current = <<>> => steps = <<>>
    /\ pc = "done" => line = Len(answer)
    /\ WellCut(answer, Gathered, line)

LEMMA SplitInit ==
    ASSUME Answers \subseteq Seq(LineKinds), Init
    PROVE  SplitInv
<1>1. /\ answer \in Seq(LineKinds) /\ line = 0 /\ steps = <<>> /\ current = <<>>
      /\ pc = "loop"
  BY DEF Init
<1>2. Gathered = <<>> /\ DOMAIN Gathered = {} /\ Len(answer) \in Nat
  BY <1>1 DEF Gathered, Finished
<1>3. WellCut(answer, Gathered, line)
  BY <1>1, <1>2 DEF WellCut, HoldsLines, InOrder, CutAtStarts
<1>4. steps \in Seq(Seq(Nat)) /\ current \in Seq(Nat) /\ line \in 0..Len(answer)
  BY <1>1, <1>2
<1> QED
  BY <1>1, <1>3, <1>4 DEF SplitInv

LEMMA SplitStep ==
    ASSUME SplitInv, [Next]_split
    PROVE  SplitInv'
<1>a. /\ answer \in Seq(LineKinds) /\ line \in 0..Len(answer)
      /\ steps \in Seq(Seq(Nat)) /\ current \in Seq(Nat)
      /\ pc \in {"loop", "done"}
      /\ pc = "loop" /\ current = <<>> => steps = <<>>
      /\ pc = "done" => line = Len(answer)
      /\ WellCut(answer, Gathered, line)
      /\ Len(answer) \in Nat
  BY DEF SplitInv
<1>b. Finished \in Seq(Seq(Nat))
  BY <1>a DEF Finished
\* Every line is seen before the return.
<1>c. ASSUME NEW kinds, AtLine(kinds)
      PROVE  /\ line + 1 \in 1..Len(answer) /\ line' = line + 1
             /\ answer[line + 1] \in kinds /\ answer' = answer
             /\ pc = "loop" /\ pc' = "loop"
             /\ WellCut(answer, Finished, (line + 1) - 1)
  <2>1. line < Len(answer) /\ (line + 1) - 1 = line
    BY <1>a, <1>c DEF AtLine
  <2>2. pc = "loop" /\ Gathered = Finished
    BY <1>a, <2>1 DEF Gathered
  <2> QED
    BY <1>a, <1>c, <2>1, <2>2 DEF AtLine
<1>1. CASE SkipBlank
  <2>1. AtLine({"blank"}) /\ steps' = steps /\ current' = current
    BY <1>1 DEF SkipBlank
  <2>2. WellCut(answer, Finished, line + 1)
    <3>1. answer[line + 1] = "blank"
      BY <1>c, <2>1
    <3> QED
      BY <1>a, <1>c, <2>1, <3>1, LineSkipped
  <2>3. Gathered' = Finished
    BY <1>c, <2>1 DEF Gathered, Finished
  <2> QED
    BY <1>a, <1>c, <2>1, <2>2, <2>3 DEF SplitInv
<1>2. CASE StartStep
  <2>1. /\ AtLine({kind \in LineKinds : StartsStep(kind)})
        /\ steps' = Finished /\ current' = <<line + 1>>
    BY <1>2 DEF StartStep
  <2>2. StartsStep(answer[line + 1])
    <3>1. answer[line + 1] \in {kind \in LineKinds : StartsStep(kind)}
      BY <1>c, <2>1
    <3> QED
      BY <3>1
  <2>3. WellCut(answer, Append(Finished, <<line + 1>>), line + 1)
    BY <1>a, <1>b, <1>c, <2>1, <2>2, StepAdded
  <2>4. current' \in Seq(Nat) /\ current' # <<>>
    BY <1>a, <2>1
  <2>5. Gathered' = Append(Finished, <<line + 1>>)
    BY <1>c, <2>1, <2>4 DEF Gathered, Finished
  <2> QED
    BY <1>a, <1>b, <1>c, <2>1, <2>3, <2>4, <2>5 DEF SplitInv
<1>3. CASE JoinStep
  <2>1. /\ AtLine({kind \in LineKinds \ {"blank"} : ~StartsStep(kind)})
        /\ steps' = steps /\ current' = Append(current, line + 1)
    BY <1>3 DEF JoinStep
  <2>2. answer[line + 1] # "blank" /\ ~StartsStep(answer[line + 1])
    <3>1. answer[line + 1] \in {kind \in LineKinds \ {"blank"} : ~StartsStep(kind)}
      BY <1>c, <2>1
    <3> QED
      BY <3>1
  <2>3. current = <<>> => steps = <<>>
    BY <1>a, <1>c, <2>1
  <2>4. WellCut(answer, IF current = <<>> THEN steps ELSE Append(steps, current),
                (line + 1) - 1)
    BY <1>a, <1>c, <2>1 DEF Finished
  <2>5. WellCut(answer, Append(steps, Append(current, line + 1)), line + 1)
    BY <1>a, <1>c, <2>1, <2>2, <2>3, <2>4, LineJoined
  <2>6. current' \in Seq(Nat) /\ current' # <<>>
    <3>1. line + 1 \in Nat
      BY <1>a
    <3>2. current' \in Seq(Nat) /\ Len(current') = Len(current) + 1 /\ Len(current) \in Nat
      BY <1>a, <2>1, <3>1
    <3> QED
      BY <3>2
  <2>7. Gathered' = Append(steps, Append(current, line + 1))
    BY <1>c, <2>1, <2>6 DEF Gathered, Finished
  <2> QED
    BY <1>a, <1>c, <2>1, <2>5, <2>6, <2>7 DEF SplitInv
<1>4. CASE Return
  <2>1. /\ line = Len(answer) /\ pc = "loop" /\ pc' = "done"
        /\ steps' = IF Finished = <<>> THEN <<<<>>>> ELSE Finished
        /\ answer' = answer /\ line' = line /\ current' = current
    BY <1>a, <1>4 DEF Return
  <2>2. Gathered' = steps' /\ Gathered = Finished
    BY <2>1 DEF Gathered
  <2>3. steps' \in Seq(Seq(Nat))
    <3>1. <<<<>>>> \in Seq(Seq(Nat))
      OBVIOUS
    <3> QED
      BY <1>b, <2>1, <3>1
  <2>4. WellCut(answer, steps', line)
    <3>1. CASE Finished # <<>>
      BY <1>a, <2>1, <2>2, <3>1
    <3>2. CASE Finished = <<>>
      <4>1. steps' = <<<<>>>> /\ HoldsLines(answer, <<>>, line) /\ DOMAIN <<>> = {}
        BY <1>a, <2>1, <2>2, <3>2 DEF WellCut
      <4>2. DOMAIN <<<<>>>> = {1} /\ DOMAIN <<<<>>>>[1] = {}
        OBVIOUS
      <4>3. HoldsLines(answer, <<<<>>>>, line)
        BY <4>1, <4>2 DEF HoldsLines
      <4>4. InOrder(<<<<>>>>) /\ CutAtStarts(answer, <<<<>>>>)
        BY <4>2 DEF InOrder, CutAtStarts
      <4> QED
        BY <4>1, <4>3, <4>4 DEF WellCut
    <3> QED
      BY <3>1, <3>2
  <2> QED
    BY <1>a, <2>1, <2>2, <2>3, <2>4 DEF SplitInv
<1>5. CASE UNCHANGED split
  BY <1>a, <1>5 DEF split, SplitInv, Gathered, Finished
<1> QED
  BY <1>1, <1>2, <1>3, <1>4, <1>5 DEF Next

\* _parse_steps loses no line of any answer, repeats none and keeps their
\* order, after every line and when it returns (remediation.py:69-83).
THEOREM NoLineIsLost ==
    ASSUME Answers \subseteq Seq(LineKinds)
    PROVE  Spec => []LinesAreKept
<1>1. Init => SplitInv
  BY SplitInit
<1>2. SplitInv /\ [Next]_split => SplitInv'
  BY SplitStep
<1>3. SplitInv => LinesAreKept
  BY DEF SplitInv, WellCut, LinesAreKept
<1> QED
  BY <1>1, <1>2, <1>3, PTL DEF Spec

\* And an answer whose numbers have one digit comes out as its steps, so that
\* what goes wrong with a numbered list begins with its tenth item
\* (remediation.py:65, 73).
THEOREM NineStepsAreIndividual ==
    ASSUME Answers \subseteq Seq(LineKinds \ {"digits"})
    PROVE  Spec => []IndividualSteps
<1> DEFINE OneDigit == \A i \in 1..Len(answer) : answer[i] # "digits"
<1>1. Init => SplitInv /\ OneDigit
  <2>1. SUFFICES ASSUME Init PROVE SplitInv /\ OneDigit
    OBVIOUS
  <2>2. Answers \subseteq Seq(LineKinds)
    OBVIOUS
  <2>3. answer \in Seq(LineKinds \ {"digits"})
    BY <2>1 DEF Init
  <2> QED
    BY <2>1, <2>2, <2>3, SplitInit
<1>2. SplitInv /\ OneDigit /\ [Next]_split => SplitInv' /\ OneDigit'
  <2>1. SUFFICES ASSUME SplitInv, OneDigit, [Next]_split PROVE SplitInv' /\ OneDigit'
    OBVIOUS
  <2>2. answer' = answer
    BY <2>1 DEF Next, SkipBlank, StartStep, JoinStep, AtLine, Return, split
  <2> QED
    BY <2>1, <2>2, SplitStep
<1>3. SplitInv /\ OneDigit => IndividualSteps
  <2>1. SUFFICES ASSUME SplitInv, OneDigit PROVE IndividualSteps
    OBVIOUS
  <2>2. HoldsLines(answer, Gathered, line) /\ CutAtStarts(answer, Gathered)
    BY <2>1 DEF SplitInv, WellCut
  <2>3. line \in 0..Len(answer) /\ Len(answer) \in Nat
    BY <2>1 DEF SplitInv
  <2>4. ASSUME NEW k \in DOMAIN Gathered, NEW j \in DOMAIN Gathered[k]
        PROVE  answer[Gathered[k][j]] # "digits"
    BY <2>1, <2>2, <2>3, <2>4 DEF HoldsLines
  <2> QED
    BY <2>2, <2>4 DEF CutAtStarts, IndividualSteps, StartsStep, Numbered
<1> QED
  BY <1>1, <1>2, <1>3, PTL DEF Spec

=============================================================================
