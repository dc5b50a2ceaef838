--------------------------- MODULE ReproduceProofs ---------------------------
(***************************************************************************)
(* That a verdict is the truth's when nothing disturbed the comparisons    *)
(* behind it, that it stands on captures that passed, and what the gate's  *)
(* pass and the alternation are worth, for every bar, bias, file, number   *)
(* of pairs and anything else that may go on on the machine.               *)
(***************************************************************************)
EXTENDS Reproduce, TLAPS

\* The interval of a comparison of whole scans that nothing disturbed holds what
\* the harness shows.
Sound(c) ==
  Clean(c) => ratio[c].lo <= Shown(c) /\ Shown(c) <= ratio[c].hi

\* How often each side has gone first, by the scans that have ended: at the end
\* of every second recorded one.
Begun == (scans - 2 * Warmup + 1) \div 2
Turns ==
  /\ scans < 2 * Warmup => paid["left"] = 0 /\ paid["right"] = 0
  /\ scans >= 2 * Warmup => paid["left"] = (Begun + 1) \div 2 /\ paid["right"] = Begun \div 2

Typed ==
  /\ facts \in [truth : Truths, favour : Favours, bias : Biases]
  /\ command \in {"gate", "reproduce"} /\ anyway \in BOOLEAN
  /\ stage \in Stages /\ control \in BOOLEAN
  /\ failed \in [BOOLEAN -> [When -> BOOLEAN]]
  /\ scans \in Nat /\ paid \in [Sides -> Int]
  /\ disturbed \in [BOOLEAN -> BOOLEAN] /\ cut \in [BOOLEAN -> BOOLEAN]
  /\ ratio \in [BOOLEAN -> [ratio : Int, lo : Int, hi : Int]]

\* The control is compared before the reading begins.
ControlIsSound == command = "reproduce" /\ ~control => Sound(TRUE)

\* A comparison that is over is sound, of as many scans as were asked for, and
\* inside the bar if the gate let it pass.
Compared ==
  /\ stage \in {"measured", "passed"} => Sound(control)
  /\ stage = "passed" /\ command = "gate" => Within(ratio[control], GateBar)
  /\ stage \in {"after", "measured", "passed"} => scans = 2 * (Warmup + Pairs)

\* An attempt is what the two comparisons make, both of them over.
AttemptIsTheirs ==
  attempt # NoAttempt =>
    /\ command = "reproduce" /\ ~control
    /\ stage \in {"measured", "passed", "failed"}
    /\ attempt.kind = "measured"
    /\ attempt.value = One + ratio[FALSE].ratio
    /\ attempt.resolution = Resolution(ratio[TRUE])
    /\ attempt.caveats =
         IF \E c \in BOOLEAN : failed[c]["before"] THEN {"GatesOverridden"} ELSE {}

VerdictIsDecided == verdict # "none" => attempt # NoAttempt /\ verdict = Decide(attempt)

\* A capture that failed and was not overridden is the end, with no attempt.
RefusedIsTheEnd ==
  ~anyway =>
    \A c \in BOOLEAN, w \in When : failed[c][w] => stage = "failed" /\ attempt = NoAttempt

ClaimInv ==
  /\ Typed
  /\ Turns
  /\ ControlIsSound /\ Compared /\ AttemptIsTheirs /\ VerdictIsDecided
  /\ RefusedIsTheEnd

LEMMA ClaimStarts == ReproduceInit => ClaimInv
<1> SUFFICES ASSUME ReproduceInit
             PROVE  ClaimInv
  OBVIOUS
<1> USE DEF ReproduceInit, RatioInit
<1>1. Typed
  <2>1. control \in BOOLEAN /\ command \in {"gate", "reproduce"}
    BY Zenon
  <2>2. failed \in [BOOLEAN -> [When -> BOOLEAN]] /\ paid \in [Sides -> Int]
    OBVIOUS
  <2>3. NoRatio \in [ratio : Int, lo : Int, hi : Int]
    BY DEF NoRatio
  <2>4. ratio \in [BOOLEAN -> [ratio : Int, lo : Int, hi : Int]] /\ disturbed \in [BOOLEAN -> BOOLEAN]
        /\ cut \in [BOOLEAN -> BOOLEAN]
    BY <2>3
  <2>5. stage \in Stages /\ scans \in Nat
    BY DEF Stages
  <2> QED
    BY <2>1, <2>2, <2>4, <2>5 DEF Typed
<1>2. Turns
  BY RatioAssumption DEF Turns, Begun, Sides
<1>3. ControlIsSound /\ Compared /\ AttemptIsTheirs /\ VerdictIsDecided
  BY DEF ControlIsSound, Compared, AttemptIsTheirs, VerdictIsDecided
<1>4. RefusedIsTheEnd
  BY DEF RefusedIsTheEnd
<1> QED
  BY <1>1, <1>2, <1>3, <1>4 DEF ClaimInv

-----------------------------------------------------------------------------

\* What every step leaves as it is.
LEMMA Given ==
  ASSUME ReproduceNext
  PROVE  UNCHANGED <<command, anyway, facts>>
BY DEF ReproduceNext, ReproduceStep, Measure, Gate, Change, ThenTheReading, Attempted, Graded, Written,
       TakeBefore, SetUp, NextRange, RangeFails, ScanIsCut, ScanEnds, NextScan, TakeAfter, Compare, weather, ratioVars

LEMMA MarkIsTyped ==
  ASSUME NEW f \in [BOOLEAN -> [When -> BOOLEAN]], NEW c \in BOOLEAN, NEW w \in When, NEW b \in BOOLEAN
  PROVE  [f EXCEPT ![c][w] = b] \in [BOOLEAN -> [When -> BOOLEAN]]
OBVIOUS

LEMMA TypedKept == ClaimInv /\ ReproduceNext => Typed'
<1> SUFFICES ASSUME Typed, ReproduceNext
             PROVE  Typed'
  BY DEF ClaimInv
<1> USE DEF Typed, Goto, Stages, weather, ratioVars
<1>1. CASE Change \/ NextRange
  <2>1. \E b \in BOOLEAN : disturbed' = [disturbed EXCEPT ![control] = b]
    <3>1. PICK more \in BOOLEAN : disturbed' = [disturbed EXCEPT ![control] = @ \/ more]
      BY <1>1, Zenon DEF Change, NextRange, Recording
    <3> DEFINE b == disturbed[control] \/ more
    <3>2. b \in BOOLEAN /\ disturbed' = [disturbed EXCEPT ![control] = b]
      BY <3>1, Zenon
    <3> QED
      BY <3>2
  <2>2. UNCHANGED <<facts, command, anyway, stage, control, failed, scans, paid, cut, ratio>>
    BY <1>1 DEF Change, NextRange
  <2> QED
    BY <2>1, <2>2
<1>2. CASE TakeBefore \/ TakeAfter
  <2>1. failed' = failed \/ \E w \in When : failed' = [failed EXCEPT ![control][w] = ~Fit]
    BY <1>2, Zenon DEF TakeBefore, TakeAfter, Capture, When
  <2>2. \E b \in BOOLEAN : b = ~Fit
    OBVIOUS
  <2>3. failed' \in [BOOLEAN -> [When -> BOOLEAN]]
    <3>1. PICK b \in BOOLEAN : b = ~Fit
      BY <2>2
    <3>2. \A w \in When : [failed EXCEPT ![control][w] = b] \in [BOOLEAN -> [When -> BOOLEAN]]
      BY MarkIsTyped
    <3>3. failed' = failed \/ \E w \in When : failed' = [failed EXCEPT ![control][w] = b]
      BY <2>1, <3>1, Zenon
    <3> HIDE DEF Typed
    <3>4. failed \in [BOOLEAN -> [When -> BOOLEAN]]
      BY DEF Typed
    <3> QED
      BY <3>2, <3>3, <3>4, Zenon
  <2>4. stage' \in Stages /\ UNCHANGED <<facts, command, anyway, control, scans, paid, disturbed, cut, ratio>>
    BY <1>2 DEF TakeBefore, TakeAfter, Capture
  <2> QED
    BY <2>3, <2>4
<1>3. CASE SetUp \/ RangeFails
  BY <1>3 DEF SetUp, RangeFails
<1>5. CASE ScanIsCut \/ ScanEnds
  <2>0. NextScan /\ (cut' = cut \/ cut' = [cut EXCEPT ![control] = TRUE])
    BY <1>5 DEF ScanIsCut, ScanEnds
  <2>1. paid' \in [Sides -> Int]
    <3>1. First \in Sides
      BY DEF First, Sides
    <3>2. paid' = paid \/ paid' = [paid EXCEPT ![First] = @ + 1]
      BY <2>0 DEF NextScan
    <3> QED
      BY <3>1, <3>2
  <2>2. scans' \in Nat /\ UNCHANGED <<facts, command, anyway, stage, control, failed, disturbed, ratio>>
    BY <2>0 DEF NextScan
  <2>3. cut' \in [BOOLEAN -> BOOLEAN]
    BY <2>0
  <2> QED
    BY <2>1, <2>2, <2>3
<1>6. CASE Compare
  <2>1. ratio' = ratio \/ \E found \in Findings : ratio' = [ratio EXCEPT ![control] = found]
    BY <1>6 DEF Compare, Intervals
  <2>2. Findings \subseteq [ratio : Int, lo : Int, hi : Int]
    BY RatioAssumption
  <2>3. stage' \in Stages /\ UNCHANGED <<facts, command, anyway, control, failed, scans, paid, disturbed, cut>>
    BY <1>6 DEF Compare
  <2> QED
    BY <2>1, <2>2, <2>3
<1>7. CASE Gate \/ Attempted \/ Graded \/ Written
  BY <1>7 DEF Gate, Attempted, Graded, Written
<1>8. CASE ThenTheReading
  <2>1. paid' \in [Sides -> Int]
    BY <1>8 DEF ThenTheReading
  <2>3. control' \in BOOLEAN /\ stage' \in Stages /\ scans' \in Nat
    BY <1>8 DEF ThenTheReading
  <2>2. UNCHANGED <<facts, command, anyway, failed, disturbed, cut, ratio>>
    BY <1>8 DEF ThenTheReading
  <2> QED
    BY <2>1, <2>2, <2>3
<1> QED
  BY <1>1, <1>2, <1>3, <1>5, <1>6, <1>7, <1>8 DEF ReproduceNext, ReproduceStep, Measure

\* Scans alternate between the sides, and every second one begins a pair.
LEMMA TurnsKept == ClaimInv /\ ReproduceNext => Turns'
<1> SUFFICES ASSUME Typed, Turns, ReproduceNext
             PROVE  Turns'
  BY DEF ClaimInv
<1>1. CASE NextScan /\ stage = "scanning"
  <2>1. scans' = scans + 1 /\ Warmup \in Nat /\ scans \in Nat /\ stage = "scanning"
    BY <1>1, RatioAssumption DEF NextScan, Typed
  <2>2. CASE scans < 2 * Warmup
    <3>1. paid' = paid
      BY <1>1, <2>1, <2>2 DEF NextScan, Recording
    <3>2. CASE scans' < 2 * Warmup
      BY <2>1, <2>2, <3>1, <3>2 DEF Turns
    <3>3. CASE scans' = 2 * Warmup
      BY <2>1, <2>2, <3>1, <3>3 DEF Turns, Begun
    <3> QED
      BY <2>1, <2>2, <3>2, <3>3
  <2>3. CASE scans >= 2 * Warmup
    <3> DEFINE k == scans - 2 * Warmup
    <3>1. k \in Nat /\ k % 2 = scans % 2 /\ scans' - 2 * Warmup = k + 1
      BY <2>1, <2>3
    <3>2. paid["left"] = ((k + 1) \div 2 + 1) \div 2 /\ paid["right"] = ((k + 1) \div 2) \div 2
      BY <2>3 DEF Turns, Begun
    <3>3. CASE k % 2 = 1
      <4>1. paid' = paid
        BY <1>1, <3>1, <3>3 DEF NextScan
      <4>2. (k + 2) \div 2 = (k + 1) \div 2
        BY <3>1, <3>3
      <4> QED
        BY <2>1, <2>3, <3>1, <3>2, <4>1, <4>2 DEF Turns, Begun
    <3>4. CASE k % 2 = 0
      <4>1. paid' = [paid EXCEPT ![First] = @ + 1]
        BY <1>1, <2>1, <2>3, <3>1, <3>4 DEF NextScan, Recording
      <4>2. (k + 1) \div 2 = k \div 2 /\ (k + 2) \div 2 = k \div 2 + 1
        <5> HIDE DEF k
        <5> QED
          BY <3>1, <3>4
      <4> DEFINE h == k \div 2
      <4>3. h \in Nat /\ (First = IF h % 2 = 0 THEN "left" ELSE "right")
        BY <3>1 DEF First
      <4>4. paid["left"] = (h + 1) \div 2 /\ paid["right"] = h \div 2
        BY <3>2, <4>2
      <4>5. paid'["left"] = (h + 2) \div 2 /\ paid'["right"] = (h + 1) \div 2
        <5> HIDE DEF h
        <5>1. CASE h % 2 = 0
          <6>1. paid'["left"] = paid["left"] + 1 /\ paid'["right"] = paid["right"]
            BY <4>1, <4>3, <5>1 DEF Typed, Sides
          <6> QED
            BY <4>3, <4>4, <5>1, <6>1
        <5>2. CASE h % 2 # 0
          <6>1. paid'["left"] = paid["left"] /\ paid'["right"] = paid["right"] + 1
            BY <4>1, <4>3, <5>2 DEF Typed, Sides
          <6> QED
            BY <4>3, <4>4, <5>2, <6>1
        <5> QED
          BY <5>1, <5>2
      <4>6. Begun' = h + 1 /\ scans' >= 2 * Warmup
        BY <2>1, <2>3, <3>1, <4>2 DEF Begun
      <4> QED
        BY <2>1, <4>3, <4>5, <4>6 DEF Turns
    <3> QED
      BY <3>1, <3>3, <3>4
  <2> QED
    BY <2>1, <2>2, <2>3
<1>2. CASE ThenTheReading
  BY <1>2, RatioAssumption DEF ThenTheReading, Turns, Begun, Sides
<1>3. CASE UNCHANGED <<scans, paid>>
  BY <1>3 DEF Turns, Begun
<1> QED
  BY <1>1, <1>2, <1>3 DEF ReproduceNext, ReproduceStep, Measure, Gate, Change, Attempted, Graded, Written,
     TakeBefore, SetUp, NextRange, RangeFails, ScanIsCut, ScanEnds, TakeAfter, Compare, ratioVars

-----------------------------------------------------------------------------

\* The actions that read a comparison or begin another; the others are of one
\* that is going on.
LEMMA WhoComesAfter ==
  ASSUME ReproduceNext
  PROVE  \/ Change /\ UNCHANGED claimVars
         \/ Measure /\ stage \in {"before", "setup", "scanning", "after"} /\ UNCHANGED claimVars
         \/ Gate /\ UNCHANGED claimVars
         \/ ThenTheReading \/ Attempted \/ Graded \/ Written
BY DEF ReproduceNext, ReproduceStep, Measure, TakeBefore, SetUp, NextRange, RangeFails, ScanIsCut, ScanEnds, NextScan, TakeAfter,
       Compare

\* What was compared stays as it was found: outside of the scans of that very
\* comparison nothing is disturbed.
LEMMA SoundStays ==
  ASSUME Typed, ReproduceNext, NEW c \in BOOLEAN, Sound(c), ratio'[c] = ratio[c],
         c # control \/ stage # "scanning"
  PROVE  Sound(c)'
<1>1. UNCHANGED facts
  BY Given
<1>2. disturbed'[c] = disturbed[c]
  <2>1. CASE Change
    <3>1. disturbed' = [disturbed EXCEPT ![control] = @ \/ Recording]
      BY <2>1 DEF Change
    <3>2. CASE c # control
      BY <3>1, <3>2 DEF Typed
    <3>3. CASE stage # "scanning"
      <4>1. ~Recording /\ control \in BOOLEAN /\ disturbed \in [BOOLEAN -> BOOLEAN]
        BY <3>3 DEF Recording, Typed
      <4>2. (disturbed[control] \/ Recording) = disturbed[control]
        BY <4>1, Zenon
      <4> QED
        BY <3>1, <4>1, <4>2
    <3> QED
      BY <3>2, <3>3
  <2>2. CASE NextRange
    <3>1. c # control /\ disturbed' = [disturbed EXCEPT ![control] = @ \/ (Recording /\ ~Fit)]
      BY <2>2 DEF NextRange
    <3> QED
      BY <3>1 DEF Typed
  <2>3. CASE ~Change /\ ~NextRange
    BY <2>3 DEF ReproduceNext, ReproduceStep, Measure, Gate, ThenTheReading, Attempted, Graded, Written,
       TakeBefore, SetUp, RangeFails, ScanIsCut, ScanEnds, NextScan, TakeAfter, Compare, ratioVars
  <2> QED
    BY <2>1, <2>2, <2>3
<1>3. cut'[c] = cut[c]
  <2>1. CASE ScanIsCut
    BY <2>1 DEF ScanIsCut, Typed
  <2>2. CASE ~ScanIsCut
    BY <2>2 DEF ReproduceNext, ReproduceStep, Measure, Change, Gate, ThenTheReading, Attempted, Graded, Written,
       TakeBefore, SetUp, NextRange, RangeFails, ScanEnds, TakeAfter, Compare, ratioVars
  <2> QED
    BY <2>1, <2>2
<1> QED
  BY <1>1, <1>2, <1>3 DEF Sound, Shown, Clean

\* Compare finds what was not disturbed where it is.
LEMMA ComparisonIsSound ==
  ASSUME Typed, Compare, stage' = "measured"
  PROVE  Sound(control)' /\ \A c \in BOOLEAN : c # control => ratio'[c] = ratio[c]
<1>1. PICK found \in Intervals(control) : ratio' = [ratio EXCEPT ![control] = found]
  BY DEF Compare, Goto, Typed, Stages
<1>2. UNCHANGED <<control, disturbed, cut, facts>> /\ ratio'[control] = found
  BY <1>1 DEF Compare, weather, Typed
<1>3. Clean(control) => found.lo <= Shown(control) /\ Shown(control) <= found.hi
  BY DEF Intervals
<1> QED
  BY <1>1, <1>2, <1>3 DEF Sound, Shown, Clean, Typed

LEMMA ControlIsSoundKept == ClaimInv /\ ReproduceNext => ControlIsSound'
<1> SUFFICES ASSUME ClaimInv, ReproduceNext, command' = "reproduce", ~control'
             PROVE  Sound(TRUE)'
  BY DEF ControlIsSound, Sound, Shown, Clean
<1>0. Typed /\ ControlIsSound /\ Compared /\ command = "reproduce"
  BY Given DEF ClaimInv
<1>1. CASE ThenTheReading
  <2>1. control /\ stage = "measured" /\ ratio' = ratio
    BY <1>1 DEF ThenTheReading
  <2>2. Sound(TRUE)
    BY <1>0, <2>1 DEF Compared, Typed
  <2> QED
    BY <1>0, <2>1, <2>2, SoundStays
<1>2. CASE ~ThenTheReading
  <2>1. ~control
    BY <1>2 DEF ReproduceNext, ReproduceStep, Measure, Gate, Change, Attempted, Graded, Written,
       TakeBefore, SetUp, NextRange, RangeFails, ScanIsCut, ScanEnds, NextScan, TakeAfter, Compare, ratioVars
  <2>2. ratio'[TRUE] = ratio[TRUE]
    BY <1>0, <1>2, <2>1 DEF Typed, ReproduceNext, ReproduceStep, Measure, Gate, Change, Attempted, Graded,
       Written, TakeBefore, SetUp, NextRange, RangeFails, ScanIsCut, ScanEnds, NextScan, TakeAfter, Compare, ratioVars
  <2> QED
    BY <1>0, <2>1, <2>2, SoundStays DEF ControlIsSound
<1> QED
  BY <1>1, <1>2

LEMMA ComparedKept == ClaimInv /\ ReproduceNext => Compared'
<1> SUFFICES ASSUME ClaimInv, ReproduceNext
             PROVE  Compared'
  OBVIOUS
<1>0. Typed /\ Compared /\ AttemptIsTheirs /\ VerdictIsDecided /\ UNCHANGED command
  BY Given DEF ClaimInv
<1>1. CASE Change \/ Attempted \/ Graded
  <2>1. UNCHANGED <<control, ratio, scans>> /\ (stage' = stage \/ stage' = "failed")
    BY <1>1 DEF Change, Attempted, Graded, Goto, ratioVars
  <2>2. stage \in {"measured", "passed"} => Sound(control)'
    BY <1>0, <2>1, SoundStays DEF Compared, Typed, Sound, Shown, Clean
  <2> QED
    BY <1>0, <2>1, <2>2 DEF Compared, Within, Sound, Shown, Clean
<1>2. CASE Gate \/ Written
  <2>1. /\ UNCHANGED <<control, ratio, scans>> /\ stage = "measured"
        /\ stage' \in {"failed", "passed"}
        /\ stage' = "passed" /\ command = "gate" => Within(ratio[control], GateBar)
    <3>1. CASE Gate
      BY <3>1 DEF Gate, Goto
    <3>2. CASE Written
      <4>1. attempt # NoAttempt
        BY <1>0, <3>2 DEF Written, Verdicts, VerdictIsDecided
      <4> QED
        BY <1>0, <3>2, <4>1 DEF Written, Goto, AttemptIsTheirs
    <3> QED
      BY <1>2, <3>1, <3>2
  <2>2. Sound(control)'
    BY <1>0, <2>1, SoundStays DEF Compared, Typed, Sound, Shown, Clean
  <2> QED
    BY <1>0, <2>1, <2>2 DEF Compared, Within, Sound, Shown, Clean
<1>3. CASE TakeBefore \/ SetUp \/ NextRange \/ RangeFails \/ ScanIsCut \/ ScanEnds \/ ThenTheReading
  <2>1. stage' \notin {"after", "measured", "passed"}
    BY <1>3 DEF TakeBefore, SetUp, NextRange, RangeFails, ScanIsCut, ScanEnds, NextScan, ThenTheReading, Capture, Goto
  <2> QED
    BY <2>1 DEF Compared
<1>4. CASE TakeAfter
  BY <1>4 DEF TakeAfter, Capture, Goto, Compared
<1>5. CASE Compare
  <2>1. stage' \in {"measured", "failed"} /\ stage = "after" /\ UNCHANGED scans
    BY <1>5 DEF Compare, Goto
  <2>2. stage' = "measured" => Sound(control)'
    BY <1>0, <1>5, ComparisonIsSound
  <2> QED
    BY <1>0, <2>1, <2>2 DEF Compared
<1> QED
  BY <1>1, <1>2, <1>3, <1>4, <1>5 DEF ReproduceNext, ReproduceStep, Measure

LEMMA AttemptKept == ClaimInv /\ ReproduceNext => AttemptIsTheirs' /\ VerdictIsDecided'
<1> SUFFICES ASSUME ClaimInv, ReproduceNext
             PROVE  AttemptIsTheirs' /\ VerdictIsDecided'
  OBVIOUS
<1>0. Typed /\ AttemptIsTheirs /\ VerdictIsDecided /\ UNCHANGED command
  BY Given DEF ClaimInv
<1>1. CASE Attempted
  <2>1. UNCHANGED <<control, stage, ratio, failed, verdict>> /\ stage = "measured" /\ ~control
        /\ command = "reproduce" /\ attempt = NoAttempt
    BY <1>1 DEF Attempted, ratioVars
  <2>2. verdict' = "none"
    BY <1>0, <2>1 DEF VerdictIsDecided
  <2>3. /\ attempt'.kind = "measured" /\ attempt'.value = One + ratio[FALSE].ratio
        /\ attempt'.resolution = Resolution(ratio[TRUE])
        /\ attempt'.caveats =
             IF \E c \in BOOLEAN : failed[c]["before"] THEN {"GatesOverridden"} ELSE {}
    BY <1>1 DEF Attempted
  <2> QED
    BY <1>0, <2>1, <2>2, <2>3 DEF AttemptIsTheirs, VerdictIsDecided, Resolution
<1>2. CASE attempt = NoAttempt /\ ~Attempted
  <2>1. verdict = "none" /\ attempt' = NoAttempt
    BY <1>0, <1>2, WhoComesAfter DEF VerdictIsDecided, ThenTheReading, Graded, Written, claimVars
  <2>2. verdict' = "none"
    BY <1>2, <2>1, WhoComesAfter DEF ThenTheReading, Graded, Written, claimVars, Verdicts
  <2> QED
    BY <2>1, <2>2 DEF AttemptIsTheirs, VerdictIsDecided
<1>3. CASE attempt # NoAttempt
  <2>1. /\ UNCHANGED <<control, ratio, failed, attempt>> /\ stage' \in {"measured", "passed", "failed"}
        /\ verdict' = verdict \/ verdict' = Decide(attempt)
    <3>1. ~Measure /\ ~Gate /\ ~ThenTheReading /\ ~Attempted
      BY <1>0, <1>3 DEF AttemptIsTheirs, Measure, TakeBefore, SetUp, NextRange, RangeFails, ScanIsCut, ScanEnds, NextScan, TakeAfter,
         Compare, Gate, ThenTheReading, Attempted
    <3> QED
      BY <1>0, <1>3, <3>1 DEF AttemptIsTheirs, ReproduceNext, ReproduceStep, Change, Graded, Written, Goto,
         claimVars
  <2>2. AttemptIsTheirs'
    BY <1>0, <1>3, <2>1 DEF AttemptIsTheirs, Resolution
  <2>3. VerdictIsDecided'
    BY <1>0, <1>3, <2>1 DEF VerdictIsDecided
  <2> QED
    BY <2>2, <2>3
<1> QED
  BY <1>1, <1>2, <1>3

LEMMA RefusedKept == ClaimInv /\ ReproduceNext => RefusedIsTheEnd'
<1> SUFFICES ASSUME ClaimInv, ReproduceNext, ~anyway, NEW c \in BOOLEAN, NEW w \in When, failed'[c][w]
             PROVE  stage' = "failed" /\ attempt' = NoAttempt
  BY Given DEF RefusedIsTheEnd
<1>0. Typed /\ AttemptIsTheirs /\ RefusedIsTheEnd
  BY DEF ClaimInv
<1>1. CASE failed' = failed
  <2>1. stage = "failed" /\ attempt = NoAttempt
    BY <1>0, <1>1 DEF RefusedIsTheEnd
  <2> QED
    BY <2>1, WhoComesAfter DEF Change, Gate, ThenTheReading, Attempted, Graded, Written, claimVars
<1>2. CASE failed' # failed
  <2>1. (TakeBefore \/ TakeAfter) /\ UNCHANGED claimVars
    BY <1>2 DEF ReproduceNext, ReproduceStep, Measure, Gate, Change, ThenTheReading, Attempted, Graded, Written,
       SetUp, NextRange, RangeFails, ScanIsCut, ScanEnds, NextScan, Compare, ratioVars
  <2>2. PICK v \in When : failed' = [failed EXCEPT ![control][v] = ~Fit] /\ (Fit \/ stage' = "failed")
    BY <1>2, <2>1 DEF TakeBefore, TakeAfter, Capture, Goto, When
  <2>3. stage # "failed" /\ attempt = NoAttempt
    BY <1>0, <2>1 DEF TakeBefore, TakeAfter, AttemptIsTheirs
  <2>4. ~failed[c][w]
    BY <1>0, <2>3 DEF RefusedIsTheEnd
  <2>5. stage' = "failed"
    <3> SUFFICES ASSUME Fit
                 PROVE  FALSE
      BY <2>2
    <3>1. failed' = [failed EXCEPT ![control][v] = FALSE]
      BY <2>2
    <3> QED
      BY <1>0, <2>4, <3>1 DEF Typed
  <2> QED
    BY <2>1, <2>3, <2>5 DEF claimVars
<1> QED
  BY <1>1, <1>2

LEMMA ClaimKept == ClaimInv /\ [ReproduceNext]_reproduceVars => ClaimInv'
<1> SUFFICES ASSUME ClaimInv, [ReproduceNext]_reproduceVars
             PROVE  ClaimInv'
  OBVIOUS
<1>1. CASE ReproduceNext
  BY <1>1, TypedKept, TurnsKept, ControlIsSoundKept, ComparedKept, AttemptKept, RefusedKept DEF ClaimInv
<1>2. CASE UNCHANGED reproduceVars
  BY <1>2 DEF ClaimInv, Typed, Turns, Begun, ControlIsSound, Compared, AttemptIsTheirs, VerdictIsDecided,
     RefusedIsTheEnd, Sound, Shown, Clean, Within, Resolution, reproduceVars, ratioVars, weather, claimVars
<1> QED
  BY <1>1, <1>2

THEOREM ClaimInvariant == ReproduceSpec => []ClaimInv
BY ClaimStarts, ClaimKept, PTL DEF ReproduceSpec

-----------------------------------------------------------------------------

\* Distances on a line: b off the truth and e off what is shown is no further
\* from it than the two together.
LEMMA Distances ==
  ASSUME NEW t \in Int, NEW b \in Int, NEW x \in Int, NEW o \in Int
  PROVE  /\ Abs(o + t) <= Abs(o + x) + Abs(x - (t + b)) + Abs(b)
         /\ Abs(o + x) <= Abs(o + t) + Abs(x - (t + b)) + Abs(b)
BY DEF Abs

LEMMA ResolutionCovers ==
  ASSUME NEW r \in [ratio : Int, lo : Int, hi : Int], NEW b \in Int, r.lo <= b, b <= r.hi
  PROVE  Abs(b) <= Resolution(r) /\ Resolution(r) \in Int
BY DEF Resolution, Abs

\* Which way a bar was decided says how far off the value is, and the
\* resolution counts against either answer.
LEMMA DecidedByTheBar ==
  ASSUME NEW a, a.kind = "measured", a.value \in Int, a.resolution \in Int
  PROVE  /\ Decide(a) \in {"REPRODUCED", "REPRODUCED-WITH-CAVEAT"} =>
              Abs(a.value - Target) + a.resolution <= Tolerance
         /\ Decide(a) = "NOT-REPRODUCED" => Abs(a.value - Target) - a.resolution > Tolerance
BY DEF Decide, DecideMeasured, DecideBar

\* Everything that is compared is a number of units.
LEMMA AllAreNumbers ==
  ASSUME Typed
  PROVE  /\ facts.truth \in Int /\ facts.favour \in Int /\ facts.bias \in Int /\ GateBar \in Int
         /\ One \in Int /\ Target \in Int /\ Tolerance \in Int
         /\ \A c \in BOOLEAN : /\ ratio[c] \in [ratio : Int, lo : Int, hi : Int] /\ Shown(c) \in Int
                             /\ ratio[c].ratio \in Int /\ ratio[c].lo \in Int /\ ratio[c].hi \in Int
<1>1. facts.truth \in Int /\ facts.favour \in Int /\ facts.bias \in Int /\ GateBar \in Int
  <2>1. facts.truth \in Truths /\ facts.favour \in Favours /\ facts.bias \in Biases
    BY DEF Typed
  <2>2. Truths \subseteq Int /\ Favours \subseteq Nat /\ Biases \subseteq Int /\ GateBar \in Int
    BY RatioAssumption
  <2>3. \A n : n \in Favours => n \in Int
    BY <2>2
  <2>4. facts.favour \in Int
    BY <2>1, <2>3, Zenon
  <2>5. facts.truth \in Int /\ facts.bias \in Int
    BY <2>1, <2>2, Zenon
  <2> QED
    BY <2>2, <2>4, <2>5, Zenon
<1>2. One \in Int /\ Target \in Int /\ Tolerance \in Int
  BY BarAssumption
<1>3. ASSUME NEW c \in BOOLEAN
      PROVE  ratio[c] \in [ratio : Int, lo : Int, hi : Int]
  BY DEF Typed
<1>4. ASSUME NEW c \in BOOLEAN
      PROVE  Shown(c) \in Int
  <2>1. CASE c
    BY <1>1, <2>1 DEF Shown
  <2>2. CASE ~c
    BY <1>1, <2>2 DEF Shown
  <2> QED
    BY <2>1, <2>2
<1>5. \A c \in BOOLEAN : ratio[c].ratio \in Int /\ ratio[c].lo \in Int /\ ratio[c].hi \in Int
  BY <1>3
<1> QED
  BY <1>1, <1>2, <1>3, <1>4, <1>5

\* reproduce.rs, resolution: for every bar, bias and interval, a verdict in
\* either direction is the truth's, up to the reading's own sampling error and
\* what the buffer is favoured by, when nothing disturbed or cut short the two
\* comparisons; and what the buffer is favoured by only ever counts against a
\* window that is reproduced.
THEOREM VerdictIsTrueHolds == ReproduceSpec => []VerdictIsTrue
<1>1. ASSUME ClaimInv, Quiet, verdict # "none"
      PROVE  /\ verdict \in {"REPRODUCED", "REPRODUCED-WITH-CAVEAT"} =>
                  /\ Off + facts.favour <= Tolerance + SamplingError
                  /\ -(Off + facts.favour) <= Tolerance + SamplingError
             /\ verdict = "NOT-REPRODUCED" => Abs(Off + facts.favour) > Tolerance - SamplingError
  <2> DEFINE t == facts.truth + facts.favour
             b == facts.bias
             x == ratio[FALSE].ratio
             o == One - Target
  <2>1. /\ attempt.kind = "measured" /\ attempt.value = One + x
        /\ attempt.resolution = Resolution(ratio[TRUE])
        /\ verdict = Decide(attempt) /\ command = "reproduce" /\ ~control
    BY <1>1 DEF ClaimInv, VerdictIsDecided, AttemptIsTheirs
  <2>a. Typed /\ FALSE \in BOOLEAN /\ TRUE \in BOOLEAN
    BY <1>1 DEF ClaimInv
  <2>b. ratio[TRUE] \in [ratio : Int, lo : Int, hi : Int]
    BY <2>a, AllAreNumbers
  <2>d. facts.truth \in Int /\ facts.favour \in Int /\ t = facts.truth + facts.favour
    BY <2>a, AllAreNumbers
  <2>e. t \in Int
    <3> HIDE DEF t
    <3> QED
      BY <2>d
  <2>f. b \in Int /\ x \in Int /\ One \in Int /\ Target \in Int /\ Tolerance \in Int
    BY <2>a, AllAreNumbers
  <2>c. t \in Int /\ b \in Int /\ x \in Int /\ One \in Int /\ Target \in Int /\ Tolerance \in Int
    BY <2>e, <2>f
  <2>2. /\ t \in Int /\ b \in Int /\ x \in Int /\ One \in Int /\ Target \in Int /\ Tolerance \in Int
        /\ o \in Int
    <3> HIDE DEF t, b, x
    <3> QED
      BY <2>c
  <2>3. ratio[TRUE].lo <= b /\ b <= ratio[TRUE].hi
    <3>1. Sound(TRUE) /\ Clean(TRUE)
      BY <1>1, <2>1 DEF ClaimInv, ControlIsSound, Quiet
    <3>2. ratio[TRUE].lo <= Shown(TRUE) /\ Shown(TRUE) <= ratio[TRUE].hi
      BY <3>1 DEF Sound
    <3>3. Shown(TRUE) = b
      BY <2>2 DEF Shown
    <3> QED
      BY <3>2, <3>3
  <2>4. Abs(b) <= attempt.resolution /\ attempt.resolution \in Int
    BY <2>1, <2>2, <2>b, <2>3, ResolutionCovers
  <2>5. Off + facts.favour = o + t /\ SamplingError = Abs(x - (t + b)) /\ attempt.value - Target = o + x
    <3>1. Off + facts.favour = o + t /\ attempt.value - Target = o + x
      <4> HIDE DEF x
      <4> QED
        BY <2>1, <2>2, <2>a, AllAreNumbers DEF o, t, Off
    <3>2. Shown(FALSE) = t + b
      BY DEF Shown
    <3> QED
      BY <3>1, <3>2 DEF SamplingError
  <2>6. /\ verdict \in {"REPRODUCED", "REPRODUCED-WITH-CAVEAT"} =>
             Abs(o + x) + attempt.resolution <= Tolerance
        /\ verdict = "NOT-REPRODUCED" => Abs(o + x) - attempt.resolution > Tolerance
    <3>1. attempt.value \in Int
      <4> HIDE DEF x
      <4> QED
        BY <2>1, <2>2
    <3> QED
      BY <2>1, <2>4, <2>5, <3>1, DecidedByTheBar
  <2>7. /\ Abs(o + t) <= Abs(o + x) + Abs(x - (t + b)) + Abs(b)
        /\ Abs(o + x) <= Abs(o + t) + Abs(x - (t + b)) + Abs(b)
    BY <2>2, Distances
  <2>8. Abs(o + t) \in Int /\ Abs(o + x) \in Int /\ Abs(x - (t + b)) \in Int /\ Abs(b) \in Int
    <3> HIDE DEF t, b, x, o
    <3> QED
      BY <2>2 DEF Abs
  <2>9. o + t <= Abs(o + t) /\ -(o + t) <= Abs(o + t)
    <3> HIDE DEF t, o
    <3> QED
      BY <2>2 DEF Abs
  <2> HIDE DEF t, b, x, o
  <2> QED
    BY <2>2, <2>4, <2>5, <2>6, <2>7, <2>8, <2>9
<1>2. ClaimInv => VerdictIsTrue
  BY <1>1 DEF VerdictIsTrue
<1> QED
  BY <1>2, ClaimInvariant, PTL

\* Capture and unfit: without --anyway no verdict stands on a capture that
\* failed, the ones taken after a comparison among them.
THEOREM VerdictBetweenPassesHolds == ReproduceSpec => []VerdictBetweenPasses
<1>1. ASSUME ClaimInv, verdict \in Verdicts, ~anyway
      PROVE  (\A c \in BOOLEAN, w \in When : ~failed[c][w]) /\ attempt.caveats = {}
  <2>1. attempt # NoAttempt
    BY <1>1 DEF ClaimInv, VerdictIsDecided, Verdicts
  <2>2. \A c \in BOOLEAN, w \in When : ~failed[c][w]
    BY <1>1, <2>1 DEF ClaimInv, RefusedIsTheEnd
  <2>3. attempt.caveats = {}
    BY <1>1, <2>1, <2>2 DEF ClaimInv, AttemptIsTheirs, When
  <2> QED
    BY <2>2, <2>3
<1> QED
  BY <1>1, ClaimInvariant, PTL DEF VerdictBetweenPasses

\* resident::gate: a pass of whole scans that nothing disturbed is a pass of what the harness
\* shows, for every bar and interval.
THEOREM PassedIsWithinHolds == ReproduceSpec => []PassedIsWithin
<1>1. ASSUME ClaimInv, command = "gate", stage = "passed", Clean(control)
      PROVE  Shown(control) <= GateBar /\ -Shown(control) <= GateBar
  <2>1. /\ ratio[control].lo <= Shown(control) /\ Shown(control) <= ratio[control].hi
        /\ ratio[control].lo >= -GateBar /\ ratio[control].hi <= GateBar
    BY <1>1 DEF ClaimInv, Compared, Sound, Within
  <2>2. ratio[control].lo \in Int /\ ratio[control].hi \in Int /\ GateBar \in Int /\ Shown(control) \in Int
    BY <1>1, AllAreNumbers DEF ClaimInv, Typed
  <2> QED
    BY <2>1, <2>2
<1> QED
  BY <1>1, ClaimInvariant, PTL DEF PassedIsWithin

\* measure, run_once: neither side goes first twice more than the other, at
\* every scan of any number of pairs behind any warmup, and every pair counts.
THEOREM FirstTurnsAreSharedHolds == ReproduceSpec => []FirstTurnsAreShared
<1>1. ASSUME ClaimInv
      PROVE  FirstTurnsAreShared
  <2>1. Warmup \in Nat /\ Pairs \in Nat /\ scans \in Nat
    BY <1>1, RatioAssumption DEF ClaimInv, Typed
  <2>2. CASE scans < 2 * Warmup
    BY <1>1, <2>1, <2>2 DEF ClaimInv, Turns, Compared, FirstTurnsAreShared
  <2>3. CASE scans >= 2 * Warmup
    <3>1. Begun \in Nat /\ paid["left"] = (Begun + 1) \div 2 /\ paid["right"] = Begun \div 2
      BY <1>1, <2>1, <2>3 DEF ClaimInv, Turns, Begun
    <3>2. stage \in {"after", "measured", "passed"} => Begun = Pairs
      BY <1>1, <2>1 DEF ClaimInv, Compared, Begun
    <3>3. (Begun + 1) \div 2 - Begun \div 2 \in {0, 1} /\ (Begun + 1) \div 2 + Begun \div 2 = Begun
      <4> HIDE DEF Begun
      <4> QED
        BY <3>1
    <3> QED
      BY <3>1, <3>2, <3>3 DEF FirstTurnsAreShared
  <2> QED
    BY <2>1, <2>2, <2>3
<1> QED
  BY <1>1, ClaimInvariant, PTL

=============================================================================
