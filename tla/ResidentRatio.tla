--------------------------- MODULE ResidentRatio ---------------------------
(***************************************************************************)
(* resident::measure and resident::gate of crates/bench-cli/src/resident.rs*)
(* over a machine that changes while it is measured: a capture of the      *)
(* gates, the file, the warmup, the alternating pairs, a second capture,   *)
(* the ratio and its interval.  Ratios are offsets from parity, in units   *)
(* of a fraction.  The interval of whole scans that nothing disturbed      *)
(* holds what the harness shows; that of others is anywhere.               *)
(***************************************************************************)
EXTENDS MachineGates

CONSTANTS
  Size, Span, Chunk,  \* Setup: of the file, the window and a range
  Pairs, Warmup,      \* Setup::pairs and the warmup
  GateBar,            \* --bar of the gate command
  Machine,            \* what the command runs on
  Doings,             \* what else may go on there
  Truths,             \* what the window may cost
  Favours,            \* "What this comparison gives away": what the buffer may be favoured by
  Biases,             \* what the harness may add to whatever it compares
  Findings,           \* what a ratio and the ends of its interval may come to
  MaxChanges          \* bound: how often something starts or ends on the machine

ASSUME SizesAssumption == Size \in Nat \ {0} /\ Span \in Nat /\ Chunk \in Nat \ {0}
ASSUME RatioAssumption ==
  /\ Pairs \in Nat /\ Warmup \in Nat
  /\ Truths \subseteq Int /\ Favours \subseteq Nat /\ Biases \subseteq Int
  /\ Findings \subseteq [ratio : Int, lo : Int, hi : Int]
  /\ GateBar \in Int
ASSUME DoingsAssumption ==
  \A doing \in Doings : DOMAIN doing = {"available", "load", "busy"}

VARIABLES
  command,   \* which command measures: the gate, or reproduce
  anyway,    \* --anyway was given
  facts,     \* what is true of the window and of the harness
  doing,     \* what the machine is doing at this moment
  changes,   \* how often that has changed
  stage,     \* where measure is
  control,   \* Setup::control: two buffers rather than a window and a buffer
  failed,    \* failed[c][w]: Capture::failed of the capture taken before or after
  scans,     \* scans begun and ended so far, warmup included
  at,        \* how far the scan going on has read
  paid,      \* paid[s]: the recorded pairs in which the side s went first
  disturbed, \* disturbed[c]: something else ran during a recorded scan
  cut,       \* cut[c]: a recorded scan ended at a range that could not be read
  ratio      \* ratio[c]: what the comparison came to, once it did

weather == <<command, anyway, facts, doing, changes>>
ratioVars == <<weather, stage, control, failed, scans, at, paid, disturbed, cut, ratio>>

Sides == {"left", "right"}
When == {"before", "after"}
Stages == {"before", "setup", "scanning", "after", "measured", "passed", "failed"}
NoRatio == [ratio |-> 0, lo |-> 1, hi |-> -1]

\* A scan never reads past the end of its file, and there are no more scans
\* than the warmup and the pairs ask for.
RatioTypeOK ==
  /\ command \in {"gate", "reproduce"}
  /\ anyway \in BOOLEAN
  /\ facts \in [truth : Truths, favour : Favours, bias : Biases]
  /\ doing \in Doings
  /\ changes \in 0..MaxChanges
  /\ stage \in Stages
  /\ control \in BOOLEAN
  /\ failed \in [BOOLEAN -> [When -> BOOLEAN]]
  /\ scans \in 0..(2 * (Warmup + Pairs))
  /\ at \in 0..Size
  /\ paid \in [Sides -> 0..Pairs]
  /\ disturbed \in [BOOLEAN -> BOOLEAN]
  /\ cut \in [BOOLEAN -> BOOLEAN]
  /\ ratio \in [BOOLEAN -> [ratio : Int, lo : Int, hi : Int]]

RatioInit ==
  /\ anyway \in BOOLEAN
  /\ facts \in [truth : Truths, favour : Favours, bias : Biases]
  /\ doing \in Doings /\ changes = 0
  /\ stage = "before"
  /\ failed = [c \in BOOLEAN |-> [w \in When |-> FALSE]]
  /\ scans = 0 /\ at = 0
  /\ paid = [s \in Sides |-> 0]
  /\ disturbed = [c \in BOOLEAN |-> FALSE]
  /\ cut = [c \in BOOLEAN |-> FALSE]
  /\ ratio = [c \in BOOLEAN |-> NoRatio]

Fit == ~GateFailed(CaptureOf(Machine, doing))
Recording == stage = "scanning" /\ scans >= 2 * Warmup
Goto(s) == stage' = s

\* Something else starts or stops running on the machine.
Change ==
  /\ changes < MaxChanges
  /\ changes' = changes + 1
  /\ doing' \in Doings \ {doing}
  /\ disturbed' = [disturbed EXCEPT ![control] = @ \/ Recording]
  /\ UNCHANGED <<command, anyway, facts, stage, control, failed, scans, at, paid, cut, ratio>>

\* A slip in Capture: a failed gate is noted and nothing is refused.
Capture_WarnsOnly(when, next) ==
  /\ failed' = [failed EXCEPT ![control][when] = ~Fit]
  /\ Goto(next)

\* Capture::take and unfit: what is asked of the capture is its gates.
Capture(when, next) ==
  /\ failed' = [failed EXCEPT ![control][when] = ~Fit]
  /\ Goto(IF Fit \/ anyway THEN next ELSE "failed")

\* The chunk is checked against the window before the machine is looked at.
TakeBefore ==
  /\ stage = "before"
  /\ IF Chunk > Span /\ ~control
       THEN Goto("failed") /\ UNCHANGED failed
       ELSE Capture("before", "setup")
  /\ UNCHANGED <<weather, control, scans, at, paid, disturbed, cut, ratio>>

\* The file is written and read back and the window is reserved, or not.
SetUp ==
  /\ stage = "setup"
  /\ \E s \in {"scanning", "failed"} : Goto(s)
  /\ UNCHANGED <<weather, control, failed, scans, at, paid, disturbed, cut, ratio>>

Lesser(a, b) == IF a < b THEN a ELSE b

\* scan: the next range, which may be the last and a short one.
NextRange ==
  /\ stage = "scanning"
  /\ scans < 2 * (Warmup + Pairs) /\ at < Size
  /\ at' = at + Lesser(Size - at, Chunk)
  /\ disturbed' = [disturbed EXCEPT ![control] = @ \/ (Recording /\ ~Fit)]
  /\ UNCHANGED <<weather, stage, control, failed, scans, paid, cut, ratio>>

\* scan: a range cannot be read, which ends the command when it is the warmup's.
RangeFails ==
  /\ stage = "scanning" /\ ~Recording
  /\ scans < 2 * (Warmup + Pairs) /\ at < Size
  /\ Goto("failed")
  /\ UNCHANGED <<weather, control, failed, scans, at, paid, disturbed, cut, ratio>>

\* A slip in First: the windowed side always goes first.
First_Always ==
  "left"

\* Which side goes first, by the parity of the pair.
First == IF ((scans - 2 * Warmup) \div 2) % 2 = 0 THEN "left" ELSE "right"

\* The other side or the next pair is due.
NextScan ==
  /\ at' = 0
  /\ scans' = scans + 1
  /\ paid' = IF Recording /\ scans % 2 = 0 THEN [paid EXCEPT ![First] = @ + 1] ELSE paid
  /\ UNCHANGED <<weather, stage, control, failed, disturbed, ratio>>

\* measure: of a recorded scan only the time is kept, `time(..).1`, so one whose
\* range cannot be read is as long as it got, and its error is dropped.
ScanIsCut ==
  /\ stage = "scanning" /\ Recording
  /\ scans < 2 * (Warmup + Pairs) /\ at < Size
  /\ cut' = [cut EXCEPT ![control] = TRUE]
  /\ NextScan

\* A slip in ScanEnds: the scan goes on at its end.
ScanEnds_Past ==
  /\ stage = "scanning" /\ at > Size
  /\ NextScan
  /\ UNCHANGED cut

\* scan returns its sum.
ScanEnds ==
  /\ stage = "scanning" /\ at = Size
  /\ NextScan
  /\ UNCHANGED cut

TakeAfter ==
  /\ stage = "scanning" /\ scans = 2 * (Warmup + Pairs)
  /\ Capture("after", "after")
  /\ UNCHANGED <<weather, control, scans, at, paid, disturbed, cut, ratio>>

\* What the harness shows of two buffers is its bias.  Of a window and a buffer
\* it shows what the window costs as well, and what the buffer is favoured by: it
\* pays for its allocation and its first touch before anything is timed.
Shown(c) == (IF c THEN 0 ELSE facts.truth + facts.favour) + facts.bias

\* Every recorded scan read its whole file with nothing else going on.
Clean(c) == ~disturbed[c] /\ ~cut[c]

\* What paired_ratio may find.  One pair says nothing of its own spread.  The
\* interval is made of percentiles of resamples, which the point is not one of.
Intervals(c) ==
  {r \in Findings :
     /\ r.lo <= r.hi
     /\ Pairs = 1 => r.lo = r.ratio /\ r.hi = r.ratio
     /\ Clean(c) => r.lo <= Shown(c) /\ Shown(c) <= r.hi}

Compare ==
  /\ stage = "after"
  /\ IF Pairs = 0
       THEN Goto("failed") /\ UNCHANGED ratio
       ELSE /\ \E found \in Intervals(control) : ratio' = [ratio EXCEPT ![control] = found]
            /\ Goto("measured")
  /\ UNCHANGED <<weather, control, failed, scans, at, paid, disturbed, cut>>

Measure ==
  \/ TakeBefore \/ SetUp
  \/ NextRange \/ RangeFails \/ ScanIsCut \/ ScanEnds
  \/ TakeAfter \/ Compare

\* A slip in Within: the point is asked and not the interval.
Within_Point(r, bar) ==
  r.ratio >= -bar /\ r.ratio <= bar

\* Ratio::within
Within(r, bar) == r.lo >= -bar /\ r.hi <= bar

\* resident::gate: the whole interval is asked, and missing the bar is a
\* failure of the command.
Gate ==
  /\ stage = "measured" /\ command = "gate"
  /\ Goto(IF Within(ratio[control], GateBar) THEN "passed" ELSE "failed")
  /\ UNCHANGED <<weather, control, failed, scans, at, paid, disturbed, cut, ratio>>

-----------------------------------------------------------------------------

\* "Alternating means that cost lands on both sides equally instead of on one
\* of them every time": at every pair, neither side has gone first twice more.
FirstTurnsAreShared ==
  /\ paid["left"] - paid["right"] \in {0, 1}
  /\ stage \in {"after", "measured", "passed"} => paid["left"] + paid["right"] = Pairs

\* "A gate keyed on it therefore fails on a measurement too weak to decide":
\* the scans were whole, nothing disturbed them and the gate passed, so what the
\* harness shows is inside the bar, and two copies of one thing as far apart as
\* the bias are not.
PassedIsWithin ==
  command = "gate" /\ stage = "passed" /\ Clean(control) =>
    Shown(control) <= GateBar /\ -Shown(control) <= GateBar

\* A command that is started comes to an end.
CommandEnds == stage = "before" ~> stage \in {"passed", "failed"}

-----------------------------------------------------------------------------
(* What the source says of itself and TLC refutes.                          *)

\* measure, "Errors": "If the machine is not fit to produce a ratio and
\* `anyway` was not asked for"; Capture::permits is that question.
UnfitIsRefused == stage \in {"measured", "passed"} /\ ~anyway =>
    Permits(CaptureOf(Machine, doing)) # "nothing"

\* measure, of a chunk the window cannot serve: it "would measure the error path
\* rather than the scan", and is refused: what is measured are scans.
MeasuresTheScan == stage \in {"measured", "passed"} => ~cut[control]

=============================================================================
