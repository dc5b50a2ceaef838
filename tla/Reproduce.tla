------------------------------ MODULE Reproduce ----------------------------
(***************************************************************************)
(* `iris-bench reproduce`, from crates/bench-cli/src/reproduce.rs, and the *)
(* grading of crates/bench-store/src/claim.rs: the control, the reading on *)
(* the same machine, the attempt the two make, the word it comes to and    *)
(* the record of it; or the resident command on its own, up to its gate.   *)
(* Values are in units of which One make parity, the target of the claim   *)
(* that is registered.                                                     *)
(***************************************************************************)
EXTENDS ResidentRatio

CONSTANTS
  One,         \* how many units parity is
  Target,      \* Bar::target
  Tolerance,   \* Bar::tolerance
  Registered,  \* Registration: its source is given or not, its day is a day or 0
  Days         \* what the machine's clock may say the day is

ASSUME BarAssumption == One \in Nat \ {0} /\ Target \in {0, One} /\ Tolerance \in Nat
ASSUME DaysAssumption ==
  Registered \in [given : BOOLEAN, day : Nat] /\ Days \subseteq Nat \ {0}

VARIABLES
  attempt,   \* the Attempt, once there is one
  verdict    \* what Claim::decide came to

claimVars == <<attempt, verdict>>
reproduceVars == <<ratioVars, claimVars>>

NoAttempt == [kind |-> "none"]
Verdicts == {"REPRODUCED", "REPRODUCED-WITH-CAVEAT", "NOT-REPRODUCED", "NOT-ATTEMPTABLE", "PENDING"}
Ungradable == {"Unregistered", "NotADay", "Backdated", "NoCitation", "RelativeToNothing"}

\* An attempt has a value and a resolution that is never negative, and a
\* verdict is one of the five words or one of the errors of Claim::decide.
ReproduceTypeOK ==
  /\ RatioTypeOK
  /\ attempt = NoAttempt \/
       attempt \in [kind : {"measured"}, day : Days, value : Int, resolution : Nat,
                    caveats : SUBSET {"GatesOverridden"}]
  /\ verdict \in {"none"} \cup Verdicts \cup Ungradable

ReproduceInit ==
  /\ RatioInit
  /\ command \in {"gate", "reproduce"}
  /\ control \in (IF command = "gate" THEN BOOLEAN ELSE {TRUE})
  /\ attempt = NoAttempt
  /\ verdict = "none"

Abs(n) == IF n < 0 THEN -n ELSE n

\* Bar::decide
DecideBar(m) ==
  LET off == Abs(m.value - Target) IN
  IF off + m.resolution <= Tolerance
    THEN IF m.caveats = {} THEN "REPRODUCED" ELSE "REPRODUCED-WITH-CAVEAT"
    ELSE IF off - m.resolution > Tolerance THEN "NOT-REPRODUCED" ELSE "NOT-ATTEMPTABLE"

DecideMeasured(m) ==
  IF m.day = 0 THEN "NotADay"
  ELSE IF m.day < Registered.day THEN "Backdated"
  ELSE IF Target = 0 THEN "RelativeToNothing"
  ELSE DecideBar(m)

\* Claim::decide
Decide(a) ==
  IF ~Registered.given THEN "Unregistered"
  ELSE IF Registered.day = 0 THEN "NotADay"
  ELSE CASE a.kind = "none" -> "PENDING"
         [] a.kind = "refused" -> IF a.cited THEN "NOT-ATTEMPTABLE" ELSE "NoCitation"
         [] a.kind = "measured" -> DecideMeasured(a)

\* windowed: the control is measured, and the reading is next, on the same
\* machine and under the same claim.
ThenTheReading ==
  /\ stage = "measured" /\ control /\ command = "reproduce"
  /\ control' = FALSE
  /\ Goto("before")
  /\ scans' = 0 /\ at' = 0
  /\ paid' = [s \in Sides |-> 0]
  /\ UNCHANGED <<weather, failed, disturbed, cut, ratio, claimVars>>

\* A slip in Resolution: the control's point and not the end of its interval.
Resolution_Midpoint(r) ==
  Abs(r.ratio)

\* resolution: the end of the control's interval that is further from parity.
Resolution(r) == IF Abs(r.lo) > Abs(r.hi) THEN Abs(r.lo) ELSE Abs(r.hi)

\* windowed: one reading out of the pair.  Measurement::capture is the
\* capture that was taken before.
Attempted ==
  /\ stage = "measured" /\ ~control /\ attempt = NoAttempt /\ command = "reproduce"
  /\ \E today \in Days :
       attempt' = [kind |-> "measured", day |-> today,
                   value |-> One + ratio[FALSE].ratio,
                   resolution |-> Resolution(ratio[TRUE]),
                   caveats |-> IF \E c \in BOOLEAN : failed[c]["before"]
                                 THEN {"GatesOverridden"} ELSE {}]
  /\ UNCHANGED <<ratioVars, verdict>>

\* run: the word is printed, or there is none to print.
Graded ==
  /\ attempt # NoAttempt /\ verdict = "none"
  /\ verdict' = Decide(attempt)
  /\ Goto(IF verdict' \in Ungradable THEN "failed" ELSE stage)
  /\ UNCHANGED <<weather, control, failed, scans, at, paid, disturbed, cut, ratio, attempt>>

\* run: --out, which may fail with the word already on the terminal.
Written ==
  /\ stage = "measured" /\ verdict \in Verdicts
  /\ \E s \in {"passed", "failed"} : Goto(s)
  /\ UNCHANGED <<weather, control, failed, scans, at, paid, disturbed, cut, ratio, claimVars>>

ReproduceStep ==
  \/ (Measure \/ Gate) /\ UNCHANGED claimVars
  \/ ThenTheReading \/ Attempted \/ Graded \/ Written
ReproduceNext == ReproduceStep \/ (Change /\ UNCHANGED claimVars)
ReproduceSpec == ReproduceInit /\ [][ReproduceNext]_reproduceVars

\* Nothing either command does waits for anything.
ReproduceFairSpec == ReproduceSpec /\ WF_reproduceVars(ReproduceStep)

-----------------------------------------------------------------------------

\* How far off its target the claim is, were the buffer not favoured and had the
\* harness no bias.
Off == One + facts.truth - Target
Quiet == \A c \in BOOLEAN : Clean(c)

\* What the reading's point misses what the harness shows by.
SamplingError == Abs(ratio[FALSE].ratio - Shown(FALSE))

\* "An instrument that cannot put two copies of the same thing at parity
\* cannot report that two different things are three percent apart": when
\* nothing disturbed or cut short the two comparisons, a verdict in either
\* direction is the one the truth has, whatever the bias, up to the reading's
\* own sampling error, which nothing in the grading looks at, and to what the
\* buffer is favoured by, which no control shows.  That one runs one way: what
\* is reproduced is no more off above its target than the tolerance says.
VerdictIsTrue ==
  Quiet =>
    /\ verdict \in {"REPRODUCED", "REPRODUCED-WITH-CAVEAT"} =>
         /\ Off + facts.favour <= Tolerance + SamplingError
         /\ -(Off + facts.favour) <= Tolerance + SamplingError
    /\ verdict = "NOT-REPRODUCED" => Abs(Off + facts.favour) > Tolerance - SamplingError

\* Without --anyway every one of the four captures behind a verdict passed,
\* and the verdict carries no caveat.
VerdictBetweenPasses ==
  verdict \in Verdicts /\ ~anyway =>
    /\ \A c \in BOOLEAN, w \in When : ~failed[c][w]
    /\ attempt.caveats = {}

-----------------------------------------------------------------------------
(* What the source says of itself and TLC refutes.                          *)

\* Command::Reproduce::anyway: "Measure even though the machine failed its
\* gates.  The verdict then carries a caveat".
OverriddenIsSaid ==
  verdict # "none" /\ (\E c \in BOOLEAN, w \in When : failed[c][w]) => attempt.caveats # {}

\* Ratio::within: "Reading the point estimate against the bar and ignoring
\* the interval is the most common way a performance claim turns out to be
\* noise": what is reproduced has its whole interval inside the bar.
ReproducedReadsTheInterval ==
  verdict = "REPRODUCED" => Within(ratio[FALSE], Tolerance)

=============================================================================
