------------------------------ MODULE Watchdog ------------------------------
(***************************************************************************)
(* runner-watchdog's verdict: the runner prints lines, a tee offers them   *)
(* to a bounded queue without ever waiting, the matcher folds them, and    *)
(* two goroutines evaluate it: report, once a second, and the handler of   *)
(* /healthz and /metrics, whenever somebody asks.                          *)
(*                                                                         *)
(* Time is counted in seconds.  An evaluation takes its time first and the *)
(* matcher's lock afterwards: others may evaluate in between.              *)
(*                                                                         *)
(* Supervisor is the other half of the program.  They share no variable,   *)
(* and no name, so that one module can extend both.                        *)
(***************************************************************************)
EXTENDS Naturals, Sequences, SequencesExt

CONSTANTS
  Grace,     \* -grace
  QueueLen,  \* capacity of the queue of lines
  Never,     \* the zero time.Time
  MaxTime,   \* bound: where the model's clock stops
  MaxLines   \* bound: lines the runner prints

ASSUME WatchdogAssumption ==
  /\ Grace \in Nat /\ QueueLen \in Nat \ {0}
  /\ MaxTime \in Nat /\ MaxLines \in Nat
  /\ Never \notin Nat

Times == 0 .. MaxTime
Line == {"start", "end", "signature"}

VARIABLES
  now,         \* the clock
  job,         \* the runner really runs a job
  printed,     \* how many lines it has printed
  file,        \* the drill file exists
  present,     \* ... and drill has seen it
  lines,       \* the queue
  missed,      \* history: the line of the last start was dropped
  jobRunning, armedAt, stuck,  \* the matcher
  tick,        \* what report's ticker holds
  asked,       \* the time taken by a request that has yet to evaluate
  health,      \* what /healthz answered, since the last request
  said,        \* what report last wrote to the log
  fresh        \* history: a signature was printed while idle, since the last start

runner == <<job, printed, file, fresh>>
queue == <<lines, missed>>
matcher == <<jobRunning, armedAt, stuck>>
askers == <<tick, asked, health, said>>
verdictVars == <<now, runner, present, queue, matcher, askers>>

VerdictTypeOK ==
  /\ now \in Times
  /\ job \in BOOLEAN /\ printed \in 0 .. MaxLines /\ file \in BOOLEAN /\ present \in BOOLEAN
  /\ lines \in Seq(Line) /\ Len(lines) <= QueueLen
  /\ missed \in BOOLEAN
  /\ jobRunning \in BOOLEAN /\ armedAt \in Times \cup {Never} /\ stuck \in BOOLEAN
  /\ tick \in Times \cup {Never} /\ asked \in Times \cup {Never}
  /\ health \in {"none", "200", "503"} /\ said \in {"ok", "stuck"}
  /\ fresh \in BOOLEAN

VerdictInit ==
  /\ now = 0
  /\ job = FALSE /\ printed = 0 /\ file = FALSE /\ present = FALSE
  /\ lines = <<>> /\ missed = FALSE
  /\ jobRunning = FALSE /\ armedAt = Never /\ stuck = FALSE
  /\ tick = Never /\ asked = Never /\ health = "none" /\ said = "ok"
  /\ fresh = FALSE

-----------------------------------------------------------------------------
(* The lines: the runner prints them, drill feeds one.  The queue stands   *)
(* for the channel and what is on its way to it, the pipe and the copier.  *)

(* lineFeed.emit: queued if there is room, else dropped and counted.       *)
Offer(l) ==
  IF Len(lines) < QueueLen
  THEN lines' = Append(lines, l) /\ missed' = (missed /\ l # "start")
  ELSE UNCHANGED lines /\ missed' = (missed \/ l = "start")

Prints(l) ==
  /\ printed < MaxLines /\ printed' = printed + 1
  /\ Offer(l)
  /\ UNCHANGED <<now, file, present, matcher, askers>>

JobStarts == ~job /\ job' = TRUE /\ fresh' = FALSE /\ Prints("start")
JobEnds   == job /\ job' = FALSE /\ UNCHANGED fresh /\ Prints("end")
Signature == fresh' = (fresh \/ ~job) /\ UNCHANGED job /\ Prints("signature")

Operator ==
  /\ file' = ~file
  /\ UNCHANGED <<now, job, printed, fresh, present, queue, matcher, askers>>

(* Each time drill finds the file where there was none, it feeds a line.   *)
Drill ==
  /\ present # file
  /\ present' = file
  /\ IF file THEN Offer("signature") /\ fresh' = (fresh \/ ~job)
             ELSE UNCHANGED <<queue, fresh>>
  /\ UNCHANGED <<now, job, printed, file, matcher, askers>>

-----------------------------------------------------------------------------
(* Matcher.Observe of the next line.                                       *)

(* Mutants: a start leaves the armed signature; a start is not remembered. *)
ObserveStartKeeping ==
  /\ lines # <<>> /\ Head(lines) = "start"
  /\ lines' = Tail(lines)
  /\ jobRunning' = TRUE
  /\ UNCHANGED <<now, runner, present, missed, armedAt, stuck, askers>>
ObserveStartForgetting ==
  /\ lines # <<>> /\ Head(lines) = "start"
  /\ lines' = Tail(lines)
  /\ armedAt' = Never
  /\ UNCHANGED <<now, runner, present, missed, jobRunning, stuck, askers>>

ObserveStart ==
  /\ lines # <<>> /\ Head(lines) = "start"
  /\ lines' = Tail(lines)
  /\ jobRunning' = TRUE
  /\ armedAt' = Never
  /\ UNCHANGED <<now, runner, present, missed, stuck, askers>>

ObserveEnd ==
  /\ lines # <<>> /\ Head(lines) = "end"
  /\ lines' = Tail(lines)
  /\ jobRunning' = FALSE
  /\ UNCHANGED <<now, runner, present, missed, armedAt, stuck, askers>>

(* Mutant: each signature starts the grace again.                          *)
ObserveSignatureAgain ==
  /\ lines # <<>> /\ Head(lines) = "signature"
  /\ lines' = Tail(lines)
  /\ armedAt' = IF ~jobRunning THEN now ELSE armedAt
  /\ UNCHANGED <<now, runner, present, missed, jobRunning, stuck, askers>>

(* Armed by the first signature of an idle runner.                         *)
ObserveSignature ==
  /\ lines # <<>> /\ Head(lines) = "signature"
  /\ lines' = Tail(lines)
  /\ armedAt' = IF ~jobRunning /\ armedAt = Never THEN now ELSE armedAt
  /\ UNCHANGED <<now, runner, present, missed, jobRunning, stuck, askers>>

Observe == ObserveStart \/ ObserveEnd \/ ObserveSignature

-----------------------------------------------------------------------------
(* Matcher.Evaluate and who calls it.                                      *)

Verdict(t) == ~jobRunning /\ armedAt # Never /\ t >= armedAt + Grace

Evaluate(t) == stuck' = Verdict(t) /\ UNCHANGED <<jobRunning, armedAt>>

(* A second passes; the ticker holds one tick, and drops the others.       *)
Second ==
  /\ now' = IF now < MaxTime THEN now + 1 ELSE now
  /\ tick' = IF tick = Never THEN now' ELSE tick
  /\ UNCHANGED <<runner, present, queue, matcher, asked, health, said>>

(* Mutant: report looks at entering the state only.                        *)
ReportStuckOnly ==
  /\ tick # Never /\ tick' = Never
  /\ stuck' = (stuck \/ Verdict(tick)) /\ UNCHANGED <<jobRunning, armedAt>>
  /\ said' = IF stuck' # stuck THEN "stuck" ELSE said
  /\ UNCHANGED <<now, runner, present, queue, asked, health>>

(* report logs the transitions that its own evaluation makes.              *)
Report ==
  /\ tick # Never /\ tick' = Never
  /\ Evaluate(tick)
  /\ said' = IF stuck' = stuck THEN said ELSE IF stuck' THEN "stuck" ELSE "ok"
  /\ UNCHANGED <<now, runner, present, queue, asked, health>>

Ask ==
  /\ asked = Never /\ asked' = now /\ health' = "none"
  /\ UNCHANGED <<now, runner, present, queue, matcher, tick, said>>

(* The handlers drop Evaluate's second result.                             *)
Answer ==
  /\ asked # Never /\ asked' = Never
  /\ Evaluate(asked)
  /\ health' \in {"none", IF stuck' THEN "503" ELSE "200"}  \* /metrics or /healthz
  /\ UNCHANGED <<now, runner, present, queue, tick, said>>

VerdictNext ==
  \/ JobStarts \/ JobEnds \/ Signature \/ Operator \/ Drill
  \/ Observe \/ Second \/ Report \/ Ask \/ Answer

VerdictSpec == VerdictInit /\ [][VerdictNext]_verdictVars

(* The goroutines of the matcher and of report run, and time passes.  What *)
(* the runner prints and who asks is nobody's promise.                     *)
VerdictFairSpec ==
  /\ VerdictSpec
  /\ WF_verdictVars(Observe) /\ WF_verdictVars(Report) /\ WF_verdictVars(Second)

-----------------------------------------------------------------------------
Condemns == health # "503" /\ health' = "503"

(* A runner that runs a job is not condemned: when /healthz turns to 503,  *)
(* the runner runs no job, or the line that says it does is on its way or  *)
(* was itself dropped.  No other line that is dropped, and no start that   *)
(* was dropped before the last, can condemn it.                            *)
NeverCondemnsAJob ==
  [][Condemns => ~job \/ missed \/ Contains(lines, "start")]_verdictVars

(* Nor is it condemned for what it printed before or during its last job:  *)
(* "a signature during a job is counted, never acted on", "a job starting  *)
(* clears it" (docs/architecture.md:69-72), however the lines were delayed.*)
CondemnedByAFreshSignature ==
  [][Condemns => fresh \/ missed \/ Contains(lines, "start")]_verdictVars

(* A signature that armed the matcher and is not cleared by a job becomes  *)
(* the verdict, within the bound of the model's clock.                     *)
StuckIsNoticed ==
  (armedAt # Never /\ armedAt + Grace <= MaxTime) ~> (stuck \/ armedAt = Never)

(* And a verdict does not outlive what it rests on.                        *)
RecoveryIsNoticed == (stuck /\ armedAt = Never) ~> (~stuck \/ armedAt # Never)

-----------------------------------------------------------------------------
(* main.go:99-102: "report evaluates once a second, so a transition is     *)
(* logged when it happens rather than when something next asks."  Then,    *)
(* after each evaluation of report's, the log agrees with the verdict.     *)
LogFollowsTheVerdict ==
  [][tick # Never /\ tick' = Never => (said' = "stuck") = stuck']_verdictVars
=============================================================================
