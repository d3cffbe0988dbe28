----------------------------- MODULE Supervisor -----------------------------
(***************************************************************************)
(* supervisor.run (runner-watchdog): the runner's PID 1 starts one child   *)
(* in a process group of its own, forwards signals to the group, reaps     *)
(* what is reparented to it, copies the child's output, and returns the    *)
(* child's exit code.                                                      *)
(*                                                                         *)
(* The processes behind the child come and go as they like; the wrapper's  *)
(* own goroutines are the loop of run and a copier for each stream.  The   *)
(* content of the output is Watchdog's subject, here it is counted.        *)
(***************************************************************************)
EXTENDS Naturals, Sequences

CONSTANTS
  Child,       \* the process run starts
  Others,      \* its descendants
  Streams,     \* standard output and standard error
  Numbers,     \* exit statuses and the numbers of signals that kill
  QueueCap,    \* signals that wait for the loop
  PipeCap,     \* what a pipe holds
  MaxOutput,   \* bound: what is written to a stream
  MaxSignals   \* bound: the signals sent to the wrapper

ASSUME SupervisorAssumption ==
  /\ Child \notin Others /\ Numbers \subseteq Nat
  /\ QueueCap \in Nat \ {0} /\ PipeCap \in Nat \ {0}
  /\ MaxOutput \in Nat /\ MaxSignals \in Nat

Procs == Others \cup {Child}

(* How a process ends, and what a shell makes of it.                       *)
WaitStatus == [by: {"exit", "signal"}, n: Numbers]
Alive == [by |-> "nothing", n |-> 0]

VARIABLES
  pc,       \* of run
  status,   \* what reap has found of the child
  code,     \* what run returned
  sigs,     \* the signals waiting in the channel, by number
  chld,     \* SIGCHLD is waiting
  copier,   \* of each stream
  copied,   \* what it has copied
  state,    \* of each process: "unborn", "running", "zombie", "reaped"
  ended,    \* and how it ended
  parent,   \* "wrapper" once the process is the wrapper's to reap
  group,    \* the processes in the child's process group
  writers,  \* the processes that hold the pipes' write ends
  written,  \* what has been written to each stream
  got,      \* the signals each process was sent
  sent, accepted, forwarded, before,  \* histories, and got's start
  late      \* history: the drain timed out

loop == <<pc, status, code>>
output == <<copier, copied, written>>
procs == <<state, ended, parent, group, writers>>
history == <<sent, accepted, forwarded, before>>
vars == <<loop, sigs, chld, output, procs, got, history, late>>

TypeOK ==
  /\ pc \in {"start", "loop", "reap", "drain", "returned", "failed"}
  /\ status \in WaitStatus \cup {Alive} /\ code \in Nat
  /\ sigs \in Seq(1 .. MaxSignals) /\ Len(sigs) <= QueueCap
  /\ chld \in BOOLEAN /\ late \in BOOLEAN
  /\ copier \in [Streams -> {"reading", "done"}]
  /\ copied \in [Streams -> 0 .. MaxOutput] /\ written \in [Streams -> 0 .. MaxOutput]
  /\ state \in [Procs -> {"unborn", "running", "zombie", "reaped"}]
  /\ ended \in [Procs -> WaitStatus \cup {Alive}]
  /\ parent \in [Procs -> {"process", "wrapper"}]
  /\ group \subseteq Procs /\ writers \subseteq Procs
  /\ got \in [Procs -> Seq(1 .. MaxSignals)]
  /\ sent \in 0 .. MaxSignals
  /\ accepted \in Seq(1 .. MaxSignals) /\ forwarded \in Seq(1 .. MaxSignals)
  /\ before \in [Procs -> Nat]

Init ==
  /\ pc = "start" /\ status = Alive /\ code = 0
  /\ sigs = <<>> /\ chld = FALSE /\ late = FALSE
  /\ copier = [s \in Streams |-> "reading"]
  /\ copied = [s \in Streams |-> 0] /\ written = [s \in Streams |-> 0]
  /\ state = [p \in Procs |-> "unborn"] /\ ended = [p \in Procs |-> Alive]
  /\ parent = [p \in Procs |-> IF p = Child THEN "wrapper" ELSE "process"]
  /\ group = {} /\ writers = {}
  /\ got = [p \in Procs |-> <<>>]
  /\ sent = 0 /\ accepted = <<>> /\ forwarded = <<>>
  /\ before = [p \in Procs |-> 0]

At(p) == pc = p
Running(p) == state[p] = "running"

-----------------------------------------------------------------------------
(* run                                                                     *)

(* exitCode                                                                *)
ExitCode(ws) ==
  IF ws.by = "exit" THEN ws.n ELSE IF ws.by = "signal" THEN 128 + ws.n ELSE 1

(* Signals are asked for before the child is there.                        *)
Start ==
  /\ At("start") /\ pc' = "loop"
  /\ state' = [state EXCEPT ![Child] = "running"]
  /\ group' = {Child} /\ writers' = {Child}
  /\ UNCHANGED <<status, code, sigs, chld, output, ended, parent, got, history, late>>

(* No such command, no pipe, or it cannot be executed.                     *)
StartFails ==
  /\ At("start") /\ pc' = "failed"
  /\ code' \in {127, 126, 1}
  /\ UNCHANGED <<status, sigs, chld, output, procs, got, history, late>>

(* Mutant: the child alone is sent the signal.                             *)
OnlyTheChild == {Child}

(* kill(-pid), or kill(pid) when there is no such group.                   *)
Targets == IF group = {} THEN {Child} ELSE {p \in group : Running(p)}

(* One turn of run's select; it picks any case that is ready.              *)
Forward ==
  /\ At("loop") /\ sigs # <<>>
  /\ got' = [p \in Procs |-> IF p \in Targets THEN Append(got[p], Head(sigs)) ELSE got[p]]
  /\ forwarded' = Append(forwarded, Head(sigs))
  /\ sigs' = Tail(sigs)
  /\ UNCHANGED <<loop, chld, output, procs, sent, accepted, before, late>>

ChildSignal ==
  /\ At("loop") /\ chld
  /\ chld' = FALSE /\ pc' = "reap" /\ status' = Alive
  /\ UNCHANGED <<code, sigs, output, procs, got, history, late>>

Tick ==
  /\ At("loop")
  /\ pc' = "reap" /\ status' = Alive
  /\ UNCHANGED <<code, sigs, chld, output, procs, got, history, late>>

(* Mutant: Wait4(pid).                                                     *)
ReapableChild == {p \in Procs : p = Child /\ state[p] = "zombie"}

(* What Wait4(-1) may collect.                                             *)
Reapable == {p \in Procs : state[p] = "zombie" /\ parent[p] = "wrapper"}

Reaps(p) ==
  /\ At("reap") /\ p \in Reapable
  /\ state' = [state EXCEPT ![p] = "reaped"]
  /\ group' = group \ {p}

(* Mutant: the last process collected is taken for the child.              *)
Wait4Last(p) ==
  /\ Reaps(p)
  /\ status' = IF p = Child THEN ended[p] ELSE Alive
  /\ UNCHANGED <<pc, code, sigs, chld, output, ended, parent, writers, got, history, late>>

(* Mutant: any process collected is taken for the child.                   *)
Wait4Any(p) ==
  /\ Reaps(p)
  /\ status' = ended[p]
  /\ UNCHANGED <<pc, code, sigs, chld, output, ended, parent, writers, got, history, late>>

Wait4(p) ==
  /\ Reaps(p)
  /\ status' = IF p = Child THEN ended[p] ELSE status
  /\ UNCHANGED <<pc, code, sigs, chld, output, ended, parent, writers, got, history, late>>

Reaped ==
  /\ At("reap") /\ Reapable = {}
  /\ pc' = IF status = Alive THEN "loop" ELSE "drain"
  /\ UNCHANGED <<status, code, sigs, chld, output, procs, got, history, late>>

(* Mutant: standard output is enough.                                      *)
AnyCopierDone == \E s \in Streams : copier[s] = "done"

CopiersDone == \A s \in Streams : copier[s] = "done"

Drained ==
  /\ At("drain") /\ CopiersDone
  /\ pc' = "returned" /\ code' = ExitCode(status)
  /\ UNCHANGED <<status, sigs, chld, output, procs, got, history, late>>

(* Mutant: run waits for whoever holds the pipes.                          *)
DrainTimesOutOnceClosed ==
  /\ At("drain") /\ writers = {}
  /\ pc' = "returned" /\ code' = ExitCode(status) /\ late' = TRUE
  /\ UNCHANGED <<status, sigs, chld, output, procs, got, history>>

DrainTimesOut ==
  /\ At("drain")
  /\ pc' = "returned" /\ code' = ExitCode(status) /\ late' = TRUE
  /\ UNCHANGED <<status, sigs, chld, output, procs, got, history>>

-----------------------------------------------------------------------------
(* copyTee, for each stream.                                               *)

Copy(s) ==
  /\ pc \notin {"start", "returned", "failed"}
  /\ copier[s] = "reading" /\ copied[s] < written[s]
  /\ copied' = [copied EXCEPT ![s] = @ + 1]
  /\ UNCHANGED <<loop, sigs, chld, copier, written, procs, got, history, late>>

EndOfFile(s) ==
  /\ pc \notin {"start", "returned", "failed"}
  /\ copier[s] = "reading" /\ copied[s] = written[s] /\ writers = {}
  /\ copier' = [copier EXCEPT ![s] = "done"]
  /\ UNCHANGED <<loop, sigs, chld, copied, written, procs, got, history, late>>

-----------------------------------------------------------------------------
(* The surroundings: the kernel and the processes.                         *)

Over == pc \in {"returned", "failed"}

(* A signal to the wrapper; signal.Notify drops what the channel has no    *)
(* room for.                                                               *)
Signal ==
  /\ ~Over /\ sent < MaxSignals
  /\ sent' = sent + 1
  /\ IF Len(sigs) < QueueCap
     THEN sigs' = Append(sigs, sent') /\ accepted' = Append(accepted, sent')
     ELSE UNCHANGED <<sigs, accepted>>
  /\ UNCHANGED <<loop, chld, output, procs, got, forwarded, before, late>>

(* A new descendant is in its parent's group and holds the pipes it holds, *)
(* or has left either.                                                     *)
Forks(p) ==
  /\ ~Over /\ p \in Others /\ state[p] = "unborn"
  /\ \E q \in Procs :
       /\ Running(q)
       /\ group' \in {group, IF q \in group THEN group \cup {p} ELSE group}
       /\ writers' \in {writers, IF q \in writers THEN writers \cup {p} ELSE writers}
  /\ state' = [state EXCEPT ![p] = "running"]
  /\ before' = [before EXCEPT ![p] = Len(forwarded)]
  /\ UNCHANGED <<loop, sigs, chld, output, ended, parent, got, sent, accepted, forwarded, late>>

Writes(p, s) ==
  /\ ~Over /\ Running(p) /\ p \in writers
  /\ written[s] < MaxOutput /\ written[s] - copied[s] < PipeCap
  /\ written' = [written EXCEPT ![s] = @ + 1]
  /\ UNCHANGED <<loop, sigs, chld, copier, copied, procs, got, history, late>>

(* The end of a process: a zombie of its parent, which SIGCHLD tells.      *)
Exits(p) ==
  /\ ~Over /\ Running(p)
  /\ state' = [state EXCEPT ![p] = "zombie"]
  /\ \E ws \in WaitStatus : ended' = [ended EXCEPT ![p] = ws]
  /\ writers' = writers \ {p}
  /\ chld' = (chld \/ parent[p] = "wrapper")
  /\ UNCHANGED <<loop, sigs, output, parent, group, got, history, late>>

(* The parent of a descendant has ended, and the wrapper, the subreaper,   *)
(* inherits p.                                                             *)
Adopted(p) ==
  /\ ~Over /\ state[p] \in {"running", "zombie"} /\ parent[p] = "process"
  /\ parent' = [parent EXCEPT ![p] = "wrapper"]
  /\ chld' = (chld \/ state[p] = "zombie")
  /\ UNCHANGED <<loop, sigs, output, state, ended, group, writers, got, history, late>>

(* A parent reaps its own.                                                 *)
ParentReaps(p) ==
  /\ ~Over /\ state[p] = "zombie" /\ parent[p] = "process"
  /\ state' = [state EXCEPT ![p] = "reaped"]
  /\ group' = group \ {p}
  /\ UNCHANGED <<loop, sigs, chld, output, ended, parent, writers, got, history, late>>

Select == Forward \/ ChildSignal \/ Tick
Reap == Reaped \/ \E p \in Procs : Wait4(p)
Drain == Drained \/ DrainTimesOut
Copier(s) == Copy(s) \/ EndOfFile(s)
Kernel ==
  \/ Signal
  \/ \E p \in Procs : Forks(p) \/ Exits(p) \/ Adopted(p) \/ ParentReaps(p)
                      \/ \E s \in Streams : Writes(p, s)

Next ==
  Start \/ StartFails \/ Select \/ Reap \/ Drain \/ Kernel \/ \E s \in Streams : Copier(s)

Spec == Init /\ [][Next]_vars

(* The loop runs and its ticker ticks.  Go's select chooses at random      *)
(* among the cases that are ready, so one that is ready again and again is *)
(* chosen: strong fairness of Forward.  Nothing is assumed of the child,   *)
(* of who reads the wrapper's output, or of SIGCHLD.                       *)
FairSpec ==
  /\ Spec
  /\ WF_vars(Start \/ StartFails) /\ WF_vars(Tick) /\ WF_vars(Reap) /\ WF_vars(Drain)
  /\ SF_vars(Forward)

-----------------------------------------------------------------------------
(* run returns the code of the child's own end, and never while the child  *)
(* runs, whatever else it reaps before, with or after the child.           *)
ReturnsTheChildsCode ==
  pc = "returned" => state[Child] = "reaped" /\ code = ExitCode(ended[Child])

(* All that was written is copied before run returns, by whichever process *)
(* and on either stream, unless the drain took longer than its two seconds.*)
OutputComplete ==
  pc = "returned" /\ ~late => copied = written

(* No signal the channel took is lost, doubled or overtaken, also when it  *)
(* arrived before the child was started: the child was sent them all but   *)
(* for those that wait, and so was every process of its group since it was *)
(* born.                                                                   *)
SignalsArrive ==
  /\ accepted = forwarded \o sigs
  /\ \A p \in group : Running(p) =>
       got[p] = SubSeq(forwarded, before[p] + 1, Len(forwarded))

(* The child's pid is not signalled once it is free to be another's.       *)
NeverSignalsAStranger ==
  [][forwarded' # forwarded => state[Child] # "reaped"]_vars

(* Whether or not SIGCHLD comes through, and whoever holds the pipes, the  *)
(* wrapper ends with its child.                                            *)
EndsWithTheChild == state[Child] = "zombie" ~> At("returned")

(* While the child runs, every signal taken is passed on and every zombie  *)
(* of the wrapper is reaped.                                               *)
NothingIsLeftPending ==
  /\ sigs # <<>> ~> (sigs = <<>> \/ ~Running(Child))
  /\ \A p \in Procs :
       state[p] = "zombie" /\ parent[p] = "wrapper" ~> (state[p] = "reaped" \/ ~Running(Child))
=============================================================================
