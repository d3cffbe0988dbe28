----------------------- MODULE RunnerWatchdog_proofs -----------------------
(***************************************************************************)
(* The program runner-watchdog: what holds of its two components.          *)
(*                                                                         *)
(* Of Supervisor for any processes, streams, pipes and exit codes: run     *)
(* returns its own child's code, loses no output within the drain's time,  *)
(* and never signals a pid that may be another process's.                  *)
(*                                                                         *)
(* Of Watchdog, with variables of its own, for any grace, queue and lines: *)
(* the verdict never condemns a runner whose job it could know of.         *)
(***************************************************************************)
EXTENDS Supervisor, Watchdog, SequenceTheorems, TLAPS

-----------------------------------------------------------------------------
(* Supervisor.                                                             *)

(* The variables these properties depend on have their types.              *)
Types ==
  /\ status \in WaitStatus \cup {Alive}
  /\ state \in [Procs -> {"unborn", "running", "zombie", "reaped"}]
  /\ ended \in [Procs -> WaitStatus \cup {Alive}]
  /\ copier \in [Streams -> {"reading", "done"}]
  /\ copied \in [Streams -> Nat] /\ written \in [Streams -> Nat]
  /\ parent \in [Procs -> {"process", "wrapper"}]

(* The child is the wrapper's to reap, and what run knows of it is so.     *)
ChildKnown ==
  /\ parent[Child] = "wrapper"
  /\ state[Child] \in {"zombie", "reaped"} => ended[Child] \in WaitStatus
  /\ pc = "start" => state[Child] = "unborn"
  /\ pc = "loop" => state[Child] \in {"running", "zombie"}
  /\ pc = "reap" /\ status = Alive => state[Child] \in {"running", "zombie"}
  /\ (pc = "reap" /\ status # Alive) \/ pc = "drain" =>
       state[Child] = "reaped" /\ status = ended[Child]

(* A copier that is done has copied all there will ever be: nobody holds   *)
(* the write ends, and only who holds one can pass it on.                  *)
CopiersKnown ==
  /\ \A s \in Streams : copier[s] = "done" =>
       copied[s] = written[s] /\ writers = {} /\ pc # "start"

IInv == Types /\ ChildKnown /\ CopiersKnown /\ ReturnsTheChildsCode /\ OutputComplete

-----------------------------------------------------------------------------
(* Nothing of a process's end is mistaken for its being alive.             *)
LEMMA AliveIsNoStatus == \A ws \in WaitStatus : ws # Alive
BY DEF WaitStatus, Alive

(* Before the start there is no child.                                     *)
LEMMA InitInv == Init => IInv
<1> SUFFICES ASSUME Init PROVE IInv
  OBVIOUS
<1> USE DEF Init
<1>1. Types
  BY DEF Types
<1>2. ChildKnown
  BY DEF ChildKnown, Procs
<1>3. CopiersKnown
  BY DEF CopiersKnown
<1> QED
  BY <1>1, <1>2, <1>3 DEF IInv, ReturnsTheChildsCode, OutputComplete

-----------------------------------------------------------------------------
(* run's own steps keep the invariant.                                     *)
LEMMA RunInv ==
  ASSUME IInv, Start \/ StartFails \/ Select \/ Reap \/ Drain
  PROVE  IInv'
<1> USE DEF IInv, At, loop, output, procs, history
<1>1. CASE Start
  <2>1. Types' /\ pc' = "loop"
    BY <1>1 DEF Start, Types, Procs
  <2>2. ChildKnown'
    BY <1>1, <2>1 DEF Start, Types, ChildKnown, Procs
  <2>3. CopiersKnown'
    BY <1>1 DEF Start, CopiersKnown
  <2> QED
    BY <2>1, <2>2, <2>3 DEF ReturnsTheChildsCode, OutputComplete
<1>2. CASE StartFails \/ Select \/ Reaped
  <2>1. status' \in {status, Alive} /\ pc' \in {"failed", "loop", "reap", "drain"}
        /\ UNCHANGED <<state, ended, parent, writers, copier, copied, written>>
    BY <1>2 DEF StartFails, Select, Forward, ChildSignal, Tick, Reaped
  <2>2. Types'
    BY <2>1 DEF Types
  <2>3. ChildKnown'
    BY <1>2, <2>1 DEF StartFails, Select, Forward, ChildSignal, Tick, Reaped, ChildKnown
  <2>4. CopiersKnown'
    BY <2>1 DEF CopiersKnown
  <2> QED
    BY <2>1, <2>2, <2>3, <2>4 DEF ReturnsTheChildsCode, OutputComplete
<1>3. ASSUME NEW p \in Procs, Wait4(p) PROVE IInv'
  <2>1. pc = "reap" /\ pc' = "reap" /\ state[p] = "zombie" /\ state' = [state EXCEPT ![p] = "reaped"]
        /\ status' = (IF p = Child THEN ended[p] ELSE status)
        /\ UNCHANGED <<ended, parent, writers, copier, copied, written>>
    BY <1>3 DEF Wait4, Reaps, Reapable
  <2>2. Types'
    BY <2>1 DEF Types
  <2>3. ChildKnown'
    BY <2>1, AliveIsNoStatus DEF ChildKnown, Types, Procs
  <2>4. CopiersKnown'
    BY <2>1 DEF CopiersKnown
  <2> QED
    BY <2>1, <2>2, <2>3, <2>4 DEF ReturnsTheChildsCode, OutputComplete
<1>4. CASE Drain
  <2>1. pc = "drain" /\ pc' = "returned" /\ code' = ExitCode(status)
        /\ UNCHANGED <<status, state, ended, parent, writers, copier, copied, written>>
    BY <1>4 DEF Drain, Drained, DrainTimesOut
  <2>2. Types' /\ CopiersKnown' /\ ChildKnown'
    BY <2>1 DEF Types, CopiersKnown, ChildKnown
  <2>3. ReturnsTheChildsCode'
    BY <2>1 DEF ReturnsTheChildsCode, ChildKnown, ExitCode
  <2>4. late' \/ CopiersDone
    BY <1>4 DEF Drain, Drained, DrainTimesOut
  <2>5. CopiersDone => copied = written
    BY DEF CopiersDone, CopiersKnown, Types
  <2> QED
    BY <2>1, <2>2, <2>3, <2>4, <2>5 DEF OutputComplete
<1> QED
  BY <1>1, <1>2, <1>3, <1>4 DEF Reap

(* The copiers keep the invariant.                                         *)
LEMMA CopierInv ==
  ASSUME IInv, NEW s \in Streams, Copier(s)
  PROVE  IInv'
<1> USE DEF IInv, loop, output, procs, history
<1>1. pc \notin {"start", "returned", "failed"} /\ copier[s] = "reading"
      /\ UNCHANGED <<pc, status, code, written, state, ended, parent, writers, late>>
  BY DEF Copier, Copy, EndOfFile
<1>2. CASE Copy(s)
  <2>1. copied' = [copied EXCEPT ![s] = @ + 1] /\ copier' = copier
    BY <1>2 DEF Copy
  <2>2. Types' /\ CopiersKnown'
    BY <1>1, <2>1 DEF Types, CopiersKnown
  <2> QED
    BY <1>1, <2>2 DEF ChildKnown, ReturnsTheChildsCode, OutputComplete
<1>3. CASE EndOfFile(s)
  <2>1. copier' = [copier EXCEPT ![s] = "done"] /\ copied' = copied /\ copied[s] = written[s]
        /\ writers = {}
    BY <1>3 DEF EndOfFile
  <2>2. Types' /\ CopiersKnown'
    BY <1>1, <2>1 DEF Types, CopiersKnown
  <2> QED
    BY <1>1, <2>2 DEF ChildKnown, ReturnsTheChildsCode, OutputComplete
<1> QED
  BY <1>2, <1>3 DEF Copier

(* Whatever the processes and the kernel do keeps the invariant.           *)
LEMMA KernelInv ==
  ASSUME IInv, Kernel
  PROVE  IInv'
<1> USE DEF IInv, Over, Running, loop, output, procs, history
<1>1. CASE Signal
  <2>1. UNCHANGED <<pc, status, code, copier, copied, written, state, ended, parent, writers, late>>
    BY <1>1 DEF Signal
  <2> QED
    BY <2>1 DEF Types, ChildKnown, CopiersKnown, ReturnsTheChildsCode, OutputComplete
<1>2. ASSUME NEW p \in Procs, Forks(p) PROVE IInv'
  <2>1. p # Child /\ state' = [state EXCEPT ![p] = "running"] /\ pc \notin {"returned", "failed"}
        /\ UNCHANGED <<pc, status, code, copier, copied, written, ended, parent, late>>
    BY <1>2, SupervisorAssumption DEF Forks
  <2>2. writers = {} => writers' = {}
    BY <1>2 DEF Forks
  <2>3. Types' /\ CopiersKnown'
    BY <2>1, <2>2 DEF Types, CopiersKnown
  <2>4. ChildKnown'
    BY <2>1 DEF ChildKnown, Types, Procs
  <2> QED
    BY <2>1, <2>3, <2>4 DEF ReturnsTheChildsCode, OutputComplete
<1>3. ASSUME NEW p \in Procs, NEW s \in Streams, Writes(p, s) PROVE IInv'
  <2>1. writers # {} /\ written' = [written EXCEPT ![s] = @ + 1] /\ pc \notin {"returned", "failed"}
        /\ UNCHANGED <<pc, status, code, copier, copied, state, ended, parent, writers, late>>
    BY <1>3 DEF Writes
  <2>2. Types' /\ CopiersKnown'
    BY <2>1 DEF Types, CopiersKnown
  <2> QED
    BY <2>1, <2>2 DEF ChildKnown, ReturnsTheChildsCode, OutputComplete
<1>4. ASSUME NEW p \in Procs, Exits(p) PROVE IInv'
  <2>1. PICK ws \in WaitStatus : ended' = [ended EXCEPT ![p] = ws]
    BY <1>4 DEF Exits
  <2>2. state[p] = "running" /\ state' = [state EXCEPT ![p] = "zombie"]
        /\ writers' = writers \ {p} /\ pc \notin {"returned", "failed"}
        /\ UNCHANGED <<pc, status, code, copier, copied, written, parent, late>>
    BY <1>4 DEF Exits
  <2>3. Types' /\ CopiersKnown'
    BY <2>1, <2>2 DEF Types, CopiersKnown
  <2>4. ChildKnown'
    BY <2>1, <2>2 DEF ChildKnown, Types, Procs
  <2> QED
    BY <2>2, <2>3, <2>4 DEF ReturnsTheChildsCode, OutputComplete
<1>5. ASSUME NEW p \in Procs, Adopted(p) \/ ParentReaps(p) PROVE IInv'
  <2>1. p # Child /\ pc \notin {"returned", "failed"}
        /\ parent' \in {parent, [parent EXCEPT ![p] = "wrapper"]}
        /\ state' \in {state, [state EXCEPT ![p] = "reaped"]}
        /\ UNCHANGED <<pc, status, code, copier, copied, written, ended, writers, late>>
    BY <1>5 DEF Adopted, ParentReaps, ChildKnown
  <2>2. Types' /\ CopiersKnown'
    BY <2>1 DEF Types, CopiersKnown
  <2>3. ChildKnown'
    BY <2>1 DEF ChildKnown, Types, Procs
  <2> QED
    BY <2>1, <2>2, <2>3 DEF ReturnsTheChildsCode, OutputComplete
<1> QED
  BY <1>1, <1>2, <1>3, <1>4, <1>5 DEF Kernel

(* The invariant holds in every state of every behaviour.                  *)
THEOREM Invariance == Spec => []IInv
<1>1. IInv /\ [Next]_vars => IInv'
  <2>1. ASSUME IInv, Next PROVE IInv'
    BY <2>1, RunInv, CopierInv, KernelInv DEF Next
  <2>2. ASSUME IInv, UNCHANGED vars PROVE IInv'
    BY <2>2 DEF IInv, Types, ChildKnown, CopiersKnown, ReturnsTheChildsCode, OutputComplete, vars,
                loop, output, procs, history
  <2> QED
    BY <2>1, <2>2
<1> QED
  BY <1>1, InitInv, PTL DEF Spec

-----------------------------------------------------------------------------
(* run returns the code of the child's own end, whatever else it reaps.    *)
THEOREM CodeTheorem == Spec => []ReturnsTheChildsCode
<1>1. IInv => ReturnsTheChildsCode
  BY DEF IInv
<1> QED
  BY <1>1, Invariance, PTL

(* Unless the drain timed out, all output was copied before run returned,  *)
(* for any number of streams and whoever holds their write ends.           *)
THEOREM OutputTheorem == Spec => []OutputComplete
<1>1. IInv => OutputComplete
  BY DEF IInv
<1> QED
  BY <1>1, Invariance, PTL

(* Signals are forwarded only while the pid is the child's.                *)
THEOREM StrangerTheorem == Spec => NeverSignalsAStranger
<1>1. IInv /\ [Next]_vars => [forwarded' # forwarded => state[Child] # "reaped"]_vars
  <2>1. ASSUME IInv, Next, forwarded' # forwarded PROVE Forward
    BY <2>1 DEF Next, Start, StartFails, Select, ChildSignal, Tick, Reap, Reaped, Wait4, Reaps, Drain,
                Drained, DrainTimesOut, Copier, Copy, EndOfFile, Kernel, Signal, Forks, Writes,
                Exits, Adopted, ParentReaps, history
  <2>2. ASSUME IInv, Forward PROVE state[Child] # "reaped"
    BY <2>2 DEF IInv, ChildKnown, Forward, At
  <2> QED
    BY <2>1, <2>2
<1> QED
  BY <1>1, Invariance, PTL DEF Spec, NeverSignalsAStranger

-----------------------------------------------------------------------------
(* The signals.                                                            *)

(* Taking the first element of t to the end of s leaves s \o t as it is.   *)
LEMMA HeadMoves ==
  ASSUME NEW S, NEW s \in Seq(S), NEW t \in Seq(S), t # <<>>
  PROVE  Append(s, Head(t)) \o Tail(t) = s \o t
<1>1. Head(t) \in S /\ Tail(t) \in Seq(S) /\ <<Head(t)>> \in Seq(S)
  BY HeadTailProperties
<1>2. <<Head(t)>> \o Tail(t) = t
  <2>1. Len(<<Head(t)>> \o Tail(t)) = Len(t)
    BY <1>1, HeadTailProperties, ConcatProperties, LenProperties
  <2>2. \A i \in 1 .. Len(t) : (<<Head(t)>> \o Tail(t))[i] = t[i]
    BY <1>1, HeadTailProperties
  <2> QED
    BY <1>1, <2>1, <2>2, ConcatProperties, SeqEqual
<1>3. Append(s, Head(t)) = s \o <<Head(t)>>
  BY <1>1, AppendIsConcat
<1> QED
  BY <1>1, <1>2, <1>3, ConcatAssociative

(* Appending to a concatenation appends to its second part.                *)
LEMMA AppendToConcat ==
  ASSUME NEW s \in Seq(Nat), NEW t \in Seq(Nat), NEW x \in Nat
  PROVE  Append(s \o t, x) = s \o Append(t, x)
<1>1. s \o t \in Seq(Nat) /\ <<x>> \in Seq(Nat)
  BY ConcatProperties
<1>2. Append(s \o t, x) = (s \o t) \o <<x>> /\ Append(t, x) = t \o <<x>>
  BY <1>1, AppendIsConcat
<1> QED
  BY <1>1, <1>2, ConcatAssociative

(* A suffix grows with its sequence.                                       *)
LEMMA SuffixGrows ==
  ASSUME NEW S, NEW s \in Seq(S), NEW x \in S, NEW b \in 0 .. Len(s)
  PROVE  SubSeq(Append(s, x), b + 1, Len(Append(s, x))) = Append(SubSeq(s, b + 1, Len(s)), x)
<1> DEFINE l == SubSeq(Append(s, x), b + 1, Len(s) + 1)
           r == SubSeq(s, b + 1, Len(s))
<1>1. Len(s) \in Nat /\ Len(Append(s, x)) = Len(s) + 1
  BY LenProperties, AppendProperties
<1>2. \A i \in b + 1 .. Len(s) : s[i] \in S
  BY <1>1, ElementOfSeq
<1>3. r \in Seq(S) /\ Len(r) = Len(s) - b /\ \A i \in 1 .. Len(s) - b : r[i] = s[b + i]
  BY <1>1, <1>2, SubSeqProperties
<1>4. \A i \in b + 1 .. Len(s) + 1 : Append(s, x)[i] \in S
  BY <1>1, AppendProperties, ElementOfSeq
<1>5. /\ l \in Seq(S) /\ Len(l) = Len(s) - b + 1
      /\ \A i \in 1 .. Len(s) - b + 1 : l[i] = Append(s, x)[b + i]
  BY <1>1, <1>4, SubSeqProperties
<1>6. Append(r, x) \in Seq(S) /\ Len(Append(r, x)) = Len(s) - b + 1
  BY <1>3, AppendProperties
<1>7. \A i \in 1 .. Len(s) - b + 1 : l[i] = Append(r, x)[i]
  BY <1>1, <1>3, <1>5, AppendProperties
<1> QED
  BY <1>1, <1>5, <1>6, <1>7, SeqEqual

(* What a process was sent can be told from what was forwarded since it    *)
(* was born, so a process that is not born was sent nothing.               *)
SignalsKnown ==
  /\ sigs \in Seq(Nat) /\ accepted \in Seq(Nat) /\ forwarded \in Seq(Nat) /\ sent \in Nat
  /\ got \in [Procs -> Seq(Nat)] /\ before \in [Procs -> Nat]
  /\ group \subseteq Procs
  /\ \A p \in Procs : before[p] <= Len(forwarded)
  /\ \A p \in Procs : state[p] = "unborn" => got[p] = <<>>
  /\ pc = "start" => forwarded = <<>> /\ before[Child] = 0

SInv == SignalsKnown /\ SignalsArrive

(* Before the start no signal has come.                                    *)
LEMMA InitSignals == Init => SInv
BY EmptySeq, ConcatEmptySeq DEF Init, SInv, SignalsKnown, SignalsArrive, Running, Procs

(* A turn of the loop that forwards: every process of the group is sent    *)
(* the signal that leaves the channel.                                     *)
LEMMA ForwardSignals ==
  ASSUME IInv, SInv, Forward
  PROVE  SInv'
<1> DEFINE x == Head(sigs)
<1> USE DEF SInv, loop, procs
<1>1. /\ pc = "loop" /\ pc' = pc /\ sigs # <<>> /\ sigs' = Tail(sigs) /\ forwarded' = Append(forwarded, x)
      /\ got' = [p \in Procs |-> IF p \in Targets THEN Append(got[p], x) ELSE got[p]]
      /\ UNCHANGED <<state, group, sent, accepted, before>>
  BY DEF Forward, At
<1>2. x \in Nat /\ Tail(sigs) \in Seq(Nat)
  BY <1>1, HeadTailProperties DEF SignalsKnown
<1>3. forwarded' \in Seq(Nat) /\ Len(forwarded') = Len(forwarded) + 1 /\ Len(forwarded) \in Nat
  BY <1>1, <1>2, AppendProperties, LenProperties DEF SignalsKnown
<1>4. \A p \in Targets : p \in Procs => state[p] # "unborn"
  BY <1>1 DEF Targets, Running, IInv, ChildKnown
<1>5. \A p \in Procs : Append(got[p], x) \in Seq(Nat)
  BY <1>2, AppendProperties DEF SignalsKnown
<1>6. SignalsKnown'
  <2>1. got' \in [Procs -> Seq(Nat)]
    BY <1>1, <1>5 DEF SignalsKnown
  <2>2. \A p \in Procs : before'[p] <= Len(forwarded')
    BY <1>1, <1>3 DEF SignalsKnown
  <2>3. \A p \in Procs : state'[p] = "unborn" => got'[p] = <<>>
    BY <1>1, <1>4 DEF SignalsKnown
  <2> QED
    BY <1>1, <1>2, <1>3, <2>1, <2>2, <2>3 DEF SignalsKnown
<1>7. accepted' = forwarded' \o sigs'
  BY <1>1, HeadMoves DEF SignalsKnown, SignalsArrive
<1>8. ASSUME NEW p \in group', Running(p)'
      PROVE  got'[p] = SubSeq(forwarded', before'[p] + 1, Len(forwarded'))
  <2>1. p \in group /\ p \in Procs /\ Running(p)
    BY <1>1, <1>8 DEF Running, SignalsKnown
  <2>2. got'[p] = Append(got[p], x)
    BY <1>1, <2>1 DEF Targets
  <2>3. got[p] = SubSeq(forwarded, before[p] + 1, Len(forwarded))
    BY <2>1 DEF SignalsArrive
  <2>4. before[p] \in 0 .. Len(forwarded)
    BY <1>3, <2>1 DEF SignalsKnown
  <2>5. forwarded \in Seq(Nat) /\ before'[p] = before[p]
    BY <1>1 DEF SignalsKnown
  <2>6. SubSeq(Append(forwarded, x), before[p] + 1, Len(Append(forwarded, x)))
          = Append(SubSeq(forwarded, before[p] + 1, Len(forwarded)), x)
    <3> HIDE DEF x
    <3> QED
      BY <1>2, <2>4, <2>5, SuffixGrows
  <2> QED
    BY <1>1, <2>2, <2>3, <2>5, <2>6
<1> QED
  BY <1>6, <1>7, <1>8 DEF SignalsArrive

(* Everything else sends nothing: it may take a signal into the channel,   *)
(* give birth to a process, or end one.                                    *)
LEMMA StepSignals ==
  ASSUME IInv, SInv, Next
  PROVE  SInv'
<1> USE DEF SInv, loop, output, procs, history
<1>1. CASE Forward
  BY <1>1, ForwardSignals
<1>2. CASE Signal
  <2>1. UNCHANGED <<pc, state, group, got, forwarded, before>>
    BY <1>2 DEF Signal
  <2>2. sent' \in Nat
    BY <1>2 DEF Signal, SignalsKnown
  <2>3. CASE UNCHANGED <<sigs, accepted>>
    BY <2>1, <2>2, <2>3 DEF SignalsKnown, SignalsArrive, Running
  <2>4. CASE sigs' = Append(sigs, sent') /\ accepted' = Append(accepted, sent')
    <3>1. sigs' \in Seq(Nat) /\ accepted' \in Seq(Nat)
      BY <2>2, <2>4, AppendProperties DEF SignalsKnown
    <3>2. accepted' = forwarded' \o sigs'
      <4>1. forwarded \in Seq(Nat) /\ sigs \in Seq(Nat)
        BY DEF SignalsKnown
      <4>2. ASSUME NEW n \in Nat
            PROVE  Append(forwarded \o sigs, n) = forwarded \o Append(sigs, n)
        BY <4>1, AppendToConcat
      <4> QED
        BY <2>1, <2>2, <2>4, <4>2 DEF SignalsArrive
    <3> QED
      BY <2>1, <2>2, <3>1, <3>2 DEF SignalsKnown, SignalsArrive, Running
  <2> QED
    BY <1>2, <2>3, <2>4 DEF Signal
<1>3. CASE Start
  <2>1. /\ pc = "start" /\ pc' = "loop" /\ group' = {Child} /\ state' = [state EXCEPT ![Child] = "running"]
        /\ UNCHANGED <<sigs, got, sent, accepted, forwarded, before>>
    BY <1>3 DEF Start, At
  <2>2. got[Child] = <<>> /\ forwarded = <<>> /\ before[Child] = 0
    BY <2>1 DEF SignalsKnown, IInv, ChildKnown, Procs
  <2>3. SubSeq(forwarded, before[Child] + 1, Len(forwarded)) = <<>>
    BY <2>2, SubSeqEmpty
  <2>4. SignalsKnown'
    BY <2>1 DEF SignalsKnown, IInv, Types, Procs
  <2> QED
    BY <2>1, <2>2, <2>3, <2>4 DEF SignalsArrive, Running
<1>4. ASSUME NEW p \in Procs, Forks(p) PROVE SInv'
  <2>1. /\ state[p] = "unborn" /\ state' = [state EXCEPT ![p] = "running"]
        /\ before' = [before EXCEPT ![p] = Len(forwarded)] /\ group' \subseteq group \cup {p}
        /\ UNCHANGED <<pc, sigs, got, sent, accepted, forwarded>>
    BY <1>4 DEF Forks
  <2>2. p # Child /\ Len(forwarded) \in Nat
    BY <1>4, SupervisorAssumption, LenProperties DEF Forks, SignalsKnown
  <2>3. SignalsKnown'
    BY <2>1, <2>2 DEF SignalsKnown, IInv, Types, Procs
  <2>4. before'[p] = Len(forwarded) /\ got[p] = <<>>
    BY <2>1 DEF SignalsKnown
  <2>5. SubSeq(forwarded, before'[p] + 1, Len(forwarded)) = <<>>
    BY <2>2, <2>4, SubSeqEmpty
  <2>6. \A q \in group' \ {p} : q \in group /\ state'[q] = state[q] /\ before'[q] = before[q]
    BY <2>1 DEF SignalsKnown, IInv, Types
  <2> QED
    BY <2>1, <2>3, <2>4, <2>5, <2>6 DEF SignalsArrive, Running
<1>5. ASSUME UNCHANGED <<sigs, got, history>>, group' \subseteq group,
             pc' = "start" => pc = "start",
             \A p \in Procs : state'[p] = "unborn" => state[p] = "unborn",
             \A p \in Procs : state'[p] = "running" => state[p] = "running"
      PROVE  SInv'
  <2>1. SignalsKnown'
    <3>1. UNCHANGED <<sigs, got, sent, accepted, forwarded, before>>
      BY <1>5
    <3>2. \A p \in Procs : state'[p] = "unborn" => got'[p] = <<>>
      BY <1>5, <3>1 DEF SignalsKnown
    <3>3. pc' = "start" => forwarded' = <<>> /\ before'[Child] = 0
      BY <1>5, <3>1 DEF SignalsKnown
    <3>4. group' \subseteq Procs
      BY <1>5 DEF SignalsKnown
    <3> QED
      BY <3>1, <3>2, <3>3, <3>4 DEF SignalsKnown
  <2>2. accepted' = forwarded' \o sigs'
    BY <1>5 DEF SignalsArrive
  <2>3. ASSUME NEW p \in group', Running(p)'
        PROVE  got'[p] = SubSeq(forwarded', before'[p] + 1, Len(forwarded'))
    <3>1. p \in group /\ p \in Procs /\ Running(p)
      BY <1>5, <2>3 DEF Running, SignalsKnown
    <3> QED
      BY <1>5, <3>1 DEF SignalsArrive
  <2> QED
    BY <2>1, <2>2, <2>3 DEF SignalsArrive
<1>6. ASSUME StartFails \/ ChildSignal \/ Tick \/ Reap \/ Drain PROVE SInv'
  BY <1>5, <1>6 DEF StartFails, ChildSignal, Tick, Reap, Reaped, Wait4, Reaps, Drain, Drained,
                    DrainTimesOut, IInv, Types
<1>7. ASSUME NEW s \in Streams, Copier(s) PROVE SInv'
  BY <1>5, <1>7 DEF Copier, Copy, EndOfFile
<1>8. ASSUME NEW p \in Procs, NEW s \in Streams, Writes(p, s) PROVE SInv'
  BY <1>5, <1>8 DEF Writes
<1>9. ASSUME NEW p \in Procs, Exits(p) \/ Adopted(p) \/ ParentReaps(p) PROVE SInv'
  BY <1>5, <1>9 DEF Exits, Adopted, ParentReaps, IInv, Types
<1> QED
  BY <1>1, <1>2, <1>3, <1>4, <1>6, <1>7, <1>8, <1>9 DEF Next, Select, Kernel

(* No signal the channel took is lost, doubled or overtaken, for any       *)
(* number of signals and of processes in the group.                        *)
THEOREM SignalsTheorem == Spec => []SignalsArrive
<1>1. IInv /\ SInv /\ [Next]_vars => SInv'
  <2>1. ASSUME SInv, UNCHANGED vars PROVE SInv'
    BY <2>1 DEF SInv, SignalsKnown, SignalsArrive, Running, vars, loop, procs, history
  <2> QED
    BY <2>1, StepSignals
<1>2. SInv => SignalsArrive
  BY DEF SInv
<1> QED
  BY <1>1, <1>2, InitSignals, Invariance, PTL DEF Spec

-----------------------------------------------------------------------------
(* The verdict.  What the matcher knows of the job lags behind the runner  *)
(* by the lines that are queued and by those that were dropped: all of it  *)
(* is known but for a start that was.                                      *)

StartAfter(q, k) == \E j \in k + 1 .. Len(q) : q[j] = "start"

(* Behind the last start there is no end; no signature behind an end.      *)
NoLateEnd(q) == \A k \in 1 .. Len(q) : q[k] = "end" => StartAfter(q, k)
NoIdleSignature(q) ==
  \A k, i \in 1 .. Len(q) : k < i /\ q[k] = "end" /\ q[i] = "signature" => StartAfter(q, k)
NoSignature(q) == \A i \in 1 .. Len(q) : q[i] # "signature"

(* A job that runs will be known, if it is not.  And without a signature   *)
(* of an idle runner since the last start, nothing that is queued arms the *)
(* matcher for long: a start behind it clears it.                          *)
JobKnown == ~missed /\ job => NoLateEnd(lines) /\ (StartAfter(lines, 0) \/ jobRunning)
ArmedKnown ==
  ~missed /\ ~fresh =>
    /\ NoIdleSignature(lines)
    /\ StartAfter(lines, 0) \/ (armedAt = Never /\ (jobRunning \/ NoSignature(lines)))

VerdictKnown ==
  /\ lines \in Seq(Line) /\ job \in BOOLEAN /\ fresh \in BOOLEAN /\ missed \in BOOLEAN
  /\ JobKnown /\ ArmedKnown

Grown(q, l, p, n) ==
  /\ q \in Seq(Line) /\ p \in Seq(Line) /\ n \in Nat /\ n = Len(q) /\ Len(p) = n + 1
  /\ p[n + 1] = l /\ \A i \in 1 .. n : p[i] = q[i]
  /\ l = "start" => \A k \in 0 .. n : StartAfter(p, k)
  /\ \A k \in Nat : StartAfter(q, k) => StartAfter(p, k)

LEMMA LineQueued ==
  ASSUME NEW q \in Seq(Line), NEW l \in Line
  PROVE  Grown(q, l, Append(q, l), Len(q))
<1>1. PICK p, n : p = Append(q, l) /\ n = Len(q)
  OBVIOUS
<1>2. /\ p \in Seq(Line) /\ n \in Nat /\ Len(p) = n + 1
      /\ p[n + 1] = l /\ \A i \in 1 .. n : p[i] = q[i]
  BY <1>1, LenProperties, AppendProperties
<1>3. ASSUME l = "start", NEW k \in 0 .. n PROVE StartAfter(p, k)
  BY <1>2, <1>3 DEF StartAfter
<1>4. ASSUME NEW k \in Nat, StartAfter(q, k) PROVE StartAfter(p, k)
  <2>1. PICK j \in k + 1 .. n : q[j] = "start"
    BY <1>1, <1>4 DEF StartAfter
  <2>2. j \in k + 1 .. Len(p) /\ p[j] = "start"
    BY <1>2, <2>1
  <2> QED
    BY <2>2 DEF StartAfter
<1>5. Grown(q, l, p, n)
  BY <1>1, <1>2, <1>3, <1>4 DEF Grown
<1> QED
  BY <1>1, <1>5

LEMMA LineTaken ==
  ASSUME NEW q \in Seq(Line), q # <<>>, NEW t, t = Tail(q)
  PROVE  /\ t \in Seq(Line) /\ Len(t) \in Nat /\ Len(q) = Len(t) + 1 /\ q[1] = Head(q)
         /\ \A i \in 1 .. Len(t) : i + 1 \in 1 .. Len(q) /\ t[i] = q[i + 1]
         /\ \A k \in 0 .. Len(t) : StartAfter(q, k + 1) => StartAfter(t, k)
         /\ StartAfter(t, 0) => StartAfter(q, 0)
         /\ StartAfter(q, 0) /\ Head(q) # "start" => StartAfter(t, 0)
<1>1. /\ t \in Seq(Line) /\ Len(t) \in Nat /\ Len(q) = Len(t) + 1 /\ q[1] = Head(q)
      /\ \A i \in 1 .. Len(t) : i + 1 \in 1 .. Len(q) /\ t[i] = q[i + 1]
  BY LenProperties, HeadTailProperties
<1>2. ASSUME NEW k \in 0 .. Len(t), StartAfter(q, k + 1) PROVE StartAfter(t, k)
  <2>1. PICK j \in k + 2 .. Len(q) : q[j] = "start"
    BY <1>1, <1>2 DEF StartAfter
  <2>2. PICK i \in k + 1 .. Len(t) : j = i + 1
    <3>1. j - 1 \in k + 1 .. Len(t) /\ j = (j - 1) + 1
      BY <1>1, <2>1
    <3> QED
      BY <3>1
  <2>3. t[i] = "start"
    BY <1>1, <2>1, <2>2
  <2> QED
    BY <2>2, <2>3 DEF StartAfter
<1>3. ASSUME StartAfter(t, 0) PROVE StartAfter(q, 0)
  <2>1. PICK j \in 1 .. Len(t) : t[j] = "start"
    BY <1>3 DEF StartAfter
  <2>2. j + 1 \in 1 .. Len(q) /\ q[j + 1] = "start"
    BY <1>1, <2>1
  <2> QED
    BY <2>2 DEF StartAfter
<1>4. ASSUME StartAfter(q, 0), Head(q) # "start" PROVE StartAfter(t, 0)
  <2>1. PICK j \in 1 .. Len(q) : q[j] = "start"
    BY <1>4 DEF StartAfter
  <2>2. j \in 2 .. Len(q)
    BY <1>1, <1>4, <2>1
  <2>3. StartAfter(q, 0 + 1) /\ 0 \in 0 .. Len(t)
    BY <1>1, <2>1, <2>2 DEF StartAfter
  <2> QED
    BY <1>2, <2>3
<1> QED
  BY <1>1, <1>2, <1>3, <1>4

(* A line that is offered: it is queued, or dropped for good.              *)
LEMMA OfferVerdict ==
  ASSUME VerdictKnown, NEW l \in Line, Offer(l), UNCHANGED <<jobRunning, armedAt>>,
         job' \in BOOLEAN, fresh' \in BOOLEAN,
         \/ l = "start"
         \/ l = "end" /\ ~job' /\ fresh' = fresh
         \/ l = "signature" /\ job' = job /\ fresh' = (fresh \/ ~job)
  PROVE  VerdictKnown'
<1>0. missed' \in BOOLEAN /\ (l # "start" /\ ~missed' => ~missed)
  BY Zenon DEF Offer, VerdictKnown
<1>1. CASE UNCHANGED lines /\ (l = "start" => missed')
  <2>1. CASE l = "start"
    BY <1>0, <1>1, <2>1 DEF VerdictKnown, JobKnown, ArmedKnown
  <2>2. CASE l # "start"
    <3>1. (job' => job) /\ (fresh => fresh')
      BY <2>2 DEF VerdictKnown
    <3> QED
      BY <1>0, <1>1, <2>2, <3>1 DEF VerdictKnown, JobKnown, ArmedKnown
  <2> QED
    BY <2>1, <2>2
<1>2. CASE lines' = Append(lines, l)
  <2>1. PICK q, p, n : q = lines /\ p = lines' /\ Grown(q, l, p, n)
    BY <1>2, LineQueued DEF VerdictKnown
  <2>2. /\ n = Len(q) /\ q \in Seq(Line) /\ p \in Seq(Line) /\ n \in Nat /\ Len(p) = n + 1
        /\ p[n + 1] = l /\ \A i \in 1 .. n : p[i] = q[i]
        /\ l = "start" => \A k \in 0 .. n : StartAfter(p, k)
        /\ \A k \in Nat : StartAfter(q, k) => StartAfter(p, k)
    BY <2>1 DEF Grown
  <2>3. \A k \in 1 .. n + 1 : k \in 1 .. n \/ k = n + 1
    BY <2>2
  <2>4. ASSUME ~missed', job' PROVE NoLateEnd(p) /\ (StartAfter(p, 0) \/ jobRunning)
    <3>1. CASE l = "start"
      <4>1. \A k \in 1 .. n + 1 : p[k] = "end" => k \in 0 .. n
        BY <2>2, <2>3, <3>1
      <4> QED
        BY <2>2, <3>1, <4>1 DEF NoLateEnd
    <3>2. CASE l = "signature" /\ job' = job
      <4>1. NoLateEnd(q) /\ (StartAfter(q, 0) \/ jobRunning)
        BY <1>0, <2>1, <2>4, <3>2 DEF VerdictKnown, JobKnown
      <4>2. ASSUME NEW k \in 1 .. n + 1, p[k] = "end" PROVE StartAfter(p, k)
        <5>1. k \in 1 .. n /\ k \in Nat /\ q[k] = "end"
          BY <2>2, <2>3, <3>2, <4>2
        <5> QED
          BY <2>1, <2>2, <4>1, <5>1 DEF NoLateEnd
      <4> QED
        BY <2>2, <4>1, <4>2 DEF NoLateEnd
    <3> QED
      BY <2>4, <3>1, <3>2
  <2>5. ASSUME ~missed', ~fresh'
        PROVE  NoIdleSignature(p) /\ (StartAfter(p, 0) \/ (armedAt = Never /\ (jobRunning \/ NoSignature(p))))
    <3>1. CASE l = "start"
      <4>1. \A k \in 1 .. n + 1 : p[k] = "end" => k \in 0 .. n
        BY <2>2, <2>3, <3>1
      <4> QED
        BY <2>2, <3>1, <4>1 DEF NoIdleSignature
    <3>2. CASE l \in {"end", "signature"} /\ ~fresh /\ (l = "signature" => job)
      <4>1. NoIdleSignature(q) /\ (StartAfter(q, 0) \/ (armedAt = Never /\ (jobRunning \/ NoSignature(q))))
        BY <1>0, <2>1, <2>5, <3>2 DEF VerdictKnown, ArmedKnown
      <4>2. l = "signature" => NoLateEnd(q) /\ (StartAfter(q, 0) \/ jobRunning)
        BY <1>0, <2>1, <2>5, <3>2 DEF VerdictKnown, JobKnown
      <4>3. ASSUME NEW k \in 1 .. n + 1, NEW i \in 1 .. n + 1, k < i, p[k] = "end", p[i] = "signature"
            PROVE  StartAfter(p, k)
        <5>1. k \in 1 .. n /\ k \in Nat /\ q[k] = "end"
          BY <2>2, <4>3
        <5>2. CASE i \in 1 .. n
          <6>1. StartAfter(q, k)
            BY <2>1, <2>2, <4>1, <4>3, <5>1, <5>2 DEF NoIdleSignature
          <6> QED
            BY <2>2, <5>1, <6>1
        <5>3. CASE i = n + 1
          <6>1. StartAfter(q, k)
            BY <2>1, <2>2, <4>2, <4>3, <5>1, <5>3 DEF NoLateEnd
          <6> QED
            BY <2>2, <5>1, <6>1
        <5> QED
          BY <2>3, <5>2, <5>3
      <4>4. StartAfter(q, 0) => StartAfter(p, 0)
        BY <2>2
      <4>5. ~StartAfter(q, 0) => armedAt = Never /\ (jobRunning \/ NoSignature(p))
        <5>1. ASSUME l = "end", NoSignature(q) PROVE NoSignature(p)
          BY <2>1, <2>2, <2>3, <5>1 DEF NoSignature
        <5> QED
          BY <3>2, <4>1, <4>2, <5>1
      <4> QED
        BY <2>2, <4>3, <4>4, <4>5 DEF NoIdleSignature
    <3> QED
      BY <2>5, <3>1, <3>2
  <2> QED
    BY <1>0, <1>2, <2>1, <2>2, <2>4, <2>5 DEF VerdictKnown, JobKnown, ArmedKnown
<1>3. (UNCHANGED lines /\ (l = "start" => missed')) \/ lines' = Append(lines, l)
  BY Zenon DEF Offer
<1> QED
  BY <1>1, <1>2, <1>3

(* The matcher takes a line.                                               *)
LEMMA ObserveVerdict ==
  ASSUME VerdictKnown, Observe
  PROVE  VerdictKnown'
<1>1. /\ lines # <<>> /\ lines' = Tail(lines) /\ UNCHANGED <<job, fresh, missed>>
      /\ \/ Head(lines) = "start" /\ jobRunning' = TRUE /\ armedAt' = Never
         \/ Head(lines) = "end" /\ jobRunning' = FALSE /\ armedAt' = armedAt
         \/ /\ Head(lines) = "signature" /\ jobRunning' = jobRunning
            /\ jobRunning => armedAt' = armedAt
  BY DEF Observe, ObserveStart, ObserveEnd, ObserveSignature, runner
<1> DEFINE q == lines
<1>2. PICK t : t = lines'
  OBVIOUS
<1>3. /\ q \in Seq(Line) /\ t \in Seq(Line) /\ Len(t) \in Nat /\ Len(q) = Len(t) + 1 /\ q[1] = Head(q)
      /\ \A i \in 1 .. Len(t) : i + 1 \in 1 .. Len(q) /\ t[i] = q[i + 1]
      /\ \A k \in 0 .. Len(t) : StartAfter(q, k + 1) => StartAfter(t, k)
      /\ StartAfter(t, 0) => StartAfter(q, 0)
      /\ StartAfter(q, 0) /\ Head(q) # "start" => StartAfter(t, 0)
  BY <1>1, <1>2, LineTaken DEF VerdictKnown
<1>4. 1 \in 1 .. Len(q) /\ 0 \in 0 .. Len(t) /\ \A i \in 1 .. Len(t) : i \in 0 .. Len(t) /\ 1 < i + 1
  BY <1>3
<1>5. ASSUME ~missed, job PROVE NoLateEnd(t) /\ (StartAfter(t, 0) \/ jobRunning')
  <2>1. NoLateEnd(q) /\ (StartAfter(q, 0) \/ jobRunning)
    BY <1>5 DEF VerdictKnown, JobKnown
  <2>2. ASSUME NEW k \in 1 .. Len(t), t[k] = "end" PROVE StartAfter(t, k)
    <3>1. StartAfter(q, k + 1)
      BY <1>3, <2>1, <2>2 DEF NoLateEnd
    <3> QED
      BY <1>3, <1>4, <3>1
  <2>3. Head(q) = "end" => StartAfter(t, 0)
    <3>1. Head(q) = "end" => StartAfter(q, 0 + 1)
      BY <1>3, <1>4, <2>1 DEF NoLateEnd
    <3> QED
      BY <1>3, <1>4, <3>1
  <2> QED
    BY <1>1, <1>3, <2>1, <2>2, <2>3 DEF NoLateEnd
<1>6. ASSUME ~missed, ~fresh
      PROVE  NoIdleSignature(t) /\ (StartAfter(t, 0) \/ (armedAt' = Never /\ (jobRunning' \/ NoSignature(t))))
  <2>1. NoIdleSignature(q) /\ (StartAfter(q, 0) \/ (armedAt = Never /\ (jobRunning \/ NoSignature(q))))
    BY <1>6 DEF VerdictKnown, ArmedKnown
  <2>2. ASSUME NEW k \in 1 .. Len(t), NEW i \in 1 .. Len(t), k < i, t[k] = "end", t[i] = "signature"
        PROVE  StartAfter(t, k)
    <3>1. k + 1 < i + 1 /\ k + 1 \in 1 .. Len(q) /\ i + 1 \in 1 .. Len(q)
      BY <1>3, <2>2
    <3>2. StartAfter(q, k + 1)
      BY <1>3, <2>1, <2>2, <3>1 DEF NoIdleSignature
    <3> QED
      BY <1>3, <1>4, <3>2
  <2>3. CASE Head(q) = "end" /\ ~StartAfter(t, 0)
    <3>1. ~StartAfter(q, 0) /\ ~StartAfter(q, 0 + 1)
      BY <1>3, <1>4, <2>3
    <3>2. \A i \in 1 .. Len(t) : t[i] # "signature"
      BY <1>3, <1>4, <2>1, <2>3, <3>1 DEF NoIdleSignature
    <3> QED
      BY <1>1, <2>1, <2>2, <2>3, <3>1, <3>2 DEF NoIdleSignature, NoSignature
  <2>4. CASE Head(q) = "signature" /\ ~StartAfter(t, 0)
    <3>1. armedAt = Never /\ jobRunning
      BY <1>3, <1>4, <2>1, <2>4 DEF NoSignature
    <3> QED
      BY <1>1, <2>2, <2>4, <3>1 DEF NoIdleSignature
  <2>5. CASE Head(q) = "start" \/ StartAfter(t, 0)
    BY <1>1, <2>2, <2>5 DEF NoIdleSignature
  <2> QED
    BY <1>1, <2>3, <2>4, <2>5
<1> QED
  BY <1>1, <1>2, <1>3, <1>5, <1>6 DEF VerdictKnown, JobKnown, ArmedKnown

LEMMA VerdictStep == VerdictKnown /\ [VerdictNext]_verdictVars => VerdictKnown'
<1> SUFFICES ASSUME VerdictKnown, [VerdictNext]_verdictVars PROVE VerdictKnown'
  OBVIOUS
<1>1. CASE UNCHANGED <<lines, missed, job, fresh, jobRunning, armedAt>>
  BY <1>1 DEF VerdictKnown, JobKnown, ArmedKnown
<1>2. CASE JobStarts \/ JobEnds \/ Signature
  BY <1>2, OfferVerdict
     DEF JobStarts, JobEnds, Signature, Prints, matcher, Line, VerdictKnown
<1>3. CASE Drill
  <2>1. CASE file
    BY <1>3, <2>1, OfferVerdict DEF Drill, matcher, Line, VerdictKnown
  <2>2. CASE ~file
    BY <1>1, <1>3, <2>2 DEF Drill, matcher, queue
  <2> QED
    BY <2>1, <2>2
<1>4. CASE Operator \/ Second \/ Ask
  BY <1>1, <1>4 DEF Operator, Second, Ask, runner, queue, matcher
<1>5. CASE Report \/ Answer
  BY <1>1, <1>5 DEF Report, Answer, Evaluate, runner, queue
<1>6. CASE UNCHANGED verdictVars
  BY <1>1, <1>6 DEF verdictVars, runner, queue, matcher
<1> QED
  BY <1>2, <1>3, <1>4, <1>5, <1>6, ObserveVerdict DEF VerdictNext

(* The invariant holds in every state of every behaviour.                  *)
THEOREM VerdictInvariance == VerdictSpec => []VerdictKnown
<1>1. VerdictInit => VerdictKnown
  <2> SUFFICES ASSUME VerdictInit PROVE VerdictKnown
    OBVIOUS
  <2>1. lines = <<>> /\ Len(lines) = 0 /\ lines \in Seq(Line)
    BY EmptySeq, LenProperties DEF VerdictInit
  <2>2. NoIdleSignature(lines) /\ NoSignature(lines)
    BY <2>1 DEF NoIdleSignature, NoSignature
  <2>3. job = FALSE /\ missed = FALSE /\ fresh = FALSE /\ armedAt = Never
    BY DEF VerdictInit
  <2> QED
    BY <2>1, <2>2, <2>3 DEF VerdictKnown, JobKnown, ArmedKnown
<1> QED
  BY <1>1, VerdictStep, PTL DEF VerdictSpec

(* Only an evaluation condemns, of a matcher that is armed and knows of no *)
(* job.                                                                    *)
LEMMA CondemnedByTheMatcher ==
  ASSUME [VerdictNext]_verdictVars, Condemns
  PROVE  ~jobRunning /\ armedAt # Never
<1>1. health' # health
  BY DEF Condemns
<1>2. Answer
  BY <1>1 DEF Condemns, VerdictNext, JobStarts, JobEnds, Signature, Prints, Operator, Drill, Observe,
     ObserveStart, ObserveEnd, ObserveSignature, Second, Report, Ask, verdictVars, askers
<1>3. stuck'
  BY <1>2 DEF Answer, Condemns
<1> QED
  BY <1>2, <1>3 DEF Answer, Evaluate, Verdict

(* When /healthz turns to 503, the runner runs no job, or the line that    *)
(* says it does is on its way or was itself dropped: for any grace, any    *)
(* queue and any number of lines.                                          *)
THEOREM NeverCondemnsTheorem == VerdictSpec => NeverCondemnsAJob
<1>1. VerdictKnown /\ [VerdictNext]_verdictVars =>
        (Condemns => ~job \/ missed \/ Contains(lines, "start"))
  <2> SUFFICES ASSUME VerdictKnown, [VerdictNext]_verdictVars, Condemns, job, ~missed
               PROVE  Contains(lines, "start")
    BY DEF VerdictKnown
  <2>1. StartAfter(lines, 0)
    BY CondemnedByTheMatcher DEF VerdictKnown, JobKnown
  <2> QED
    BY <2>1 DEF StartAfter, Contains
<1> QED
  BY <1>1, VerdictInvariance, PTL DEF VerdictSpec, NeverCondemnsAJob

(* Nor is a runner condemned for what it printed before or during its last *)
(* job, however the lines were delayed.                                    *)
THEOREM FreshSignatureTheorem == VerdictSpec => CondemnedByAFreshSignature
<1>1. VerdictKnown /\ [VerdictNext]_verdictVars =>
        (Condemns => fresh \/ missed \/ Contains(lines, "start"))
  <2> SUFFICES ASSUME VerdictKnown, [VerdictNext]_verdictVars, Condemns, ~fresh, ~missed
               PROVE  Contains(lines, "start")
    BY DEF VerdictKnown
  <2>1. StartAfter(lines, 0)
    BY CondemnedByTheMatcher DEF VerdictKnown, ArmedKnown
  <2> QED
    BY <2>1 DEF StartAfter, Contains
<1> QED
  BY <1>1, VerdictInvariance, PTL DEF VerdictSpec, CondemnedByAFreshSignature
=============================================================================
