---------------------------- MODULE HostCert_proofs ----------------------------
(***************************************************************************)
(* What holds of HostCert for every lifetime, interval and backoff: its    *)
(* types, the bound on the backoff among them, that sshd presents a        *)
(* certificate of its own key or does not run, that a worker that is ready *)
(* presents a valid one, and that it is renewed in time.                   *)
(***************************************************************************)
EXTENDS HostCert, TLAPS

(* What PresentsItsOwn needs: a certificate that may be put in place has   *)
(* been validated, one that is in place when sshd starts was put there by  *)
(* this container, and a container that is down has nothing running.       *)
Fits ==
  /\ prog.pc \in {"write", "ok"} => prog.cert.of = "own"
  /\ phase # "serve" => renewal = "none" /\ ~hup
  /\ phase = "sign" /\ prog.pc = "ok" => file.of = "own"
  /\ phase = "serve" => file.of = "own"

IInv == TypeOK /\ Fits /\ PresentsItsOwn

-----------------------------------------------------------------------------
(* A certificate that may be presented stays one as it ages.               *)
LEMMA OlderCert ==
  ASSUME NEW c \in MaybeCert
  PROVE  Older(c) \in MaybeCert /\ Older(c).of = c.of
<1>1. CASE c = NoCert
  BY <1>1 DEF Older, MaybeCert, NoCert
<1>2. CASE c \in Certificate
  BY <1>2, HostCertAssumption DEF Older, MaybeCert, Certificate
<1> QED
  BY <1>1, <1>2 DEF MaybeCert

(* Whatever the loop has been through, its next backoff is within bounds.  *)
LEMMA BackoffBounded ==
  ASSUME backoff \in FirstBackoff .. LongestBackoff
  PROVE  NextBackoff \in FirstBackoff .. LongestBackoff
BY HostCertAssumption DEF NextBackoff, LongestBackoff

(* Every backoff, and renewEvery, is a sleep.                              *)
LEMMA Sleeps ==
  /\ FirstBackoff \in FirstBackoff .. LongestBackoff
  /\ RenewEvery \in 0 .. LongestSleep
  /\ 0 \in 0 .. LongestSleep /\ 0 \in 0 .. LongestBackoff
  /\ \A b \in FirstBackoff .. LongestBackoff : b \in 0 .. LongestSleep
BY HostCertAssumption DEF LongestBackoff, LongestSleep

-----------------------------------------------------------------------------
(* Init establishes the invariant: there is no container yet.              *)
LEMMA InitInv == Init => IInv
<1> SUFFICES ASSUME Init PROVE IInv
  OBVIOUS
<1>1. TypeOK
  BY Sleeps DEF Init, TypeOK, MaybeCert, NoProg
<1> QED
  BY <1>1 DEF Init, IInv, Fits, PresentsItsOwn, NoProg

(* nix-worker-host-cert: only what Accepts lets through gets to Write.     *)
LEMMA AskInv == IInv /\ Ask => IInv'
<1> SUFFICES ASSUME IInv, Ask PROVE IInv'
  OBVIOUS
<1> USE DEF Ask, process, history
<1>1. Signs \subseteq Certificate
  <2>1. weather \in {"good", "down", "wrong", "nosync"}
    BY DEF IInv, TypeOK, Weather
  <2>2. TTL \in 0 .. TTL /\ 0 \in 0 .. TTL
    BY HostCertAssumption
  <2> QED
    BY <2>1, <2>2 DEF Signs, Certificate
<1>2. \/ prog' = [prog EXCEPT !.pc = "failed"]
      \/ \E cert \in Certificate : cert.of = "own" /\ prog' = [pc |-> "write", cert |-> cert]
  BY <1>1 DEF Accepts
<1>3. TypeOK'
  BY <1>2 DEF IInv, TypeOK, MaybeCert
<1>4. Fits' /\ PresentsItsOwn'
  BY <1>2 DEF IInv, TypeOK, Fits, PresentsItsOwn
<1> QED
  BY <1>3, <1>4 DEF IInv

LEMMA WriteInv == IInv /\ Write => IInv'
<1> SUFFICES ASSUME IInv, Write PROVE IInv'
  OBVIOUS
<1> USE DEF Write, process, history
<1>1. TypeOK'
  BY DEF IInv, TypeOK
<1>2. Fits' /\ PresentsItsOwn'
  BY DEF IInv, TypeOK, Fits, PresentsItsOwn
<1> QED
  BY <1>1, <1>2 DEF IInv

(* A container that ends, whether its first signing failed or not.         *)
LEMMA ExitsInv == IInv /\ Exits => IInv'
<1> SUFFICES ASSUME IInv, Exits PROVE IInv'
  OBVIOUS
<1> USE DEF Exits, history, NoProg
<1>1. TypeOK'
  BY Sleeps DEF IInv, TypeOK, MaybeCert
<1>2. Fits' /\ PresentsItsOwn'
  BY DEF Fits, PresentsItsOwn
<1> QED
  BY <1>1, <1>2 DEF IInv

LEMMA BootInv == IInv /\ Boot => IInv'
<1> SUFFICES ASSUME IInv, Boot PROVE IInv'
  OBVIOUS
<1> USE DEF Boot, Asks, NoProg
<1>1. TypeOK'
  BY DEF IInv, TypeOK, MaybeCert
<1>2. Fits' /\ PresentsItsOwn'
  BY DEF IInv, Fits, PresentsItsOwn
<1> QED
  BY <1>1, <1>2 DEF IInv

LEMMA StartInv == IInv /\ Start => IInv'
<1> SUFFICES ASSUME IInv, Start PROVE IInv'
  OBVIOUS
<1> USE DEF Start, history, NoProg
<1>1. TypeOK'
  BY Sleeps DEF IInv, TypeOK, MaybeCert
<1>2. Fits' /\ PresentsItsOwn'
  BY DEF IInv, Fits, PresentsItsOwn
<1> QED
  BY <1>1, <1>2 DEF IInv

(* The loop: it never moves the phase, the file or what sshd presents.     *)
LEMMA LoopInv ==
  IInv /\ (Wake \/ Renewed \/ RenewalFails \/ LoopKilled) => IInv'
<1> SUFFICES ASSUME IInv, Wake \/ Renewed \/ RenewalFails \/ LoopKilled PROVE IInv'
  OBVIOUS
<1> USE DEF Wake, Renewed, RenewalFails, LoopKilled, history, Asks, NoProg
<1>1. backoff' \in FirstBackoff .. LongestBackoff
  BY Sleeps, BackoffBounded DEF IInv, TypeOK
<1>2. sleep' \in 0 .. LongestSleep
  BY Sleeps DEF IInv, TypeOK
<1>3. untold' \in BOOLEAN
  BY Zenon DEF IInv, TypeOK
<1>4. prog' \in [pc: {"none", "ask", "write", "ok", "failed"}, cert: MaybeCert]
  BY DEF MaybeCert
<1>5. /\ UNCHANGED <<phase, file, loaded, weather, goodFor>>
      /\ renewal' \in {"asleep", "run", "dead"} /\ hup' \in {hup, TRUE}
  BY Zenon
<1>6. TypeOK'
  BY <1>1, <1>2, <1>3, <1>4, <1>5 DEF IInv, TypeOK
<1>7. Fits' /\ PresentsItsOwn'
  BY DEF IInv, TypeOK, Fits, PresentsItsOwn
<1> QED
  BY <1>6, <1>7 DEF IInv

(* A SIGHUP is for a running sshd, and the file is a certificate of its.   *)
LEMMA ReloadInv == IInv /\ Reload => IInv'
<1> SUFFICES ASSUME IInv, Reload PROVE IInv'
  OBVIOUS
<1> USE DEF Reload
<1>1. TypeOK'
  BY DEF IInv, TypeOK
<1>2. Fits' /\ PresentsItsOwn'
  BY DEF IInv, TypeOK, Fits, PresentsItsOwn
<1> QED
  BY <1>1, <1>2 DEF IInv

LEMMA TurnsInv == IInv /\ Turns => IInv'
<1> SUFFICES ASSUME IInv, Turns PROVE IInv'
  OBVIOUS
<1> USE DEF Turns, process
<1>1. TypeOK'
  BY Sleeps DEF IInv, TypeOK
<1>2. Fits' /\ PresentsItsOwn'
  BY DEF IInv, Fits, PresentsItsOwn
<1> QED
  BY <1>1, <1>2 DEF IInv

LEMMA TickInv == IInv /\ Tick => IInv'
<1> SUFFICES ASSUME IInv, Tick PROVE IInv'
  OBVIOUS
<1>1. file' \in MaybeCert /\ file'.of = file.of /\ loaded' \in MaybeCert /\ loaded'.of = loaded.of
  BY OlderCert DEF IInv, TypeOK, Tick
<1>2. sleep' \in 0 .. LongestSleep
  BY HostCertAssumption DEF IInv, TypeOK, Tick, Quiet, LongestSleep, LongestBackoff
<1>3. goodFor' \in 0 .. LongestBackoff
  BY HostCertAssumption DEF IInv, TypeOK, Tick, LongestBackoff
<1>4. TypeOK'
  BY <1>1, <1>2, <1>3 DEF IInv, TypeOK, Tick
<1>5. Fits' /\ PresentsItsOwn'
  BY <1>1 DEF IInv, Fits, PresentsItsOwn, Tick
<1> QED
  BY <1>4, <1>5 DEF IInv

LEMMA StutterInv == IInv /\ UNCHANGED vars => IInv'
BY DEF IInv, TypeOK, Fits, PresentsItsOwn, vars, process, history

LEMMA NextInv == IInv /\ [Next]_vars => IInv'
BY AskInv, WriteInv, ExitsInv, BootInv, StartInv, LoopInv, ReloadInv, TurnsInv, TickInv, StutterInv
DEF Next, Program, FirstSignFails, Crash

-----------------------------------------------------------------------------
(* Every reachable state satisfies the invariant.                          *)
THEOREM Invariant == Spec => []IInv
<1>1. Init => IInv
  BY InitInv
<1>2. IInv /\ [Next]_vars => IInv'
  BY NextInv
<1> QED
  BY <1>1, <1>2, PTL DEF Spec

(* The loop never sleeps longer than renewEvery or twice the cap, whatever *)
(* the constants and however long it has been failing (entrypoint.sh:267). *)
THEOREM TypeCorrect == Spec => []TypeOK
<1>1. IInv => TypeOK
  BY DEF IInv
<1> QED
  BY <1>1, Invariant, PTL

(* sshd never runs without a certificate of its own key, whatever the      *)
(* signer hands back and whatever earlier containers left behind.          *)
THEOREM PresentsItsOwnTheorem == Spec => []PresentsItsOwn
<1>1. IInv => PresentsItsOwn
  BY DEF IInv
<1> QED
  BY <1>1, Invariant, PTL

-----------------------------------------------------------------------------
(* The properties about time.                                              *)

(* No program is at work while the loop sleeps, and no time passes while   *)
(* one is, so a program that failed met weather that was bad just now and  *)
(* one that did not has made a whole new certificate.                      *)
ProgramKnown ==
  /\ prog.pc # "none" => renewal # "asleep"
  /\ weather # "good" => goodFor = 0
  /\ prog.pc = "failed" => goodFor = 0
  /\ prog.pc = "write" => prog.cert.left = TTL
  /\ prog.pc = "ok" => file.left = TTL

(* sshd presents the file, unless it has yet to be told of it.             *)
FileIsLoaded ==
  phase = "serve" /\ ~untold /\ ~hup /\ prog.pc # "ok" => loaded = file

(* The loop sleeps on a certificate it has renewed, or has failed: then it *)
(* sleeps no longer than the weather can have been good for.               *)
SleepKnown ==
  phase = "serve" /\ renewal = "asleep" =>
    \/ file.left = TTL - RenewEvery + sleep /\ (hup \/ loaded = file)
    \/ goodFor + sleep <= LongestBackoff

TInv == ProgramKnown /\ FileIsLoaded /\ SleepKnown

LEMMA InitTime == Init => TInv
BY DEF Init, TInv, ProgramKnown, FileIsLoaded, SleepKnown, NoProg

(* nix-worker-host-cert.                                                   *)
LEMMA ProgramTime == IInv /\ TInv /\ (Ask \/ Write) => TInv'
<1> SUFFICES ASSUME IInv, TInv, Ask \/ Write PROVE TInv'
  OBVIOUS
<1> USE DEF TInv, process, history
<1>1. prog.pc \in {"ask", "write"} /\ renewal # "asleep"
      /\ UNCHANGED <<phase, loaded, renewal, sleep, hup, weather, goodFor>>
  BY DEF Ask, Write, ProgramKnown
<1>2. SleepKnown'
  BY <1>1 DEF SleepKnown
<1>3. CASE Ask
  <2>1. /\ UNCHANGED <<file, untold>>
        /\ prog'.pc = "failed" \/ (prog'.pc = "write" /\ prog'.cert.left = TTL)
        /\ prog'.pc = "failed" => weather # "good"
    <3>1. CASE \E cert \in Signs : Accepts(cert) /\ prog' = [pc |-> "write", cert |-> cert]
      BY <1>3, <3>1 DEF Ask, Signs, Accepts, IInv, TypeOK, Weather
    <3>2. CASE ((\E cert \in Signs : ~Accepts(cert)) \/ Signs = {}) /\ prog' = [prog EXCEPT !.pc = "failed"]
      <4>1. weather # "good"
        <5> SUFFICES ASSUME weather = "good" PROVE FALSE
          OBVIOUS
        <5> DEFINE whole == [of |-> "own", left |-> TTL]
        <5>1. Signs = {whole}
          BY DEF Signs
        <5>2. Accepts(whole)
          BY HostCertAssumption DEF Accepts
        <5> HIDE DEF whole
        <5> QED
          BY <3>2, <5>1, <5>2
      <4>2. prog'.pc = "failed"
        BY <3>2 DEF IInv, TypeOK
      <4> QED
        BY <1>3, <4>1, <4>2 DEF Ask
    <3> QED
      BY <1>3, <3>1, <3>2 DEF Ask
  <2> QED
    BY <1>1, <1>2, <1>3, <2>1 DEF ProgramKnown, FileIsLoaded, Ask
<1>4. CASE Write
  <2>1. /\ file' = prog.cert /\ prog.cert.left = TTL
        /\ prog'.pc = IF weather = "nosync" THEN "failed" ELSE "ok"
        /\ weather = "nosync" => untold'
    BY <1>4 DEF Write, ProgramKnown, IInv, TypeOK
  <2> QED
    BY <1>1, <1>2, <2>1 DEF ProgramKnown, FileIsLoaded
<1> QED
  BY <1>3, <1>4

(* The entrypoint and its loop.                                            *)
LEMMA EntrypointTime ==
  IInv /\ TInv /\ (Boot \/ Exits \/ Start \/ Wake \/ Renewed \/ RenewalFails \/ Reload) => TInv'
<1> SUFFICES ASSUME IInv, TInv, Boot \/ Exits \/ Start \/ Wake \/ Renewed \/ RenewalFails \/ Reload
             PROVE  TInv'
  OBVIOUS
<1> USE DEF TInv, history, NoProg, Asks
<1>1. CASE Boot
  BY <1>1 DEF Boot, ProgramKnown, FileIsLoaded, SleepKnown, IInv, Fits
<1>2. CASE Exits
  BY <1>2 DEF Exits, ProgramKnown, FileIsLoaded, SleepKnown
<1>3. CASE Start
  BY <1>3, HostCertAssumption DEF Start, ProgramKnown, FileIsLoaded, SleepKnown
<1>4. CASE Wake
  BY <1>4 DEF Wake, ProgramKnown, FileIsLoaded, SleepKnown
<1>5. CASE Renewed
  BY <1>5, HostCertAssumption DEF Renewed, ProgramKnown, FileIsLoaded, SleepKnown
<1>6. CASE RenewalFails
  <2>1. goodFor = 0 /\ backoff \in Nat /\ backoff <= LongestBackoff
    BY <1>6, HostCertAssumption DEF RenewalFails, ProgramKnown, IInv, TypeOK, LongestBackoff
  <2> QED
    BY <1>6, <2>1 DEF RenewalFails, ProgramKnown, FileIsLoaded, SleepKnown
<1>7. CASE Reload
  BY <1>7 DEF Reload, ProgramKnown, FileIsLoaded, SleepKnown
<1> QED
  BY <1>1, <1>2, <1>3, <1>4, <1>5, <1>6, <1>7

(* The loop is killed, the weather turns, and time passes.                 *)
LEMMA SurroundingsTime == IInv /\ TInv /\ (LoopKilled \/ Turns \/ Tick) => TInv'
<1> SUFFICES ASSUME IInv, TInv, LoopKilled \/ Turns \/ Tick PROVE TInv'
  OBVIOUS
<1> USE DEF TInv, process, NoProg
<1>1. CASE LoopKilled
  BY <1>1 DEF LoopKilled, ProgramKnown, FileIsLoaded, SleepKnown
<1>2. CASE Turns
  <2>1. goodFor' = 0 /\ UNCHANGED <<phase, loaded, renewal, sleep, hup, file, prog, untold>>
    BY <1>2 DEF Turns
  <2>2. sleep \in Nat /\ goodFor \in Nat /\ LongestBackoff \in Nat
    BY HostCertAssumption DEF IInv, TypeOK, LongestBackoff, LongestSleep
  <2> QED
    BY <2>1, <2>2 DEF ProgramKnown, FileIsLoaded, SleepKnown
<1>3. CASE Tick
  <2>1. /\ prog.pc = "none" /\ ~hup /\ (renewal = "asleep" => sleep > 0)
        /\ UNCHANGED <<phase, prog, renewal, backoff, hup, weather, untold>>
        /\ file' = Older(file) /\ loaded' = Older(loaded)
        /\ sleep' = IF renewal = "asleep" THEN sleep - 1 ELSE sleep
        /\ goodFor' = IF weather = "good" /\ goodFor < LongestBackoff THEN goodFor + 1 ELSE goodFor
    BY <1>3 DEF Tick, Quiet
  <2>2. ProgramKnown' /\ FileIsLoaded'
    BY <2>1 DEF ProgramKnown, FileIsLoaded
  <2>3. sleep \in Nat /\ goodFor \in Nat /\ LongestBackoff \in Nat
    BY HostCertAssumption DEF IInv, TypeOK, LongestBackoff, LongestSleep
  <2>4. ASSUME phase = "serve", renewal = "asleep"
        PROVE  \/ file'.left = TTL - RenewEvery + sleep' /\ loaded' = file'
               \/ goodFor' + sleep' <= LongestBackoff
    <3>1. CASE file.left = TTL - RenewEvery + sleep /\ loaded = file
      <4>1. file.left \in Nat /\ file.left > 0
        BY <2>1, <2>3, <2>4, <3>1, HostCertAssumption
      <4>2. Older(file).left = file.left - 1
        <5>1. file \in Certificate
          BY <4>1 DEF IInv, TypeOK, MaybeCert, NoCert
        <5> QED
          BY <4>1, <5>1 DEF Older, Certificate
      <4> QED
        BY <2>1, <2>3, <2>4, <3>1, <4>1, <4>2, HostCertAssumption
    <3>2. CASE goodFor + sleep <= LongestBackoff
      BY <2>1, <2>3, <2>4, <3>2
    <3> QED
      BY <2>1, <2>4, <3>1, <3>2 DEF SleepKnown
  <2> QED
    BY <2>1, <2>2, <2>4 DEF SleepKnown
<1> QED
  BY <1>1, <1>2, <1>3

LEMMA TimeInvariant == Spec => []TInv
<1>1. IInv /\ TInv /\ [Next]_vars => TInv'
  <2>1. ASSUME TInv, UNCHANGED vars PROVE TInv'
    BY <2>1 DEF TInv, ProgramKnown, FileIsLoaded, SleepKnown, vars, process, history
  <2> QED
    BY <2>1, ProgramTime, EntrypointTime, SurroundingsTime DEF Next, Program, FirstSignFails, Crash
<1> QED
  BY <1>1, InitTime, Invariant, PTL DEF Spec

(* A worker that is ready presents a certificate that is valid, but where  *)
(* a run that put a new one in place did not end well.                     *)
THEOREM ReadyTheorem == Spec => []ReadyMeansServed
<1>1. IInv /\ TInv => ReadyMeansServed
  BY DEF TInv, FileIsLoaded, ReadyMeansServed, Ready, Quiet
<1> QED
  BY <1>1, Invariant, TimeInvariant, PTL

(* Whatever the lifetime, the interval and the backoff, and whatever has   *)
(* failed before, the certificate is renewed in time once the signer and   *)
(* the disk have been well for the longest backoff.                        *)
THEOREM RenewedTheorem == Spec => []RenewedInTime
<1>1. ASSUME IInv, TInv, phase = "serve", renewal = "asleep", Quiet, goodFor >= LongestBackoff
      PROVE  loaded.left >= TTL - RenewEvery
  <2>1. ~hup /\ sleep \in Nat /\ sleep > 0 /\ goodFor \in Nat /\ LongestBackoff \in Nat
    BY <1>1, HostCertAssumption DEF Quiet, IInv, TypeOK, LongestBackoff, LongestSleep
  <2>2. loaded.left = TTL - RenewEvery + sleep
    BY <1>1, <2>1 DEF TInv, SleepKnown
  <2> QED
    BY <2>1, <2>2, HostCertAssumption
<1>2. IInv /\ TInv => RenewedInTime
  BY <1>1 DEF RenewedInTime
<1> QED
  BY <1>2, Invariant, TimeInvariant, PTL
=============================================================================
