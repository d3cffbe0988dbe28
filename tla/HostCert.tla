------------------------------- MODULE HostCert -------------------------------
(***************************************************************************)
(* The host certificate of one nix worker: nix-worker-entrypoint.sh signs  *)
(* before sshd starts and renews it while sshd runs, nix-worker-host-cert  *)
(* has it signed and puts it in place, nix-worker-healthcheck.sh reads it  *)
(* for the readiness probe.  The containers of a pod share the directory.  *)
(*                                                                         *)
(* Time is counted down: a certificate is what it certifies and the time   *)
(* it has left.  What a program does takes no time.                        *)
(***************************************************************************)
EXTENDS Naturals

CONSTANTS
  TTL,           \* certificateTTL
  RenewEvery,    \* renewEvery
  MinRemaining,  \* minRemaining
  FirstBackoff,  \* 30
  Cap            \* 900

(* What the chart refuses to render is not assumed away here.              *)
ASSUME HostCertAssumption ==
  /\ TTL \in Nat /\ RenewEvery \in 1 .. TTL - 1 /\ MinRemaining \in 0 .. TTL - 1
  /\ Cap \in Nat /\ FirstBackoff \in 1 .. Cap

(* The container's own key, or any other: a leftover, a signing mix-up.    *)
Certificate == [of: {"own", "other"}, left: 0 .. TTL]
NoCert == [of |-> "none", left |-> 0]
MaybeCert == Certificate \cup {NoCert}

VARIABLES
  phase,     \* of the container: "down", "sign" the first time, "serve"
  file,      \* the certificate in the runtime directory
  loaded,    \* the one sshd presents
  prog,      \* nix-worker-host-cert, and the certificate it was given
  renewal,   \* the background loop
  sleep,     \* what its sleep has left
  backoff,   \* and its next one after a failure
  hup,       \* a SIGHUP that sshd has yet to act on
  weather,   \* what the signer and the disk are doing
  goodFor,   \* history: for how long they have been well
  untold     \* history: file was replaced by a run that did not end well

process == <<phase, loaded, renewal, sleep, backoff, hup>>
history == <<goodFor, untold>>
vars == <<process, file, prog, weather, history>>

(* Doubling stops at Cap, but only once it is reached.                     *)
LongestBackoff == IF FirstBackoff < Cap THEN 2 * (Cap - 1) ELSE Cap
LongestSleep == IF RenewEvery > LongestBackoff THEN RenewEvery ELSE LongestBackoff

(* "nosync" is a disk that renames and fails to sync the directory; a disk *)
(* that fails earlier is "down".  "wrong" is a signer whose role drifted.  *)
Weather == {"good", "down", "wrong", "nosync"}

(* What doubling makes of the backoff is bounded.                          *)
TypeOK ==
  /\ phase \in {"down", "sign", "serve"}
  /\ file \in MaybeCert /\ loaded \in MaybeCert
  /\ prog \in [pc: {"none", "ask", "write", "ok", "failed"}, cert: MaybeCert]
  /\ renewal \in {"none", "asleep", "run", "dead"}
  /\ sleep \in 0 .. LongestSleep
  /\ backoff \in FirstBackoff .. LongestBackoff
  /\ hup \in BOOLEAN /\ untold \in BOOLEAN
  /\ weather \in Weather /\ goodFor \in 0 .. LongestBackoff

NoProg == [pc |-> "none", cert |-> NoCert]
Asks == [pc |-> "ask", cert |-> NoCert]

Init ==
  /\ phase = "down" /\ file = NoCert /\ loaded = NoCert /\ prog = NoProg
  /\ renewal = "none" /\ sleep = 0 /\ backoff = FirstBackoff /\ hup = FALSE
  /\ weather \in Weather /\ goodFor = 0 /\ untold = FALSE

-----------------------------------------------------------------------------
(* nix-worker-host-cert                                                    *)

(* What the signer hands back, if anything.                                *)
Signs ==
  CASE weather \in {"good", "nosync"} -> {[of |-> "own", left |-> TTL]}
    [] weather = "wrong" -> {[of |-> "other", left |-> TTL], [of |-> "own", left |-> 0]}
    [] weather = "down" -> {}

(* Mutant: the key that was signed is not compared.                        *)
AcceptsAnyKey(cert) == cert.left > 0

(* validateHostCertificate                                                 *)
Accepts(cert) == cert.of = "own" /\ cert.left > 0

(* sign: login, sign, validate.                                            *)
Ask ==
  /\ prog.pc = "ask"
  /\ \/ \E cert \in Signs : Accepts(cert) /\ prog' = [pc |-> "write", cert |-> cert]
     \/ (\E cert \in Signs : ~Accepts(cert)) /\ prog' = [prog EXCEPT !.pc = "failed"]
     \/ Signs = {} /\ prog' = [prog EXCEPT !.pc = "failed"]
  /\ UNCHANGED <<process, file, weather, history>>

(* atomicWrite: an error after the rename is an error, with the file in    *)
(* place.                                                                  *)
Write ==
  /\ prog.pc = "write"
  /\ file' = prog.cert
  /\ prog' = [prog EXCEPT !.pc = IF weather = "nosync" THEN "failed" ELSE "ok"]
  /\ untold' = (untold \/ weather = "nosync")
  /\ UNCHANGED <<process, weather, goodFor>>

-----------------------------------------------------------------------------
(* nix-worker-entrypoint.sh                                                *)

(* A container starts: what an earlier one left is discarded, a key is     *)
(* made, and its certificate is asked for.                                 *)
Boot ==
  /\ phase = "down"
  /\ phase' = "sign" /\ file' = NoCert /\ prog' = Asks
  /\ untold' = FALSE
  /\ UNCHANGED <<loaded, renewal, sleep, backoff, hup, weather, goodFor>>

(* The container and all in it are gone.                                   *)
Exits ==
  /\ phase' = "down" /\ loaded' = NoCert /\ prog' = NoProg
  /\ renewal' = "none" /\ sleep' = 0 /\ backoff' = FirstBackoff /\ hup' = FALSE
  /\ UNCHANGED <<file, weather, history>>

(* Mutant: a first signing that failed is not the end of the container.    *)
FirstSignIgnored ==
  /\ phase = "sign" /\ prog.pc = "failed"
  /\ prog' = NoProg
  /\ UNCHANGED <<process, file, weather, history>>

(* The first signing is fail-closed.                                       *)
FirstSignFails == phase = "sign" /\ prog.pc = "failed" /\ Exits

(* sshd starts with what is there, and the loop with a whole renewEvery.   *)
Start ==
  /\ phase = "sign" /\ prog.pc = "ok"
  /\ phase' = "serve" /\ loaded' = file /\ prog' = NoProg
  /\ renewal' = "asleep" /\ sleep' = RenewEvery /\ backoff' = FirstBackoff
  /\ UNCHANGED <<file, hup, weather, history>>

Wake ==
  /\ renewal = "asleep" /\ sleep = 0
  /\ renewal' = "run" /\ prog' = Asks
  /\ UNCHANGED <<phase, file, loaded, sleep, backoff, hup, weather, history>>

(* Mutant: sshd is not told.                                               *)
RenewedQuietly ==
  /\ renewal = "run" /\ prog.pc = "ok"
  /\ renewal' = "asleep" /\ sleep' = RenewEvery /\ backoff' = FirstBackoff
  /\ prog' = NoProg
  /\ UNCHANGED <<phase, file, loaded, hup, weather, history>>

Renewed ==
  /\ renewal = "run" /\ prog.pc = "ok"
  /\ renewal' = "asleep" /\ sleep' = RenewEvery /\ backoff' = FirstBackoff
  /\ hup' = TRUE /\ prog' = NoProg
  /\ UNCHANGED <<phase, file, loaded, weather, history>>

(* Mutant: it doubles for ever.                                            *)
DoubledBackoff == backoff * 2

NextBackoff == IF backoff < Cap THEN backoff * 2 ELSE Cap

RenewalFails ==
  /\ renewal = "run" /\ prog.pc = "failed"
  /\ renewal' = "asleep" /\ sleep' = backoff /\ backoff' = NextBackoff
  /\ prog' = NoProg
  /\ UNCHANGED <<phase, file, loaded, hup, weather, history>>

(* sshd executes itself again, and loads the file.                         *)
Reload ==
  /\ hup /\ hup' = FALSE
  /\ loaded' = file /\ untold' = FALSE
  /\ UNCHANGED <<phase, file, prog, renewal, sleep, backoff, weather, goodFor>>

(* wait -n: the daemon or sshd ended.  Or the pod is told to stop.         *)
Crash == phase # "down" /\ Exits

-----------------------------------------------------------------------------
(* The surroundings.                                                       *)

(* The loop is killed; nothing waits for it.                               *)
LoopKilled ==
  /\ renewal \in {"asleep", "run"}
  /\ renewal' = "dead" /\ sleep' = 0 /\ prog' = NoProg
  /\ untold' = (untold \/ prog.pc = "ok")
  /\ UNCHANGED <<phase, file, loaded, backoff, hup, weather, goodFor>>

Turns ==
  /\ weather' \in Weather \ {weather}
  /\ goodFor' = 0
  /\ UNCHANGED <<process, file, prog, untold>>

Older(cert) == [cert EXCEPT !.left = IF @ = 0 THEN 0 ELSE @ - 1]

(* No program is at work, no sleep has ended.                              *)
Quiet == prog.pc = "none" /\ ~hup /\ (renewal = "asleep" => sleep > 0)

Tick ==
  /\ Quiet
  /\ file' = Older(file) /\ loaded' = Older(loaded)
  /\ sleep' = IF renewal = "asleep" THEN sleep - 1 ELSE sleep
  /\ goodFor' = IF weather = "good" /\ goodFor < LongestBackoff THEN goodFor + 1 ELSE goodFor
  /\ UNCHANGED <<phase, prog, renewal, backoff, hup, weather, untold>>

Program ==
  \/ Ask \/ Write
  \/ FirstSignFails \/ Start \/ Wake \/ Renewed \/ RenewalFails \/ Reload

Next == Program \/ Boot \/ Crash \/ LoopKilled \/ Turns \/ Tick

Spec == Init /\ [][Next]_vars

(* Programs run and time passes; kubelet starts a container that ended.    *)
(* Of the signer and the disk nothing is assumed.                          *)
FairSpec == Spec /\ WF_vars(Program) /\ WF_vars(Tick) /\ WF_vars(Boot)

-----------------------------------------------------------------------------
(* The readiness probe: check_host_certificate, and a port that answers.   *)
Ready ==
  /\ phase = "serve"
  /\ file.of = "own" /\ file.left > 0 /\ file.left >= MinRemaining

(* sshd never runs without a certificate of its own key, whatever the      *)
(* signer hands back and whatever earlier containers left.                 *)
PresentsItsOwn == phase = "serve" => loaded.of = "own"

(* The probe reads the file, clients meet sshd: a worker that is ready     *)
(* presents a certificate that is valid.  The exception is the code's: a   *)
(* run that put the certificate in place and failed or was killed after it *)
(* is no renewal, and sshd is not told.                                    *)
ReadyMeansServed == Ready /\ Quiet /\ ~untold => loaded.left > 0

(* A worker whose loop lives has a certificate renewed in time, however    *)
(* long and however often the signer or the disk failed, as soon as both   *)
(* have been well for the longest backoff.                                 *)
RenewedInTime ==
  phase = "serve" /\ renewal = "asleep" /\ Quiet /\ goodFor >= LongestBackoff =>
    loaded.left >= TTL - RenewEvery

(* Once the signer and the disk stay well, a worker that is not killed is  *)
(* ready for good.                                                         *)
ReadyAgain ==
  <>[](weather = "good" /\ phase # "down" /\ renewal # "dead") => <>[]Ready
=============================================================================
