----------------------- MODULE RunnerCredentials_proofs -----------------------
(***************************************************************************)
(* What holds of RunnerCredentials for any number of runs, any lifetime    *)
(* and any width of a certificate's times: what the machines file offers   *)
(* is complete, a disabled runner keeps nothing, a certificate in use is   *)
(* within its limits, and trust is what the configuration says.            *)
(***************************************************************************)
EXTENDS RunnerCredentials, TLAPS

(* From emptying the machines file to filling it; where the credentials    *)
(* are removed; where a validated certificate is at hand.                  *)
Emptied == {"known", "config", "stage", "login", "sign", "key", "pub", "cert", "enable"}
Removing == {"remove", "removePub", "removeCert"}
Signing == {"key", "pub", "cert", "enable"}

(* What a certificate keeps to from Sign on.                               *)
Limited(c) ==
  /\ c.kind = "user" /\ c.principals = "one" /\ c.ca = "trusted" /\ c.sound
  /\ c.before > Now /\ c.before <= Now + TTL + Slack
  /\ ~c.critical /\ c.force # "other" /\ "other" \notin c.extensions

(* How far a run is, seen on the disk: this is what a kill leaves behind.  *)
Machines ==
  /\ pc \in Emptied => machines = "empty"
  /\ pc \in Removing => machines = "empty" \/ torn
Trust ==
  /\ pc \in (Emptied \ {"known"}) \cup Removing => known = Trusted /\ Trusted # {}
  /\ verdict \in {"enabled", "disabled"} => known = Trusted /\ Trusted # {}
  /\ pc \in (Emptied \ {"known", "config"}) \cup Removing => config
Credentials ==
  /\ pc # "down" => run # 0 /\ verdict = "none"
  /\ pc \in Signing => fresh.key = run
  /\ pc \in Signing \ {"key"} => key = run
  /\ pc \in {"cert", "enable"} => pub = run
  /\ pc = "enable" => cert = fresh
Removed ==
  /\ pc \in {"removePub", "removeCert"} => key = 0 \/ kept
  /\ pc = "removeCert" => pub = 0 \/ kept
Limits ==
  /\ fresh # NoCert => Limited(fresh)
  /\ cert # NoCert => Limited(cert)

IInv == /\ TypeOK /\ Machines /\ Trust /\ Credentials /\ Removed /\ Limits
        /\ EnabledIsComplete /\ DisabledStaysLocal

-----------------------------------------------------------------------------
(* A certificate that was validated is this run's and within its limits,   *)
(* the one without an end included: its end wraps below Now.               *)
LEMMA Validated ==
  ASSUME NEW c \in Certificate, NEW p \in {"ssh", "ssh-ng"}, ValidateCertificate(c, p)
  PROVE  c.key = run /\ Limited(c)
<1>1. c.before \in Int /\ c.before < 2 * Half
  BY CredentialsAssumption DEF Certificate, Times
<1>2. Signed(c.before) > Now /\ Signed(c.before) <= Now + TTL + Slack
  BY <1>1, CredentialsAssumption DEF ValidateCertificate, LivesAsAsked, Signed
<1>3. Signed(c.before) = c.before
  BY <1>1, <1>2, CredentialsAssumption DEF Signed
<1>4. c.force # "other" /\ "other" \notin c.extensions
  BY DEF ValidateCertificate
<1> QED
  BY <1>2, <1>3, <1>4 DEF ValidateCertificate, CheckCert, Limited

(* Before the first run there is nothing in the directories.               *)
LEMMA InitInv == Init => IInv
<1> SUFFICES ASSUME Init PROVE IInv
  OBVIOUS
<1>1. TypeOK
  <2>1. config \in BOOLEAN /\ torn \in BOOLEAN /\ kept \in BOOLEAN
    BY Zenon DEF Init
  <2> QED
    BY <2>1, CredentialsAssumption DEF Init, TypeOK
<1>2. Machines /\ Trust /\ Credentials /\ Removed
  BY DEF Init, Machines, Trust, Credentials, Removed, Emptied, Removing, Signing
<1>3. Limits /\ EnabledIsComplete /\ DisabledStaysLocal
  BY DEF Init, Limits, EnabledIsComplete, DisabledStaysLocal
<1> QED
  BY <1>1, <1>2, <1>3 DEF IInv

-----------------------------------------------------------------------------
(* Every step keeps the types.                                             *)
LEMMA StepType ==
  ASSUME IInv, Next
  PROVE  TypeOK'
<1> USE DEF IInv, TypeOK, Ends, Goes, At
<1>0. pc # "down" => run \in Runs
  BY CredentialsAssumption DEF Credentials, Runs
<1>1. CASE Begin
  <2>1. kept' \in BOOLEAN
    BY <1>1, Zenon DEF Begin
  <2>2. /\ run' \in 0 .. MaxRuns /\ given' \in Given /\ fresh' = NoCert
        /\ pc' = "prepare" /\ verdict' = "none"
        /\ UNCHANGED <<signer, machines, known, config, key, pub, cert, staged, torn>>
    BY <1>1, CredentialsAssumption, SMT DEF Begin, trust
  <2> QED
    BY <2>1, <2>2
<1>2. CASE Prepare
  <2>1. Trusted \subseteq {"pinned", "authority"}
    BY DEF Trusted
  <2>2. CASE ClearMachines \/ ClearMachinesFails
    BY <2>2 DEF ClearMachines, ClearMachinesFails, trust, credentials
  <2>3. CASE KnownHosts
    BY <2>1, <2>3 DEF KnownHosts, credentials
  <2>4. CASE KnownHostsFails
    BY <2>1, <2>4 DEF KnownHostsFails, credentials
  <2>5. CASE SSHConfig \/ SSHConfigFails
    BY <2>5 DEF SSHConfig, SSHConfigFails, credentials
  <2> QED
    BY <1>2, <2>2, <2>3, <2>4, <2>5 DEF Prepare
<1>3. CASE Stage \/ StageFails \/ Login \/ RequestFails
  <2>1. CASE Stage
    BY <1>0, <2>1 DEF Stage, trust, credentials
  <2>2. CASE StageFails
    BY <1>0, <2>2 DEF StageFails, Abandons, trust, credentials
  <2>3. CASE Login
    BY <1>0, <2>3 DEF Login, trust, credentials
  <2>4. CASE RequestFails
    BY <1>0, <2>4 DEF RequestFails, Abandons, trust, credentials
  <2> QED
    BY <1>3, <2>1, <2>2, <2>3, <2>4
<1>4. CASE Sign
  <2>1. fresh' \in Certificate
    BY <1>4 DEF Sign
  <2> QED
    BY <1>4, <2>1 DEF Sign, trust, credentials
<1>5. CASE PublishKey \/ PublishPub \/ PublishCert \/ PublishFails
  <2>1. CASE PublishKey
    BY <2>1 DEF PublishKey, trust, credentials
  <2>2. CASE PublishPub
    BY <2>2 DEF PublishPub, trust, credentials
  <2>3. CASE PublishCert
    BY <2>3 DEF PublishCert, trust, credentials
  <2>4. CASE PublishFails
    BY <2>4 DEF PublishFails, Abandons, trust, credentials
  <2> QED
    BY <1>5, <2>1, <2>2, <2>3, <2>4
<1>6. CASE Enable \/ EnableFails
  <2>1. CASE Enable
    BY <2>1 DEF Enable, trust, credentials
  <2>2. CASE EnableFails
    <3>1. torn' \in BOOLEAN
      BY <2>2, Zenon DEF EnableFails
    <3>2. /\ pc' = "remove" /\ machines' \in {machines, "full"} /\ staged' = staged \ {run}
          /\ UNCHANGED <<run, given, signer, fresh, known, config, key, pub, cert, kept, verdict>>
      BY <2>2, SMT DEF EnableFails, Abandons, trust, credentials
    <3> QED
      BY <3>1, <3>2
  <2> QED
    BY <1>6, <2>1, <2>2
<1>7. CASE Remove \/ RemovePub \/ RemoveCert
  <2>1. 0 \in 0 .. MaxRuns
    BY CredentialsAssumption
  <2>2. kept' \in BOOLEAN
    <3>1. CASE Remove
      BY <3>1, Zenon DEF Remove
    <3>2. CASE RemovePub
      BY <3>2, Zenon DEF RemovePub
    <3>3. CASE RemoveCert
      BY <3>3, Zenon DEF RemoveCert
    <3> QED
      BY <1>7, <3>1, <3>2, <3>3
  <2>3. /\ key' \in {0, key} /\ pub' \in {0, pub} /\ cert' \in {NoCert, cert}
        /\ pc' \in {"removePub", "removeCert", "down"} /\ verdict' \in {verdict, "disabled"}
        /\ UNCHANGED <<run, given, signer, fresh, machines, known, config, staged, torn>>
    BY <1>7, SMT DEF Remove, RemovePub, RemoveCert, trust
  <2> QED
    BY <2>1, <2>2, <2>3
<1>8. CASE Killed \/ Turns
  <2>1. CASE Killed
    BY <2>1 DEF Killed, trust, credentials
  <2>2. CASE Turns
    BY <2>2 DEF Turns, trust, credentials
  <2> QED
    BY <1>8, <2>1, <2>2
<1> QED
  BY <1>1, <1>2, <1>3, <1>4, <1>5, <1>6, <1>7, <1>8 DEF Next, Configure

(* Every step keeps what a run leaves on the disk: the machines file is    *)
(* empty while anything beside it changes.                                 *)
LEMMA StepMachines ==
  ASSUME IInv, Next
  PROVE  Machines' /\ Removed'
<1> USE DEF IInv, Machines, Removed, Emptied, Removing, Ends, Goes, At, trust, credentials
<1>1. CASE Begin \/ Killed \/ Turns
  BY <1>1 DEF Begin, Killed, Turns
<1>2. CASE Prepare
  BY <1>2 DEF Prepare, ClearMachines, ClearMachinesFails, KnownHosts, KnownHostsFails,
              SSHConfig, SSHConfigFails
<1>3. CASE Stage \/ StageFails \/ Login \/ RequestFails \/ Sign
  BY <1>3 DEF Stage, StageFails, Login, RequestFails, Abandons, Sign
<1>4. CASE PublishKey \/ PublishPub \/ PublishCert \/ PublishFails
  BY <1>4 DEF PublishKey, PublishPub, PublishCert, PublishFails, Abandons
<1>5. CASE Enable \/ Remove \/ RemovePub \/ RemoveCert
  BY <1>5 DEF Enable, Remove, RemovePub, RemoveCert
<1>6. CASE EnableFails
  <2>1. pc' = "remove" /\ (machines' = "empty" \/ torn')
    BY <1>6, Zenon DEF EnableFails, Abandons
  <2> QED
    BY <2>1
<1> QED
  BY <1>1, <1>2, <1>3, <1>4, <1>5, <1>6 DEF Next, Configure

(* Every step keeps what known_hosts trusts.                               *)
LEMMA StepTrust ==
  ASSUME IInv, Next
  PROVE  Trust'
<1> USE DEF IInv, Trust, Emptied, Removing, Ends, Goes, At, trust, credentials
<1>1. CASE Begin \/ Killed \/ Turns
  BY <1>1 DEF Begin, Killed, Turns, Trusted
<1>2. CASE Prepare
  BY <1>2 DEF Prepare, ClearMachines, ClearMachinesFails, KnownHosts, KnownHostsFails,
              SSHConfig, SSHConfigFails, Trusted
<1>3. CASE Configure
  <2>1. known' = known /\ given' = given /\ config' = config
    BY <1>3 DEF Configure, Stage, StageFails, Login, RequestFails, Abandons, Sign, PublishKey,
                PublishPub, PublishCert, PublishFails, Enable, EnableFails, Remove, RemovePub, RemoveCert
  <2>2. Trusted' = Trusted
    BY <2>1 DEF Trusted
  <2>3. /\ pc \in (Emptied \ {"known", "config"}) \cup Removing
        /\ pc' \in (Emptied \ {"known", "config"}) \cup Removing \cup {"down"}
    BY <1>3 DEF Configure, Stage, StageFails, Login, RequestFails, Abandons, Sign, PublishKey,
                PublishPub, PublishCert, PublishFails, Enable, EnableFails, Remove, RemovePub, RemoveCert
  <2> QED
    BY <2>1, <2>2, <2>3
<1> QED
  BY <1>1, <1>2, <1>3 DEF Next

(* Every step keeps the run's credentials and the certificates' limits.    *)
LEMMA StepCredentials ==
  ASSUME IInv, Next
  PROVE  Credentials' /\ Limits'
<1> USE DEF IInv, Credentials, Limits, Limited, Signing, Ends, Goes, At, trust, credentials
<1>1. CASE Begin
  BY <1>1, CredentialsAssumption DEF Begin, TypeOK
<1>2. CASE Killed \/ Turns
  BY <1>2 DEF Killed, Turns
<1>3. CASE Prepare
  BY <1>3 DEF Prepare, ClearMachines, ClearMachinesFails, KnownHosts, KnownHostsFails,
              SSHConfig, SSHConfigFails
<1>4. CASE Stage \/ StageFails \/ Login \/ RequestFails
  BY <1>4 DEF Stage, StageFails, Login, RequestFails, Abandons
<1>5. CASE Sign
  <2>1. given.protocol \in {"ssh", "ssh-ng"}
    BY DEF TypeOK, Given
  <2>2. PICK c \in Certificate : ValidateCertificate(c, given.protocol) /\ fresh' = c
    BY <1>5 DEF Sign
  <2>3. c.key = run /\ Limited(c)
    BY <2>1, <2>2, Validated
  <2> QED
    BY <1>5, <2>2, <2>3 DEF Sign
<1>6. CASE PublishKey \/ PublishPub \/ PublishCert \/ PublishFails
  BY <1>6 DEF PublishKey, PublishPub, PublishCert, PublishFails, Abandons
<1>7. CASE Enable \/ EnableFails
  BY <1>7 DEF Enable, EnableFails, Abandons
<1>8. CASE Remove \/ RemovePub \/ RemoveCert
  BY <1>8 DEF Remove, RemovePub, RemoveCert
<1> QED
  BY <1>1, <1>2, <1>3, <1>4, <1>5, <1>6, <1>7, <1>8 DEF Next, Configure

(* Every step keeps what is offered complete and what is disabled local.   *)
LEMMA StepOffers ==
  ASSUME IInv, Next
  PROVE  EnabledIsComplete' /\ DisabledStaysLocal'
<1> USE DEF IInv, EnabledIsComplete, DisabledStaysLocal, Ends, Goes, At, trust, credentials
<1>1. CASE Begin \/ Killed \/ Turns
  BY <1>1 DEF Begin, Killed, Turns
<1>2. CASE ClearMachines
  BY <1>2 DEF ClearMachines, Credentials
<1>3. CASE ClearMachinesFails
  <2>1. /\ verdict' = "error" /\ UNCHANGED <<key, pub, cert, config, known>>
        /\ machines' = "full" /\ ~torn' => machines = "full" /\ ~torn
    BY <1>3 DEF ClearMachinesFails
  <2> QED
    BY <2>1
<1>4. CASE KnownHosts \/ KnownHostsFails \/ SSHConfig \/ SSHConfigFails
  BY <1>4 DEF KnownHosts, KnownHostsFails, SSHConfig, SSHConfigFails, Machines, Credentials, Emptied
<1>5. CASE Stage \/ StageFails \/ Login \/ RequestFails \/ Sign
  BY <1>5 DEF Stage, StageFails, Login, RequestFails, Abandons, Sign
<1>6. CASE PublishKey \/ PublishPub \/ PublishCert \/ PublishFails
  BY <1>6 DEF PublishKey, PublishPub, PublishCert, PublishFails, Abandons, Machines,
              Credentials, Emptied
<1>7. CASE Enable
  BY <1>7 DEF Enable, Credentials, Signing, Trust, Emptied, Removing
<1>8. CASE EnableFails
  <2>1. machines = "empty" /\ verdict = "none"
    BY <1>8 DEF EnableFails, Machines, Credentials, Emptied
  <2>2. (machines' = "full" => torn') /\ verdict' = verdict
    BY <1>8 DEF EnableFails, Abandons
  <2> QED
    BY <2>1, <2>2
<1>9. CASE Remove \/ RemovePub \/ RemoveCert
  BY <1>9 DEF Remove, RemovePub, RemoveCert, Machines, Credentials, Removed, Removing
<1> QED
  BY <1>1, <1>2, <1>3, <1>4, <1>5, <1>6, <1>7, <1>8, <1>9 DEF Next, Prepare, Configure

(* The invariant holds in every state of every behaviour.                  *)
THEOREM Invariance == Spec => []IInv
<1>1. IInv /\ [Next]_vars => IInv'
  <2>1. ASSUME IInv, Next PROVE IInv'
    BY <2>1, StepType, StepMachines, StepTrust, StepCredentials, StepOffers DEF IInv
  <2>2. ASSUME IInv, UNCHANGED vars PROVE IInv'
    <3>1. TypeOK' /\ EnabledIsComplete' /\ DisabledStaysLocal'
      BY <2>2 DEF IInv, TypeOK, EnabledIsComplete, DisabledStaysLocal, vars, trust, credentials
    <3>2. Machines' /\ Removed' /\ Credentials'
      BY <2>2 DEF IInv, Machines, Removed, Credentials, vars, trust, credentials
    <3>3. Trust' /\ Limits'
      BY <2>2 DEF IInv, Trust, Trusted, Limits, Limited, vars, trust, credentials
    <3> QED
      BY <3>1, <3>2, <3>3 DEF IInv
  <2> QED
    BY <2>1, <2>2
<1> QED
  BY <1>1, InitInv, PTL DEF Spec

-----------------------------------------------------------------------------
(* Every variable keeps its type.                                          *)
THEOREM TypeCorrect == Spec => []TypeOK
<1>1. IInv => TypeOK
  BY DEF IInv
<1> QED
  BY <1>1, Invariance, PTL

(* Wherever a run is killed and whichever call of it fails, a machines     *)
(* file that offers the workers stands beside the key, public half and     *)
(* certificate of one run.                                                 *)
THEOREM CompleteTheorem == Spec => []EnabledIsComplete
<1>1. IInv => EnabledIsComplete
  BY DEF IInv
<1> QED
  BY <1>1, Invariance, PTL

(* A run that reports the workers disabled has left no credential.         *)
THEOREM DisabledTheorem == Spec => []DisabledStaysLocal
<1>1. IInv => DisabledStaysLocal
  BY DEF IInv
<1> QED
  BY <1>1, Invariance, PTL

(* Whatever the signer returns, a certificate in use ends within the       *)
(* lifetime asked for: one without an end, whose end is the largest        *)
(* unsigned integer, is refused for any width.                             *)
THEOREM LimitsTheorem == Spec => []WithinItsLimits
<1>1. IInv => WithinItsLimits
  BY DEF IInv, Limits, Limited, WithinItsLimits
<1> QED
  BY <1>1, Invariance, PTL

(* A run after which the runner may start has published the trust its      *)
(* configuration names, no more and no less.                               *)
THEOREM TrustTheorem == Spec => []TrustIsAsConfigured
<1>1. IInv => TrustIsAsConfigured
  BY DEF IInv, Trust, Trusted, TrustIsAsConfigured
<1> QED
  BY <1>1, Invariance, PTL
=============================================================================
