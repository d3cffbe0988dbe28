-------------------------- MODULE RunnerCredentials --------------------------
(***************************************************************************)
(* nix-worker-client: it prepares ~/.ssh and the machines file of a runner *)
(* pod and has an ephemeral SSH key signed, so that Nix may build on the   *)
(* shared workers.  The init container runs it when the pod starts and the *)
(* job hook before a job; the directories outlive a run.                   *)
(*                                                                         *)
(* Nix offers a build to a remote builder as soon as the machines file     *)
(* names one: writing that file is the commit, and emptying it comes first *)
(* in every run.  A run may be killed between any two of its steps, and    *)
(* every call of it may fail.                                              *)
(***************************************************************************)
EXTENDS Integers

CONSTANTS
  MaxRuns,     \* bound: the runs of one pod
  Now,         \* the time at which a certificate is validated
  TTL, Slack,  \* the lifetime asked for, and the five minutes beyond it
  Half         \* half of the range of a certificate's times: 2^63

ASSUME CredentialsAssumption ==
  /\ MaxRuns \in Nat /\ Half \in Nat \ {0}
  /\ Now \in Nat /\ TTL \in Nat /\ Slack \in Nat

Runs == 1 .. MaxRuns

(* What a run is given: its configuration, which sources are mounted, and  *)
(* whether the ones both layouts need are usable.                          *)
Given == [protocol: {"ssh", "ssh-ng"}, pinned: BOOLEAN,
          secret: BOOLEAN, authorities: BOOLEAN, usable: BOOLEAN]

(* A user certificate as the signer may return it: "key" is the run whose  *)
(* key it certifies, 0 for any other key; "sound" is its signature and the *)
(* time it begins at; "before" is its end, an unsigned integer.            *)
Times == 0 .. 2 * Half - 1
Certificate ==
  [kind: {"user", "host"}, key: 0 .. MaxRuns, principals: {"one", "others"},
   force: {"none", "daemon", "other"}, critical: BOOLEAN,
   extensions: SUBSET {"permit-pty", "other"},
   ca: {"trusted", "unknown"}, sound: BOOLEAN, before: Times]

NoCert == [kind |-> "none", key |-> 0]

VARIABLES
  pc, run,   \* where the program is, and which run it is in
  given,     \* what this run was given
  signer,    \* OpenBao: it grants, refuses, or does not answer
  fresh,     \* the certificate of this run
  machines,  \* the machines file: "none", "empty", or "full" of workers
  known,     \* what known_hosts trusts
  config,    \* the SSH configuration is there
  key, pub,  \* the runs that published nix-builder and nix-builder.pub
  cert,      \* nix-builder-cert.pub
  staged,    \* the runs that have a staging directory, with their key
  verdict,   \* how the last run ended
  torn,      \* history: machines is full though the write of it failed
  kept       \* history: this run could not remove all it was to remove

credentials == <<key, pub, cert, kept>>
trust == <<known, config>>
vars == <<pc, run, given, signer, fresh, machines, trust, credentials, staged,
          verdict, torn>>

TypeOK ==
  /\ pc \in {"down", "prepare", "known", "config", "stage", "login", "sign",
             "key", "pub", "cert", "enable", "remove", "removePub", "removeCert"}
  /\ run \in 0 .. MaxRuns /\ given \in Given
  /\ signer \in {"grants", "refuses", "silent"}
  /\ fresh \in Certificate \cup {NoCert}
  /\ machines \in {"none", "empty", "full"}
  /\ known \subseteq {"pinned", "authority"} /\ config \in BOOLEAN
  /\ key \in 0 .. MaxRuns /\ pub \in 0 .. MaxRuns
  /\ cert \in Certificate \cup {NoCert}
  /\ staged \subseteq Runs
  /\ verdict \in {"none", "enabled", "disabled", "error", "killed"}
  /\ torn \in BOOLEAN /\ kept \in BOOLEAN

Init ==
  /\ pc = "down" /\ run = 0
  /\ given \in Given /\ signer \in {"grants", "refuses", "silent"}
  /\ fresh = NoCert /\ machines = "none" /\ known = {} /\ config = FALSE
  /\ key = 0 /\ pub = 0 /\ cert = NoCert /\ staged = {}
  /\ verdict = "none" /\ torn = FALSE /\ kept = FALSE

At(p) == pc = p
Ends(v) == pc' = "down" /\ verdict' = v
Goes(p) == pc' = p /\ UNCHANGED verdict

-----------------------------------------------------------------------------
(* validateCertificate                                                     *)

(* int64(cert.ValidBefore)                                                 *)
Signed(t) == IF t >= Half THEN t - 2 * Half ELSE t

(* The SSH library: a certificate without an end passes.                   *)
CheckCert(c) ==
  /\ c.sound
  /\ c.before # 2 * Half - 1 => Signed(c.before) > Now

(* Mutant: what is left is compared with the lifetime only.                *)
LivesBriefly(c) == Signed(c.before) - Now <= TTL + Slack

LivesAsAsked(c) == Signed(c.before) - Now \in 1 .. TTL + Slack

ValidateCertificate(c, protocol) ==
  /\ c.kind = "user" /\ c.key = run /\ c.principals = "one"
  /\ c.force \in {"none"} \cup (IF protocol = "ssh-ng" THEN {"daemon"} ELSE {})
  /\ ~c.critical
  /\ c.extensions \subseteq {"permit-pty"}
  /\ c.ca = "trusted"
  /\ CheckCert(c)
  /\ LivesAsAsked(c)

-----------------------------------------------------------------------------
(* prepareOutputs: its failure is the run's.                               *)

Begin ==
  /\ At("down") /\ run < MaxRuns
  /\ run' = run + 1 /\ given' \in Given /\ fresh' = NoCert
  /\ pc' = "prepare" /\ verdict' = "none" /\ kept' = FALSE
  /\ UNCHANGED <<signer, machines, trust, key, pub, cert, staged, torn>>

(* Mutant: a machines file that is there is not emptied.                   *)
ClearMachinesIfNone ==
  /\ At("prepare")
  /\ machines' = IF machines = "none" THEN "empty" ELSE machines
  /\ Goes("known")
  /\ UNCHANGED <<run, given, signer, fresh, trust, credentials, staged, torn>>

(* secureDir twice, then the fail-open state: an empty machines file.      *)
ClearMachines ==
  /\ At("prepare")
  /\ machines' = "empty" /\ torn' = FALSE
  /\ Goes("known")
  /\ UNCHANGED <<run, given, signer, fresh, trust, credentials, staged>>

(* loadConfig and secureDir fail before anything was written; atomicWrite  *)
(* fails before its rename, or after it when the directory is not synced.  *)
ClearMachinesFails ==
  /\ At("prepare")
  /\ machines' \in {machines, "empty"}
  /\ torn' = (torn /\ machines' = "full")
  /\ Ends("error")
  /\ UNCHANGED <<run, given, signer, fresh, trust, credentials, staged>>

(* Mutant: the secret stands in for authorities that are missing.          *)
TrustedWhateverThereIs ==
  (IF given.secret THEN {"pinned"} ELSE {})
    \cup (IF given.authorities THEN {"authority"} ELSE {})

(* What known_hosts is to trust; nothing at all is an error.               *)
Trusted ==
  LET authority == IF given.authorities THEN {"authority"} ELSE {} IN
  IF ~given.pinned THEN authority
  ELSE IF given.secret THEN {"pinned"} \cup authority ELSE {}

KnownHosts ==
  /\ At("known") /\ Trusted # {}
  /\ known' = Trusted
  /\ Goes("config")
  /\ UNCHANGED <<run, given, signer, fresh, machines, config, credentials, staged, torn>>

KnownHostsFails ==
  /\ At("known")
  /\ known' \in {known} \cup (IF Trusted = {} THEN {} ELSE {Trusted})
  /\ Ends("error")
  /\ UNCHANGED <<run, given, signer, fresh, machines, config, credentials, staged, torn>>

(* The SSH configuration is published; the machines template and the two   *)
(* CAs are looked at.                                                      *)
SSHConfig ==
  /\ At("config") /\ given.usable
  /\ config' = TRUE
  /\ Goes("stage")
  /\ UNCHANGED <<run, given, signer, fresh, machines, known, credentials, staged, torn>>

SSHConfigFails ==
  /\ At("config")
  /\ config' \in {config, TRUE}
  /\ Ends("error")
  /\ UNCHANGED <<run, given, signer, fresh, machines, known, credentials, staged, torn>>

-----------------------------------------------------------------------------
(* configureRemote: its failure leaves the runner to build locally.        *)

(* The deferred RemoveAll, and removeCredentials is next.                  *)
Abandons == staged' = staged \ {run} /\ Goes("remove")

(* The token and the CAs are read, a staging directory is made, and the    *)
(* key in it.                                                              *)
Stage ==
  /\ At("stage")
  /\ staged' = staged \cup {run}
  /\ Goes("login")
  /\ UNCHANGED <<run, given, signer, fresh, machines, trust, credentials, torn>>

StageFails ==
  /\ At("stage") /\ Abandons
  /\ UNCHANGED <<run, given, signer, fresh, machines, trust, credentials, torn>>

Login ==
  /\ At("login") /\ signer = "grants"
  /\ Goes("sign")
  /\ UNCHANGED <<run, given, signer, fresh, machines, trust, credentials, staged, torn>>

(* Mutant: the request has no timeout.                                     *)
RequestFailsIfAnswered ==
  /\ pc \in {"login", "sign"} /\ signer # "silent"
  /\ Abandons
  /\ UNCHANGED <<run, given, signer, fresh, machines, trust, credentials, torn>>

(* postJSON: refused, unreadable, or unanswered when the context ends; or  *)
(* a certificate that is not the one asked for.                            *)
RequestFails ==
  /\ pc \in {"login", "sign"}
  /\ Abandons
  /\ UNCHANGED <<run, given, signer, fresh, machines, trust, credentials, torn>>

Sign ==
  /\ At("sign") /\ signer = "grants"
  /\ \E c \in Certificate : ValidateCertificate(c, given.protocol) /\ fresh' = c
  /\ Goes("key")
  /\ UNCHANGED <<run, given, signer, machines, trust, credentials, staged, torn>>

PublishKey ==
  /\ At("key")
  /\ key' = run
  /\ Goes("pub")
  /\ UNCHANGED <<run, given, signer, fresh, machines, trust, pub, cert, kept, staged, torn>>

PublishPub ==
  /\ At("pub")
  /\ pub' = run
  /\ Goes("cert")
  /\ UNCHANGED <<run, given, signer, fresh, machines, trust, key, cert, kept, staged, torn>>

PublishCert ==
  /\ At("cert")
  /\ cert' = fresh
  /\ Goes("enable")
  /\ UNCHANGED <<run, given, signer, fresh, machines, trust, key, pub, kept, staged, torn>>

(* One of the three is not published, or is and its directory not synced.  *)
PublishFails ==
  /\ pc \in {"key", "pub", "cert"}
  /\ key' \in IF At("key") THEN {key, run} ELSE {key}
  /\ pub' \in IF At("pub") THEN {pub, run} ELSE {pub}
  /\ cert' \in IF At("cert") THEN {cert, fresh} ELSE {cert}
  /\ Abandons
  /\ UNCHANGED <<run, given, signer, fresh, machines, trust, kept, torn>>

Enable ==
  /\ At("enable")
  /\ machines' = "full"
  /\ staged' = staged \ {run} /\ Ends("enabled")
  /\ UNCHANGED <<run, given, signer, fresh, trust, credentials, torn>>

EnableFails ==
  /\ At("enable")
  /\ machines' \in {machines, "full"} /\ torn' = (machines' = "full")
  /\ Abandons
  /\ UNCHANGED <<run, given, signer, fresh, trust, credentials>>

(* removeCredentials, one file after the other; an error is ignored.       *)
Remove ==
  /\ At("remove")
  /\ key' \in {0, key} /\ kept' = (key' # 0)
  /\ Goes("removePub")
  /\ UNCHANGED <<run, given, signer, fresh, machines, trust, pub, cert, staged, torn>>

RemovePub ==
  /\ At("removePub")
  /\ pub' \in {0, pub} /\ kept' = (kept \/ pub' # 0)
  /\ Goes("removeCert")
  /\ UNCHANGED <<run, given, signer, fresh, machines, trust, key, cert, staged, torn>>

(* Mutant: the certificate is left.                                        *)
KeepCert ==
  /\ At("removeCert")
  /\ Ends("disabled")
  /\ UNCHANGED <<run, given, signer, fresh, machines, trust, credentials, staged, torn>>

RemoveCert ==
  /\ At("removeCert")
  /\ cert' \in {NoCert, cert} /\ kept' = (kept \/ cert' # NoCert)
  /\ Ends("disabled")
  /\ UNCHANGED <<run, given, signer, fresh, machines, trust, key, pub, staged, torn>>

-----------------------------------------------------------------------------
(* The surroundings.                                                       *)

(* The container is killed, or the hook at its time limit.                 *)
Killed ==
  /\ ~At("down") /\ Ends("killed")
  /\ UNCHANGED <<run, given, signer, fresh, machines, trust, credentials, staged, torn>>

Turns ==
  /\ signer' \in {"grants", "refuses", "silent"} \ {signer}
  /\ UNCHANGED <<pc, run, given, fresh, machines, trust, credentials, staged, verdict, torn>>

Prepare ==
  \/ ClearMachines \/ ClearMachinesFails \/ KnownHosts \/ KnownHostsFails
  \/ SSHConfig \/ SSHConfigFails

Configure ==
  \/ Stage \/ StageFails \/ Login \/ Sign \/ RequestFails
  \/ PublishKey \/ PublishPub \/ PublishCert \/ PublishFails
  \/ Enable \/ EnableFails \/ Remove \/ RemovePub \/ RemoveCert

Next == Begin \/ Prepare \/ Configure \/ Killed \/ Turns

Spec == Init /\ [][Next]_vars

(* The program runs: files are local, and the HTTP client and its context  *)
(* both end after the request timeout.                                     *)
FairSpec == Spec /\ WF_vars(Prepare \/ Configure)

-----------------------------------------------------------------------------
(* Whenever the machines file offers the workers, the key, its public half *)
(* and the certificate beside it are of one run, and there are hosts to    *)
(* trust: also while a run replaces what an earlier one left, and after    *)
(* any of them was killed.  The exception is the code's: when the write of *)
(* the machines file fails after its rename, the credentials are removed   *)
(* and the file stays.                                                     *)
EnabledIsComplete ==
  machines = "full" /\ ~torn =>
    key # 0 /\ pub = key /\ cert.key = key /\ config /\ known # {}

(* A certificate that is in use is what docs/architecture.md:617-622 says: *)
(* of the one principal, the expected CA and the lifetime asked for, with  *)
(* no critical option but the worker's own forced command and no extension *)
(* but permit-pty; one that never ends is no exception.                    *)
WithinItsLimits ==
  cert # NoCert =>
    /\ cert.kind = "user" /\ cert.principals = "one" /\ cert.ca = "trusted" /\ cert.sound
    /\ cert.before > Now /\ cert.before <= Now + TTL + Slack
    /\ ~cert.critical /\ cert.force # "other" /\ "other" \notin cert.extensions

(* A run that says "remote builders disabled; local builds remain          *)
(* available" leaves no credential, unless it could not be removed, and no *)
(* machine to connect to, whatever the runs before it published; with the  *)
(* same exception.                                                         *)
DisabledStaysLocal ==
  verdict = "disabled" =>
    /\ (key = 0 /\ pub = 0 /\ cert = NoCert) \/ kept
    /\ (machines = "empty" \/ torn)

(* Trust is never weakened silently: a run that lets the runner start has  *)
(* published the hosts its configuration pins, or the authorities it names.*)
TrustIsAsConfigured ==
  verdict \in {"enabled", "disabled"} =>
    /\ known # {}
    /\ "pinned" \in known <=> given.pinned
    /\ "authority" \in known <=> given.authorities

(* Whatever OpenBao does, the run ends and the runner can start.           *)
SetupEnds == ~At("down") ~> At("down")
=============================================================================
