# ci-plane, modelled in TLA+

This directory holds TLA+ modules that model the programs of ci-plane, the TLC
configurations that check them on small instances, and proofs, checked by
TLAPS, of what holds for every instance. Paths below are relative to the
repository, `cache.go` and other bare names to `image/cache-redirect/` unless
the section is about another program.

    tlc -workers 2 -config PullThrough_safe.cfg MCPullThrough
    tlapm PullThrough_proofs.tla

`PROJECT.json` is the index: components, runs, the source lines behind every
definition, mutants (a plausible bug for each property, which the run then
finds), disagreements found between code and text, hazards, theorems.

## 1. The system

ci-plane is what a Kubernetes cluster needs to run CI builds. Its own logic is
in five programs; the rest is a Helm chart, images and scripts.

| component | state it keeps | operations | talks to |
|---|---|---|---|
| **cache-redirect, immutable objects** (`cache.go`) | flights by key, the fetch semaphore, memory of small objects, memory of 404s | `ServeImmutable`, `pullThrough`, `follow`, `leadSmall`, `leadLarge`, `proxyHead` | clients, upstream registries, the bucket |
| cache-redirect, mutable objects (`cache.go:487`) | none | `ServeMutable`: relay, never stored | upstream |
| **LRU caches** (`lru.go`) | entries, their sizes, their ages | `Get`, `Put` | called under the cache's lock |
| **NAR index** (`nix.go`, `nix32.go`) | memory of records, records in the bucket | `recordNarinfo`, `lookup` | bucket |
| **store and S3 store** (`store.go`, `s3store.go`) | the bucket; a pool of part buffers | `Head`, `Get`, `Put`, `Presign` | S3 |
| **Gradle front-end** (`gradle.go`) | none but the bucket | `get`, `put` | clients, bucket |
| **npm packuments** (`npm.go`) | packuments with an age, a window after a failure | `packument`, `refresh`, `save`, `load` | upstream, bucket |
| Maven, Go, hosts (`maven.go`, `goproxy.go`, `hosts.go`) | none | map a path or a host to an object | `ServeImmutable` |
| server (`main.go`) | the listener | start, graceful shutdown | all of the above |
| **runner-watchdog** (`image/runner-watchdog`) | the matcher, a queue of lines | `Observe`, `Evaluate`, `report`, `/healthz`, `/metrics`, `drill` | the runner's output; the kubelet's probes |
| **watchdog supervisor** (`supervise.go`) | the child | forward signals, reap, drain | the runner |
| **nix-worker-client** (`image/nix-worker-client`) | `~/.ssh`, the machines file, the credentials on disk | `prepareOutputs`, `configureRemote`, `removeCredentials` | OpenBao, the certificate signer; Nix, which reads the machines file |
| **nix-worker host certificate** (`image/nix-worker-host-cert`, `nix-worker-entrypoint.sh`, `nix-worker-healthcheck.sh`) | the certificate on disk, sshd | sign, renew, SIGHUP, readiness | the signer, sshd |

How they interact: clients of cache-redirect are package managers inside CI
jobs. A hit is answered with a redirect to a signed URL of the bucket; a miss
is fetched once from upstream, relayed to the first client and uploaded at the
same time. One to three replicas share the bucket and nothing else. A narinfo
records the hash of its NAR in the index; the NAR is verified against it when
it is fetched. The watchdog wraps the runner of one pod, and its `/healthz` is
that pod's readiness.

What is hard, by component:

- *Pull-through.* Requests of a key meet in `c.flights` while one of them
  leads; the leader queues for a fetch slot, relays to its own client, uploads,
  and answers the others by closing a channel. Its client may leave or stop
  reading; upstream may refuse, cut the body short, or send another one; the
  store may fail, or fail after it has stored; a replica may be stopped.
- *S3 Put.* A reader, a pool of buffers, a semaphore, a wait group and up to
  `concurrency` goroutines, any of whose calls may fail.
- *Gradle.* Look, then write, from several jobs and replicas.
- *npm packuments.* Refreshes outlive whoever started them; documents are saved
  by goroutines of their own.
- *Watchdog.* Lines are seen late or dropped; two goroutines evaluate. Its
  supervisor meets signals, the child's end, orphans and open pipes in any order.
- *Credentials and certificates.* Files replaced while others read them; a step
  that fails after others took effect; renewal that fails for hours.

What makes each correct is listed under the modules below; everything the code
is exposed to, at its line, is in `PROJECT.json` under "hazards", each with the
properties that would catch it going wrong.

## 2. The modules

| module | of | role |
|---|---|---|
| `ImmutableCache` | `cache.go`, `store.go` | abstract: what a replica promises clients and the bucket |
| `PullThrough` | `cache.go`, parts of `lru.go`, `nix.go`, `main.go` | detailed: a replica's pull-through; implements `ImmutableCache` |
| `ObjectStore` | `store.go` | abstract: what one `Store.Put` promises |
| `S3Multipart` | `s3store.go` | detailed: `s3Store.Put`; implements `ObjectStore` |
| `NarIndex` | `nix.go`, `lru.go` | the index of NARs and the memory over it, at several replicas |
| `GradleCache` | `gradle.go` | GET, HEAD and PUT of one key by many jobs |
| `NpmPackument` | `npm.go`, parts of `lru.go`, `cache.go` | one packument in one replica: memory, refresh, saved copy |
| `Watchdog` | `matcher.go`, `tee.go`, `http.go`, `drill.go`, `main.go` of the watchdog | from a printed line to the verdict, the probe and the log |
| `Supervisor` | `supervise.go`, `tee.go` of the watchdog | the runner's PID 1 and the processes under it |
| `RunnerCredentials` | `nix-worker-client/main.go` | what the runs of a pod leave on its disk |
| `HostCert` | `nix-worker-host-cert`, `nix-worker-entrypoint.sh`, `nix-worker-healthcheck.sh` | the host certificate of one worker pod |
| `PullThrough_proofs`, `S3Multipart_proofs`, `NarIndex_proofs`, `GradleCache_proofs`, `NpmPackument_proofs`, `RunnerWatchdog_proofs`, `RunnerCredentials_proofs`, `HostCert_proofs` | | inductive invariants and theorems, one module for each (the two of the runner's wrapper together) |
| `MCPullThrough`, `MCNarIndex`, `MCGradleCache`, `MCNpmPackument` | | constants for TLC |

`PullThrough` and `GradleCache` use of the store what `ObjectStore` promises
and no more: their `Commit`, `Stores`, and the failing puts that may have
committed. `S3Multipart` shows that the code keeps the promise. `PullThrough`
uses of the index that a stored narinfo leaves a record; `NarIndex` shows when
every replica finds it, and whose word the record is: `PullThrough` takes it for
the narinfo's. `NpmPackument` shares the fetch slots of `PullThrough`, and assumes
of them nothing: one may never come free again. `Supervisor` and `Watchdog` share the tee: one counts what passes
it, the other reads it.

### ImmutableCache and PullThrough

`ImmutableCache` knows three things: what the bucket ever made visible, what
each request was told, and what it asked for. A request is told one thing, once
(`Reply`), and it must be justified then: a clean end carries a whole body, a
broken response carries none and is of a large object, a redirect points to
what the bucket has had. `Store` adds a whole, verified object, `Relay` gives the bucket and a client the
same body in one step, `Crash` loses answers not yet given, and nothing takes
anything back. `KeepsPromise` says that `PullThrough` implements it, with the
answers and keys read from `req`. The invariants say what each state is like;
this says that no step, after a failed Put, a broken body or in a restart, says
something twice or something else.

In `PullThrough`: one replica, a set `Reqs` of requests, a set of keys: `Small` (kept in memory
as well: narinfos and the like) and `Large` (redirected to), `Nars` among the
large ones, and `NarOf`, the NAR a narinfo announces. The other replicas are
the environment: they share the bucket.

Variables: `store`, `index` the bucket's objects and NAR records (`committed`
remembers what was ever committed); `mem`, `neg` the two memories; `flights`
`c.flights`; `flight` what a flight holds (its `done` channel and its result),
named by the request that leads it; `slots` how full `c.fetchSem` is;
`req` for each request its place in the code (`pc`), its key, whether it is a
HEAD, the flight it waits on, the digest it wants, what it has read, its client
and its answer; `events` how many events of the surroundings have happened.

Bodies are told apart as far as digests and lengths tell: `"true"` is what the
key names, `"other"` a whole body that is something else, `"cut"` one that is
truncated, stalls or is longer than announced, `"huge"` one over the limit of
small objects.

Each action is one stretch of a handler between two points where another
goroutine or machine can step in: a call to the store or upstream, the lock, a
channel, a write to the client. `Arrive` and `LookupMem` are the start of
`ServeImmutable`; `HeadStore`, `GetStore`, `Presign` its store calls; `Join`
and `Lead` the critical section of `pullThrough`; `AcquireSlot` and
`StopQueueing` its `select`; `StopWaiting`, `Follow` the follower's; `Expect`,
`FetchFails`, `FetchNotFound`, `FetchOK` the index lookup and the request
upstream; `ReadSmall` to `PutSmallFails` are `leadSmall`; `PassThrough` to
`BodyBreaks` the ways `leadLarge` ends; `ReleaseSlot` and `Land` the deferred
calls. The surroundings: a client leaves, stalls or resumes; a peer commits an
object or a record; the bucket or memory expires one; the replica restarts.

What is merged or left out: deleting a flight and closing its channel are one
step (both happen in one deferred call, and a request that comes between them
leads a new flight either way); the cancellation of the cache's background
context adds nothing, as fetches and puts may fail at any time; the order of
the upstreams and the retries of one fetch are inside the fetch's outcome.

Safety: `OnlyVerifiedStored`, `SingleFlight`, `SlotsAccounted`,
`EveryWaitHasAnEnd`, `FollowersShareTheBody`,
`OnlyStoredIsPromised`, and the refinement `KeepsPromise`, of which
`CleanEndIsWhole` is a consequence. Liveness: `EveryRequestAnswered`; with one slot it says as
well that slots come back, since a request that queues for one is answered only
if it gets it.

Fairness (`FairSpec`): each request's handler keeps taking steps, `WF` of all
its actions together. The code justifies it: goroutines are scheduled; a
request upstream has a response-header timeout and an idle timeout on its body
(`main.go:420-431`, `cache.go:608-648`); S3 calls return; `Reqs` is finite, so
weak fairness is enough for the queue of a semaphore. A client that stops
reading is *not* assumed to resume: `leadSmall` writes to it without a
deadline, so the property makes that exception, and the run
`pullthrough_stalled_client` shows that it is needed. `Finished` lets a
behaviour stop only where every request is done or held up by such a client, so
that TLC's deadlock check means something.

### ObjectStore and S3Multipart

`ObjectStore` is three actions over the reader's end, what a GET of the key
finds, and Put's answer: the object becomes visible only after the reader ended
in `io.EOF`, and then all of it; "ok" means it did; an error promises nothing.

`S3Multipart` is `Put` and `multipart` line by line: the first `readFull`, the
single `PutObject`, the loop with its sends, the wait, and completion or abort,
while each part's goroutine uploads, records its part, puts its buffer back and
leaves the semaphore in the order of its deferred calls. Every call may fail,
with or without effect; this stands for the cancelled contexts as well.
`KeepsContract` is the refinement (`ended`, `visible`, `answer` map to
themselves). `WithinLimits` (the buffers in use, all given back in the end, and
the limit of parts, met exactly or exceeded) and `NothingLeftBehind` (no part in
flight when the upload is completed or aborted, no upload left but where S3 failed
the abort itself) are about the goroutines, `PutReturns` about
termination under weak fairness of Put and of each part. Put returns, so the run does not check
for deadlock; `PutReturns` says what a deadlock check would.

### GradleCache

One key (keys do not interact), a set of PUTs each with a body of its own, a
set of GETs. A PUT looks and stores in two steps. `LatePutChangesNothing` and
`FoundAfterwards` are what survives of "the first write wins".

### NarIndex

Two URLs, a few records, several replicas with a memory each, one bucket. A
request is either `record` (after a narinfo was served) or `lookup` (before a
NAR is fetched), in steps between which others run: comparing with memory, the
write, remembering. The memory is the `lru` itself: a sequence of entries in
order of use, the sum it keeps, replacement, the refusal of what is too large
and eviction from the back. The bucket may lose an object, or come to hold
anything: something unreadable, the record of another URL, or a record of the
URL that these replicas never announced (the history `foreign`); a replica may
restart and forget its memory and its requests; any call to the store may fail.

`AnswersAreTheURLsOwn` says what `lookup` can promise. It compares the record's
URL and nothing else (`nix.go:129`), so a record of the right URL that somebody
else wrote is used, whatever its hash: whoever can write to the bucket is
trusted with it. What is unreadable, and what belongs to another URL, is neither
answered nor remembered.

`EveryReplicaFinds` is the purpose of the index, from the comment of `narIndex`.
Its exception is in the code: `record` remembers what it could not write, and
what memory holds is not written again, so after a failed write only this
replica finds the record until its entry is evicted. The history `excused`
holds the URLs of which that is true.

### Watchdog

The definitions a specification usually has are `VerdictInit`, `VerdictNext`,
`VerdictSpec`, `verdictVars` here, so that `RunnerWatchdog_proofs` can extend both
modules of the program. The runner prints starts, ends and signatures; `Offer` queues or drops them;
the matcher takes one at a time with the clock it reads then; `report` uses the
time of its tick, which may be old, and a probe the time it read before it got
the lock. `Prints` is the print and the copier's offer in one step: between the two a
line is in the pipe, which to the matcher is no different from the queue, so
"queued" means still on its way. Two history variables: `fresh`, a signature was
printed by an idle runner since its last job started; `missed`, the line of that
start found the queue full. The safety properties excuse a start that is on its
way or `missed`, for then the matcher cannot know of the job, and no other drop.
Fairness: the matcher's goroutine and
`report` run and time passes; nothing is assumed of the runner or the probes.

### Supervisor

One child, its descendants, two pipes, the channel of signals and that of
SIGCHLD. `Start` and `StartFails` are `run` up to its loop, `Forward`,
`ChildSignal` and `Tick` the cases of its `select`, `Wait4` and `Reaped` the
loop of `reap`, `Drained` and `DrainTimesOut` the end; `Copy` and `EndOfFile`
are the two copiers. The processes are the environment: they fork into the
child's group or out of it, keep the pipes or close them, write while a pipe has
room, exit in any way, and are reparented to the wrapper when their parent ends.
A process reparented as a zombie is reaped like any other.

`SignalsArrive` says what a sequence of two signals could lose: `forwarded`
and what waits in the channel are exactly what the channel took. A signal that
finds the channel full is dropped by Go's runtime; the history `accepted` leaves
it out. Fairness: the loop's ticker, reaping and the drain's timer run, and
Go's `select` picks at random among ready cases, so `Forward`, ready again and
again beside a ticker that is always ready in time, is strongly fair. SIGCHLD is
not assumed to arrive: the ticker suffices, which is what `supervise.go:106`
says it is for.

### RunnerCredentials

The runs of `nix-worker-client` in one pod, one after the other, in directories
that outlive them. The machines file is the commit: Nix offers the builders it
names. Each published file is a step, because the program may be killed between
any two; each call may fail, and `atomicWrite` may fail with its file in place,
when the directory is not synced after the rename. A certificate is what
`validateCertificate` looks at, its end an unsigned integer of `2 * Half` values
that `int64` makes negative from `Half` on. The signer returns any certificate
at all. Nothing is assumed of OpenBao: the client's timeout and its context end
every request.

`EnabledIsComplete` is what a kill must not break. It makes one exception, the
history `torn`: the last write, the one that fills the machines file, renames
and fails to sync; the run removes its credentials, leaves the file as it is and
reports the builders disabled. Nix then finds builders without a key, and falls
back after a failed connection. `kept` says that a removal failed, whose error
the program ignores. The hook that runs the program before a job is in the
chart of the runners, which is not in this repository (`docs/architecture.md`
describes it), so the model starts it any number of times.

### NpmPackument

One packument (a package in one form) in one replica. A document is its
version, and a validator names one. A request that finds no fresh copy joins the
refresh that is registered or starts one, with the copy it saw itself; the
refresh is a goroutine of its own that outlives whoever started it. Its steps
are the points between which others run: the fetch slot (`Begin` when there is
`room`, or `GivesUp` when the process stops), the copy in the bucket (`Load`), the answer from
upstream (`Ask`), what is done with it (`KeepCurrent` for a 304, `KeepNew`,
`KeepNotFound`, `FallBack` for any error), and `Land`, which is the deletion of
the flight and the closing of its channel. `Save` is the goroutine that stores a
changed document. `since` is a history variable: the document upstream when the
refresh was started.

`OneRefresh`, `OlderOnlyInAnOutage` and `RefreshIsCurrent` belong together:
refreshes of a packument do not overlap, so the later one knows the later
document, so memory goes back to an older one only where a refresh failed and
fell back. A copy too large for memory leaves the older one there (`Big`); it is
not fresh, or is served for what is left of its time.

The slots are those of `PullThrough`, held by other fetches, which is all
`SlotsChange` says of them: the last is taken, or one comes back, at any time or
never. Fairness: handlers and refreshes run, upstream answers or times out, and a
refresh in the queue gets a slot if slots keep coming free (`SF` of `Begin`: Go
serves the senders of a channel in their order). *That* they do is not assumed: a
leader whose client does not read keeps its slot, and the queue has no timeout
(`npm.go:404`), so `EveryRequestAnswered` leaves out, as `PullThrough`'s does, the
request that waits to the end while there is no room. `SlotsChange` is
always possible, so that TLC's deadlock check says nothing here and this property
says it.

### HostCert

One worker pod, whose containers share the runtime directory one after the
other. A certificate is the key it certifies, this container's own or another,
and the time it has left; time counts down, so no bound on it is needed, and
what a program does takes none. `Boot` discards what an earlier container left,
makes a key and runs `nix-worker-host-cert`; `Ask` and `Write` are its two
halves; `FirstSignFails` ends the container, `Start` starts sshd and the loop;
`Wake`, `Renewed`, `RenewalFails` are the loop, `Reload` is sshd on SIGHUP,
`Crash` the end of the container. `weather` is what the signer and the disk do,
and turns at any time: it answers, or not; it hands back a certificate for
another key or one that has expired; the disk renames and then fails to sync.
`LoopKilled` is a loop that dies, which nothing waits for. `Ready` is the
readiness probe.

`ReadyMeansServed` says what the probe is for, with the one exception that the
code makes: `atomicWrite` may fail after its rename, and the entrypoint then
sends no SIGHUP. The file is new, sshd holds the older certificate, and the
probe looks at the file. `RenewedInTime` closes that hole as soon as the signer
and the disk have been well for one backoff, so it matters only in a second,
hours-long outage that follows. `RenewedInTime` also says that no pattern of
failures makes the loop miss its time afterwards. The script's backoff doubles
before it is compared with its cap, 30, 60, ..., 480, 960, 900 seconds, so the
longest is 16 minutes and not the 15 its comment names: `LongestBackoff`.

Assumed: the signer grants the lifetime it is asked for or refuses, as
`nix-worker-host-cert/main.go:58-61` says of the role. The chart
(`nix-workers.yaml:62-68`) keeps renewEvery and minRemaining each below the
certificate's lifetime, which is the module's assumption; `ReadyAgain` holds
where their sum is too, as in the defaults and in the run: otherwise a worker is
not ready for the end of each interval. Fairness: programs run, time passes,
kubelet starts a container that ended.

## 3. The runs

| run | bounds | shows |
|---|---|---|
| `pullthrough_safe` | 3 requests, a narinfo and its NAR, 1 slot, 1 event | what is stored is verified, one leader, slots accounted for, followers get what their leader got, nothing is promised that is not stored, and `ImmutableCache` is implemented |
| `pullthrough_live` | 2 requests, also a zip, 1 slot, 1 event | every request is answered |
| `pullthrough_stalled_client` | 2 requests, 1 event | *violated*: followers of a small object wait for its leader's client |
| `s3multipart` | parts of 2 bytes, 4 at most, 2 at a time, bodies up to 9 | Put keeps its contract, its bounds, leaves nothing behind, and ends |
| `narindex` | 2 requests, 2 replicas, 2 URLs with 2 records each, a memory of 2 units, 1 event | a NAR is verified against its own URL's record, found by every replica, memory accounted for |
| `gradle` | 3 PUTs, 2 GETs, 1 expiry | late PUTs change nothing, acknowledged entries are found |
| `npm` | 2 requests, 3 versions, one too large for memory, 1 event | one refresh at a time, current answers, memory goes back only in an outage, everyone is answered but for want of a slot |
| `watchdog` | 3 lines, a queue of 2, grace 2 s, 3 s | working runners are not condemned, stuck ones are |
| `watchdog_log` | the same | *violated*: a probe takes the transition from the log |
| `supervisor` | a child and a descendant, 2 streams, 2 signals, a channel and pipes of one | the child's own code, no lost output or signal, no stranger signalled, it ends with its child |
| `credentials` | 2 runs, times of 4 bits | builders are offered with complete credentials only, certificates are within limits, disabled is local, it ends |
| `hostcert` | 24 h, renewed every 12, 2 at least; backoff 1, 2, 4, 8, then 5 | sshd presents its own key's certificate, ready means valid, renewal catches up |

Why the bounds are enough to be interesting. Three requests and one slot give a
leader, a follower and a leader of the other key that queues; a narinfo and its
NAR give the small path, the large path and the index between them; one event
gives each disturbance alone at every point. Two requests suffice for the
violation. Parts of two bytes and bodies of up to nine give no part, a short
part, a full last part, several parts, the limit of four met exactly and
exceeded, and more parts than places. Three lines and a queue of two give a
signature, a start and an end in each order, late and dropped. Two requests for
a packument give one that leaves its refresh behind and one that would start
another; three versions, the middle one too large, give each of a newer, an older
and a skipped copy. At the index, sizes of one to three in a memory of two give
an entry that replaces another of a different size, one that evicts, one that
takes all and one that is refused over an older entry; two replicas are one that
announces and one that looks. A child and one descendant give an orphan, a
zombie reaped before, with or after the child, and a pipe held open; a second
signal is dropped, waits, or follows. Two runs of the client give what one run,
whole or killed, leaves for the next; four bits give ends before and after now,
at the limit, beyond it, wrapped, and never. The host certificate's times are the chart's, in hours, with the
backoff scaled up until its overshoot shows; outages and restarts are not
bounded. Constants that
only bound the model: `MaxEvents`, `MaxSize`, `MaxTime`, `MaxLines`,
`MaxExpiries`, `MaxVersion`, `MaxRuns`, `MaxOutput`, `MaxSignals`. Deadlock is
checked except where the system really stops: after Put has returned, after the
wrapper has, after a pod's last run, and where requests and events of the index
are used up.

## 4. What is proved

`PullThrough_proofs` proves, for every number of requests, keys, slots and
events, that `Spec` implies always `TypeOK` (`TypeCorrect`), `SlotsAccounted`
(`SlotsTheorem`), `SingleFlight` (`SingleFlightTheorem`),
`OnlyVerifiedStored` (`VerifiedTheorem`), `NoFollowerLeftBehind`,
`EveryWaitHasAnEnd`, `FollowersShareTheBody`, `CleanEndIsWhole` and
`OnlyStoredIsPromised`, and that `PullThrough` implements `ImmutableCache` (`PullThroughImplementsCache`): all the
safety properties its runs check. The only assumption is
`PullThrough`'s own on its constants, with the set of requests finite.

The argument for the first four is one inductive invariant,

    IInv == TypeOK /\ Shape /\ SlotsAccounted /\ SingleFlight /\ OnlyVerifiedStored

None of the parts is inductive alone. `TypeOK` needs `SlotsAccounted`: releasing
a slot nobody held would take `slots` below zero. `SlotsAccounted` needs `Shape`, the
facts of control flow: who holds a slot, who reads a large object, what a
request that is about to commit has checked. `OnlyVerifiedStored` needs `Shape`
for the same reason. `Shape` is a statement about each request alone, so the
step lemmas show for each handler action that the request that moved still
fits (`HandleOwn`) and that the others are untouched (`Undisturbed`); the
actions of the surroundings leave every request's place alone, or finish it.

The other four rest on a second invariant, `JInv`, carried by the first. It
follows a body on its way: along a small flight (`Led`) the leader is told what
the flight holds, and a flight that has landed is over for its leader too, so
that what its followers read no longer changes; a follower (`Followed`) waits
for a leader of its own key; a redirect, a flight that counts as stored, and an
entry of memory (`Promises`, `MemoryRecorded`) stand on an object the bucket has
held, whether or not it holds it still. `Faithful` is what a handler's step owes
to the others, and each group of actions has a lemma that it pays.

`EveryWaitHasAnEnd` follows from the two: who waits for a flight that has not
landed waits for a leader (`NoFollowerLeftBehind`, `SingleFlight`), a leader
waits for nothing but a slot, and when no slot is free somebody holds one
(`SlotsAccounted`, with `MaxFetches` above zero), who waits for nobody. That a
request that waits for nobody can really step, short of a client that does not
read, is about `ENABLED` and left to TLC's deadlock check.

The refinement needs both, and one fact more: outside `put`, `release`, `land`
and `done` a request has been told nothing (`Unsaid`), so whichever step answers
is the first to. `Outcome` lists what a handler's step can look like from
outside: silence, an object stored, an answer, or an answer and the object it
carries. Each group of actions has a lemma that its steps are among them, and
`OutcomeImplements` says which action of `ImmutableCache` each is.
`VerifiedFor` is the guard of `Storable`, `Promises` the justification of a
redirect, `Led` that of what a follower is told.

`S3Multipart_proofs` proves `WithinLimits`, `NothingLeftBehind` and `KeepsContract`
for every size of part, limit, concurrency and body. `KeepsContract` is the
refinement: the initial states are `ObjectStore`'s, and each step is one of its
actions or leaves its three variables alone. The invariant says what the reader
knows at each place of the end of the body, that Put has a buffer of its own
exactly while it has bytes to send, that parts are sent in their order without a
gap, that every part that was answered is in the list or has set the error, and
that `complete` is reached only after the end of the body and without one.

`NarIndex_proofs` proves `AnswersAreTheURLsOwn`, `EveryReplicaFinds` and
`MemoryAccounted` for any replicas, records, sizes and budget. The invariant adds what requests carry: a
request past its write has a record in the bucket or an excuse, and what a
lookup is about to keep is its URL's own. The lemmas on the memory say which
entries a hit, a put and an eviction leave there.

`MemoryAccounted` compares the sum the memory keeps with the sizes of its
entries, so it needs facts about sums of sequences of any length. `Total` is the
last of the prefix sums (`Sums`), a function on `1 .. Len(es)`; that such a
function exists, and that another one with the same equations is the same, is
shown by induction over `Nat`, which is stated for a *set* of numbers
(`AllNumbers`) so that no operator needs to be passed. From that come what an
entry put in front adds to the total (`PushedTotal`) and what a removed one takes away
(`WithoutTotal`); replacing, moving to the front and evicting are made of
the two.

`GradleCache_proofs` proves `LatePutChangesNothing` and `FoundAfterwards` for
any number of PUTs, GETs and expiries, by an invariant that says a PUT that came
late never gets to `store.Put` and that a promise is owed only while there is an
entry.

`NpmPackument_proofs` proves `OneRefresh`, `RefreshIsCurrent` and the action
property `OlderOnlyInAnOutage` for any number of requests and versions. One
refresh at a time is what makes the others provable: what memory holds was
got by an earlier refresh, so it is no newer than what the present one gets.

`RunnerWatchdog_proofs` proves the four safety properties of `Supervisor` for any
descendants, streams, channel and pipes. `SignalsArrive` needs that a process of
the group has been sent everything forwarded since it was born, and that the
child is in its group until it is reaped; `NeverSignalsAStranger` that the loop
is left in the very call of `reap` that collects the child.

It proves `NeverCondemnsAJob` and `CondemnedByAFreshSignature` of `Watchdog` as
well, for any queue, lines, grace and times. What the matcher believes lags
behind the runner by the lines that are queued, and lines are dropped, so the
invariant (`VerdictKnown`) is about the queue. Unless the last start was dropped,
and whatever else was: while a job runs, every queued end has a start behind it, and the matcher knows of a job or
will by a queued start (`JobKnown`); while no idle runner has printed a signature since
the last start, no queued signature lies behind a queued end but for a start
between or behind them, and whatever may be armed will be cleared by a queued
start (`ArmedKnown`). A verdict with no start in the queue then has neither a job
nor an old signature under it, whatever time `Evaluate` is called with.

`RunnerCredentials_proofs` proves `EnabledIsComplete`, `WithinItsLimits`,
`DisabledStaysLocal` and `TrustIsAsConfigured` for any number of runs and any width of
a certificate's times. `EnabledIsComplete` is not inductive: it needs that the
machines file is empty from the first write to the last, which is what a kill
in between leaves behind.

`HostCert_proofs` proves `TypeOK`, which bounds the backoff and every sleep,
`PresentsItsOwn`, `ReadyMeansServed` and `RenewedInTime`, for every lifetime,
interval and backoff. What sshd loads is the file, the file is what a run was
given, and a run keeps only what `Accepts` lets through: `Fits` says this. The
two on time add an invariant of their own, `TInv`: what a program at work has
made is new, sshd presents the file unless it has yet to be told of it, and the
loop sleeps either on a certificate it has just renewed, or no longer than what
is missing of the longest backoff since the weather turned good.

The assumptions of all of them are those on the constants that each module
states (that requests are finitely many, that numbers are numbers, that a
certificate lives longer than its renewal interval); TLC evaluates them in every
run.

Only model-checked: what is under fairness (`EveryRequestAnswered` of `PullThrough`
and of `NpmPackument`, `PutReturns`, `StuckIsNoticed`, `RecoveryIsNoticed`,
`EndsWithTheChild`, `NothingIsLeftPending`, `SetupEnds`, `ReadyAgain`), which is
beyond the prover as `ENABLED` is. Every other property of a passing run is a
theorem.

## 5. What the code does and its text does not say

Two runs end in a violation, each of a sentence of a comment; the findings in
`PROJECT.json` quote them: a stalled client of a small object's leader blocks
its followers and a slot (`cache.go:331`), and a probe takes the transition that
the watchdog's log should show (`http.go:23` of the watchdog).

Met while modelling, true of the code, and part of the models' behaviours:

- A leader whose client leaves while it queues for a slot answers its followers
  502 though upstream was never asked (`cache.go:268`; `cache.go:83-85` and
  `docs/architecture.md:318-319` say that a leader that leaves aborts nothing that
  is shared). `StopQueueing`, then `Land`.
- A request that misses in the store, and reaches `pullThrough` after the fetch
  it might have waited for has landed, fetches a stored object again
  (`cache.go:194`; `docs/architecture.md:312-315`, `main.go:10-11`).
- Two Gradle PUTs that both look before either stores both store (`gradle.go:122`;
  `gradle.go:36-38` says that the first write wins). `LatePutChangesNothing` is what
  remains.
- The idle timer of an upstream body is reset by a read and runs on while what
  was read is written to the leader's client (`cache.go:637`). That write has a
  deadline as long (`cache.go:374`), set later: a client that stalls for that time
  ends the fetch, as a stalled upstream's, under its followers. `BodyBreaks`.
- A refresh of a packument that fails falls back on the copy that the request
  which *started* it saw, or the bucket's (`npm.go:457`). If that request looked
  just before another refresh put a copy in memory, and that one's save is still
  on the way or failed, it answers 502 to all who wait for it, with the copy in
  memory (`npm.go:398-400`: an outage "must not break installs of what has been
  installed before"). `FallBack`; no property speaks of the 502.
- A NAR's record that could not be written is not written while memory holds it
  (`nix.go:104`; `docs/architecture.md:343-353`). The history `excused`.
- A machines file that was renamed into place but not synced stays, while the
  credentials it needs are removed (`nix-worker-client/main.go:424`). The
  history `torn`.

## 6. Not modelled

- *Metrics and logs*: counters that no decision reads.
- *The syntax* of paths, keys, narinfos, packuments and their URLs in each
  front-end, base 32, and the routing by host: functions of one argument
  without state, which the repository's own tests enumerate. Mutable objects
  (`ServeMutable`) are relayed and leave no state.
- *The order of upstreams* within one fetch (`fetchChain`): its outcome is that
  of the last one asked, which the models choose.
- *Flags and wiring* of the programs; the set-up of the worker's accounts and
  daemon in `nix-worker-entrypoint.sh` before the host certificate; the seed and
  CA scripts, which run once from top to bottom.
- *The chart, images, release scripts and the IAM policy renderer*: rendering of
  configuration.
- *The composition* of the programs beyond what the modules assume of one
  another: a runner's watchdog, its credentials and the worker it reaches share
  no state but the files and certificates modelled at each end.
