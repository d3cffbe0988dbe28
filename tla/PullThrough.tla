----------------------------- MODULE PullThrough -----------------------------
(***************************************************************************)
(* The pull-through core of cache-redirect (cache.go): what one replica    *)
(* does with GET and HEAD requests for immutable objects.  A request looks *)
(* at the not-found cache, the memory cache and the store; on a miss it    *)
(* joins the fetch in flight for its key or leads one, holding one of the  *)
(* MaxFetches slots while it does.                                         *)
(*                                                                         *)
(* One action is one stretch of a handler between two points where another *)
(* goroutine can be seen to run: a mutex, a channel operation, or a call   *)
(* to the store, to upstream or to the client.                             *)
(***************************************************************************)
EXTENDS Naturals, FiniteSets

CONSTANTS
  Reqs,        \* the requests that may ever arrive
  Small,       \* keys of objects answered from memory (narinfo, .info, .mod)
  Large,       \* keys of objects answered by a redirect (NARs, zips)
  Nars,        \* large keys whose body must match an index record
  NarOf,       \* the NAR each narinfo (a small key) describes
  MaxFetches,  \* capacity of fetchSem
  MaxEvents,   \* bound: how many events of the surroundings one behaviour has
  NoReq        \* not a request

Keys == Small \cup Large

ASSUME KeysAssumption ==
  /\ Small \cap Large = {}
  /\ Nars \subseteq Large
  /\ NarOf \in [DOMAIN NarOf -> Nars]
  /\ DOMAIN NarOf \subseteq Small
ASSUME ReqsAssumption == NoReq \notin Reqs /\ IsFiniteSet(Reqs)
ASSUME MaxFetchesAssumption == MaxFetches \in Nat \ {0}
ASSUME MaxEventsAssumption == MaxEvents \in Nat

(***************************************************************************)
(* A body is told apart by what the code can tell: "true" is whole and is  *)
(* what the key names, "other" is whole (its Content-Length held) and is   *)
(* something else, "cut" is truncated, stalled or longer than announced,   *)
(* "huge" is whole and over maxSmall.                                      *)
(***************************************************************************)
Whole  == {"true", "other"}
Body   == Whole \cup {"cut", "huge"}
Absent == "absent"

VARIABLES
  store,      \* the bucket: the body visible under each key
  mem,        \* c.mem: small bodies
  neg,        \* c.neg: keys upstream answered 404 or 410 for
  index,      \* NARs whose record narIndex.lookup finds
  flights,    \* c.flights: the leader of the flight registered for each key
  flight,     \* the flight each request leads, should it lead one
  slots,      \* how full fetchSem is
  req,        \* the requests
  events,     \* how many events of the surroundings there were
  committed   \* history: every <<key, body>> the store ever made visible

bucket  == <<store, index, committed>>
memory  == <<mem, neg>>
fetches == <<flights, flight, slots>>
vars == <<bucket, memory, fetches, req, events>>

Status == {"none", "ok", "headOk", "redirect", "notFound", "storeError",
           "upstreamError", "broken", "left", "lost"}
Answers == [status : Status, body : Body \cup {Absent}]
NoAnswer == [status |-> "none", body |-> Absent]
Lost     == [status |-> "lost", body |-> Absent]

PCs == {"idle", "mem", "store", "presign", "proxy", "pull", "wait",
        "slot", "expect", "fetch", "read", "write", "put", "pass", "upload",
        "drain", "release", "land", "done"}

Flight == [done : BOOLEAN, res : {"failed", "ok", "notFound"},
           body : Body \cup {Absent}, stored : BOOLEAN]
Request == [pc : PCs, key : Keys, head : BOOLEAN,
            on : Reqs \cup {NoReq},            \* the flight it waits or waited on
            want : {"unchecked", "none", "record"},  \* o.expect's answer
            body : Body \cup {Absent},         \* what a small leader has read
            client : {"reading", "stalled", "gone"},
            ans : Answers]

(* Where a leader is: between registering its flight and unregistering it. *)
Holding == {"expect", "fetch", "read", "write", "put", "pass", "upload",
            "drain", "release"}
Leading == Holding \cup {"slot", "land"}
TypeOK ==
  /\ store \in [Keys -> Body \cup {Absent}]
  /\ mem \in [Small -> Body \cup {Absent}]
  /\ neg \subseteq Keys
  /\ index \subseteq Nars
  /\ flights \in [Keys -> Reqs \cup {NoReq}]
  /\ flight \in [Reqs -> Flight]
  /\ slots \in 0 .. MaxFetches
  /\ req \in [Reqs -> Request]
  /\ events \in 0 .. MaxEvents
  /\ committed \subseteq Keys \X Body

FreshFlight == [done |-> FALSE, res |-> "failed", body |-> Absent, stored |-> FALSE]
FreshRequest(k) ==
  [pc |-> "idle", key |-> k, head |-> FALSE, on |-> NoReq, want |-> "unchecked",
   body |-> Absent, client |-> "reading", ans |-> NoAnswer]

Init ==
  /\ store = [k \in Keys |-> Absent]
  /\ mem = [k \in Small |-> Absent]
  /\ neg = {}
  /\ index = {}
  /\ flights = [k \in Keys |-> NoReq]
  /\ flight = [r \in Reqs |-> FreshFlight]
  /\ slots = 0
  /\ \E key \in [Reqs -> Keys] : req = [r \in Reqs |-> FreshRequest(key[r])]
  /\ events = 0
  /\ committed = {}

-----------------------------------------------------------------------------
(* How a request moves on, and what most steps leave alone.                *)

Key(r) == req[r].key
At(r, p) == req[r].pc = p
Goto(r, p) == req' = [req EXCEPT ![r].pc = p]
Answer(r, s, b, p) ==
  req' = [req EXCEPT ![r] = [@ EXCEPT !.pc = p, !.ans = [status |-> s, body |-> b]]]
Rest == UNCHANGED <<bucket, memory, fetches, events>>

(* o.onBody on the body b of k: a narinfo that parses records its NAR.     *)
IndexAfter(k, b) ==
  index \cup (IF k \in DOMAIN NarOf /\ b = "true" THEN {NarOf[k]} ELSE {})

(* Mutant: the length is checked, the record is not.                       *)
FrEndUnverified(want, b) == IF b \in Whole THEN "eof" ELSE "error"

(* How a body ends for its reader (fetchReader.finish): "eof" only when it *)
(* is whole and, with an expectation, what the record says.                *)
FrEnd(want, b) ==
  IF b \notin Whole THEN "error"
  ELSE IF want = "record" /\ b # "true" THEN "verify" ELSE "eof"

Commit(k, b) ==
  /\ store' = [store EXCEPT ![k] = b]
  /\ committed' = committed \cup {<<k, b>>}

(* A Put that fails may still have taken effect: only its answer was lost. *)
PerhapsCommit(k, b) == Commit(k, b) \/ UNCHANGED <<store, committed>>

-----------------------------------------------------------------------------
(* ServeImmutable: the lookups.                                            *)

(* A request arrives (its key is chosen in Init) and looks in c.neg.  HEAD *)
(* differs from GET for large objects only: for a small one it omits the   *)
(* body of the same answer.                                                *)
Arrive(r, h) ==
  LET here == [req[r] EXCEPT !.head = h] IN
  /\ At(r, "idle")
  /\ h => Key(r) \in Large
  /\ req' = [req EXCEPT ![r] =
       IF Key(r) \in neg
       THEN [here EXCEPT !.pc = "done", !.ans = [status |-> "notFound", body |-> Absent]]
       ELSE [here EXCEPT !.pc = IF Key(r) \in Small THEN "mem" ELSE "store"]]
  /\ Rest

LookupMem(r) ==
  /\ At(r, "mem")
  /\ IF mem[Key(r)] # Absent
     THEN /\ Answer(r, "ok", mem[Key(r)], "done")
          /\ index' = IndexAfter(Key(r), mem[Key(r)])
     ELSE Goto(r, "store") /\ UNCHANGED index
  /\ UNCHANGED <<store, committed, memory, fetches, events>>

(* store.Head of a large object.  A HEAD of one that is not there asks     *)
(* upstream and stores nothing.                                            *)
HeadStore(r) ==
  /\ At(r, "store") /\ Key(r) \in Large
  /\ IF store[Key(r)] # Absent
     THEN IF req[r].head THEN Answer(r, "headOk", Absent, "done") ELSE Goto(r, "presign")
     ELSE Goto(r, IF req[r].head THEN "proxy" ELSE "pull")
  /\ Rest

GetStore(r) ==
  /\ At(r, "store") /\ Key(r) \in Small
  /\ IF store[Key(r)] # Absent
     THEN /\ mem' = [mem EXCEPT ![Key(r)] = store[Key(r)]]
          /\ index' = IndexAfter(Key(r), store[Key(r)])
          /\ Answer(r, "ok", store[Key(r)], "done")
     ELSE Goto(r, "pull") /\ UNCHANGED <<mem, index>>
  /\ UNCHANGED <<store, committed, neg, fetches, events>>

(* The lookup, or the presigning, fails for another reason than a missing  *)
(* object: 502, and upstream is not asked.                                 *)
StoreError(r) ==
  /\ At(r, "store") \/ At(r, "presign")
  /\ Answer(r, "storeError", Absent, "done")
  /\ Rest

Presign(r) == At(r, "presign") /\ Answer(r, "redirect", Absent, "done") /\ Rest

ProxyHead(r) ==
  /\ At(r, "proxy")
  /\ \E s \in {"headOk", "notFound", "upstreamError"} : Answer(r, s, Absent, "done")
  /\ Rest

-----------------------------------------------------------------------------
(* pullThrough: join or lead.                                              *)

Join(r) ==
  /\ At(r, "pull") /\ flights[Key(r)] # NoReq
  /\ req' = [req EXCEPT ![r] = [@ EXCEPT !.pc = "wait", !.on = flights[Key(r)]]]
  /\ Rest

Lead(r) ==
  /\ At(r, "pull") /\ flights[Key(r)] = NoReq
  /\ flights' = [flights EXCEPT ![Key(r)] = r]
  /\ Goto(r, "slot")
  /\ UNCHANGED <<bucket, memory, flight, slots, events>>

(* The client of a follower goes away first.                               *)
StopWaiting(r) ==
  /\ At(r, "wait") /\ req[r].client = "gone"
  /\ Answer(r, "left", Absent, "done")
  /\ Rest

(* follow: the flight has landed, and this request is answered from it; p  *)
(* is where a large object that was served leads.                          *)
FollowTo(r, p) ==
  LET f == flight[req[r].on] IN
  /\ At(r, "wait") /\ f.done
  /\ CASE f.res = "ok" /\ Key(r) \in Small -> Answer(r, "ok", f.body, "done")
       [] f.res = "ok" /\ Key(r) \in Large -> Goto(r, p)
       [] f.res = "notFound" -> Answer(r, "notFound", Absent, "done")
       [] f.res = "failed"   -> Answer(r, "upstreamError", Absent, "done")
  /\ Rest

(* A redirect to what the flight stored, or a fetch of its own.            *)
Follow(r) == FollowTo(r, IF flight[req[r].on].stored THEN "presign" ELSE "pull")

TakeSlot(r) ==
  /\ At(r, "slot")
  /\ slots' = slots + 1
  /\ Goto(r, IF Key(r) \in Nars THEN "expect" ELSE "fetch")
  /\ UNCHANGED <<bucket, memory, flights, flight, events>>

AcquireSlot(r) == slots < MaxFetches /\ TakeSlot(r)

LeaveQueue(r, p) ==
  /\ At(r, "slot") /\ req[r].client = "gone"
  /\ Answer(r, "left", Absent, p)
  /\ Rest

(* Mutants: the flight is unregistered by a defer set up after the queue;  *)
(* the slot is released by a defer set up before it.                       *)
StopQueueingOnly(r) == LeaveQueue(r, "done")
StopQueueingReleases(r) == LeaveQueue(r, "release")

(* The client of a leader goes away before a slot is free.                 *)
StopQueueing(r) == LeaveQueue(r, "land")

-----------------------------------------------------------------------------
(* leadSmall, leadLarge and fetchOrAnswer.                                 *)

(* o.expect: the index lookup of a NAR, on the request's own context.      *)
Expect(r) ==
  /\ At(r, "expect")
  /\ req' = [req EXCEPT ![r] = [@ EXCEPT !.pc = "fetch",
                        !.want = IF Key(r) \in index THEN "record" ELSE "none"]]
  /\ Rest

(* Mutant: no return after the 502.                                        *)
ExpectFailsGoesOn(r) ==
  At(r, "expect") /\ Answer(r, "storeError", Absent, "fetch") /\ Rest

ExpectFails(r) == At(r, "expect") /\ Answer(r, "storeError", Absent, "release") /\ Rest

FetchFails(r) == At(r, "fetch") /\ Answer(r, "upstreamError", Absent, "release") /\ Rest

FetchNotFound(r) ==
  /\ At(r, "fetch")
  /\ neg' = neg \cup {Key(r)}
  /\ flight' = [flight EXCEPT ![r].res = "notFound"]
  /\ Answer(r, "notFound", Absent, "release")
  /\ UNCHANGED <<bucket, mem, flights, slots, events>>

FetchOK(r) ==
  /\ At(r, "fetch")
  /\ Goto(r, IF Key(r) \in Small THEN "read"
             ELSE IF req[r].want = "none" THEN "pass" ELSE "upload")
  /\ Rest

(* A small body is read whole, up to maxSmall, before anything is said.    *)
ReadSmall(r, b) ==
  /\ At(r, "read") /\ FrEnd(req[r].want, b) = "eof"
  /\ flight' = [flight EXCEPT ![r] = [@ EXCEPT !.res = "ok", !.body = b]]
  /\ index' = IndexAfter(Key(r), b)
  /\ req' = [req EXCEPT ![r] = [@ EXCEPT !.pc = "write", !.body = b]]
  /\ UNCHANGED <<store, committed, memory, flights, slots, events>>

(* Mutant: f.res is set from the body before the read error is looked at.  *)
ReadSmallFailsLate(r, b) ==
  /\ At(r, "read") /\ FrEnd(req[r].want, b) # "eof"
  /\ flight' = [flight EXCEPT ![r] = [@ EXCEPT !.res = "ok", !.body = b]]
  /\ Answer(r, "upstreamError", Absent, "release")
  /\ UNCHANGED <<bucket, memory, flights, slots, events>>

ReadSmallFails(r, b) ==
  /\ At(r, "read") /\ FrEnd(req[r].want, b) # "eof"
  /\ Answer(r, "upstreamError", Absent, "release")
  /\ Rest

(* writeCached to the leader's own client: it blocks while the client does *)
(* not read, with no write deadline; to a client that is gone it fails at  *)
(* once and the failure is ignored.                                        *)
WriteSmall(r) ==
  /\ At(r, "write") /\ req[r].client # "stalled"
  /\ Answer(r, "ok", req[r].body, "put")
  /\ Rest

PutSmall(r) ==
  /\ At(r, "put")
  /\ Commit(Key(r), req[r].body)
  /\ flight' = [flight EXCEPT ![r].stored = TRUE]
  /\ mem' = [mem EXCEPT ![Key(r)] = req[r].body]
  /\ Goto(r, "release")
  /\ UNCHANGED <<neg, index, flights, slots, events>>

(* Mutant: no return after the Put failed, so memory keeps the body.       *)
PutSmallFailsCached(r) ==
  /\ At(r, "put")
  /\ mem' = [mem EXCEPT ![Key(r)] = req[r].body]
  /\ Goto(r, "release")
  /\ UNCHANGED <<bucket, neg, fetches, events>>

PutSmallFails(r) ==
  /\ At(r, "put")
  /\ PerhapsCommit(Key(r), req[r].body)
  /\ Goto(r, "release")
  /\ UNCHANGED <<index, memory, fetches, events>>

(* The client of a large object has had all of the body b.                 *)
Served(r, b, stored) ==
  /\ flight' = [flight EXCEPT ![r] = [@ EXCEPT !.res = "ok", !.stored = stored]]
  /\ Answer(r, "ok", b, "release")
  /\ UNCHANGED <<index, memory, flights, slots, events>>

(* No record says what the NAR must be: to the client, never to the store. *)
PassThrough(r, b) ==
  /\ At(r, "pass") /\ b \in Whole
  /\ Served(r, b, FALSE)
  /\ UNCHANGED <<store, committed>>

(* store.Put reads the upstream body, and the client is fed what it reads. *)
Upload(r, b) ==
  /\ At(r, "upload") /\ FrEnd(req[r].want, b) = "eof"
  /\ Commit(Key(r), b)
  /\ Served(r, b, TRUE)

(* The store fails once the whole body was read.                           *)
UploadUnacknowledged(r, b) ==
  /\ At(r, "upload") /\ FrEnd(req[r].want, b) = "eof"
  /\ PerhapsCommit(Key(r), b)
  /\ Served(r, b, FALSE)

(* The store fails with upstream bytes left: the client's copy goes on.    *)
UploadFails(r) == At(r, "upload") /\ Goto(r, "drain") /\ Rest

Drain(r, b) ==
  /\ At(r, "drain") /\ FrEnd(req[r].want, b) = "eof"
  /\ Served(r, b, FALSE)
  /\ UNCHANGED <<store, committed>>

(* Whole, and the client has all of it, but not what the record announces: *)
(* the reader ends in an error, so Put commits nothing.                    *)
VerifyFails(r, b) ==
  /\ At(r, "upload") \/ At(r, "drain")
  /\ FrEnd(req[r].want, b) = "verify"
  /\ Served(r, b, FALSE)
  /\ UNCHANGED <<store, committed>>

(* A broken body: nothing is committed, and the response ends broken too   *)
(* (panic(http.ErrAbortHandler)).                                          *)
BodyBreaks(r, b) ==
  /\ At(r, "pass") \/ At(r, "upload") \/ At(r, "drain")
  /\ FrEnd(req[r].want, b) = "error"
  /\ Answer(r, "broken", b, "release")
  /\ Rest

-----------------------------------------------------------------------------
(* The deferred functions of pullThrough, which run on a panic too.        *)

ReleaseSlot(r) ==
  /\ At(r, "release")
  /\ slots' = slots - 1
  /\ Goto(r, "land")
  /\ UNCHANGED <<bucket, memory, flights, flight, events>>

Lands(r, closes) ==
  /\ At(r, "land")
  /\ flights' = [flights EXCEPT ![Key(r)] = NoReq]
  /\ flight' = [flight EXCEPT ![r].done = closes]
  /\ Goto(r, "done")
  /\ UNCHANGED <<bucket, memory, slots, events>>

(* Mutant: only a fetch that succeeded closes the channel.                 *)
LandOnSuccess(r) == Lands(r, flight[r].res # "failed")

(* The flight is unregistered, then its channel closed.  Nothing waits for *)
(* it but followers, which may be late anyway: one step.                   *)
Land(r) == Lands(r, TRUE)

-----------------------------------------------------------------------------
(* The surroundings: clients, other replicas, the bucket, time, crashes.   *)

Event == events < MaxEvents /\ events' = events + 1

(* A client goes away, or stops reading without closing its connection.    *)
ClientBecomes(r, c) ==
  /\ Event
  /\ req[r].pc \notin {"idle", "done"}
  /\ c = "stalled" => req[r].client = "reading"
  /\ req' = [req EXCEPT ![r].client = c]
  /\ req' # req
  /\ UNCHANGED <<bucket, memory, fetches>>

(* Another replica, running the same code on the same bucket, stores an    *)
(* object or records a NAR.                                                *)
PeerCommits(k, b) ==
  /\ Event
  /\ store[k] = Absent
  /\ k \in Nars => b = "true"
  /\ Commit(k, b)
  /\ UNCHANGED <<index, memory, fetches, req>>

PeerRecords(k) ==
  /\ Event
  /\ k \notin index
  /\ index' = index \cup {k}
  /\ UNCHANGED <<store, committed, memory, fetches, req>>

(* The bucket expires an object, or a record.                              *)
ObjectExpires(k) ==
  /\ Event
  /\ store[k] # Absent
  /\ store' = [store EXCEPT ![k] = Absent]
  /\ UNCHANGED <<index, committed, memory, fetches, req>>

RecordExpires(k) ==
  /\ Event
  /\ k \in index
  /\ index' = index \ {k}
  /\ UNCHANGED <<store, committed, memory, fetches, req>>

(* c.neg's TTL runs out; c.mem evicts (or never kept) an entry.            *)
NegExpires(k) ==
  /\ Event
  /\ k \in neg
  /\ neg' = neg \ {k}
  /\ UNCHANGED <<bucket, mem, fetches, req>>

MemEvicts(k) ==
  /\ Event
  /\ mem[k] # Absent
  /\ mem' = [mem EXCEPT ![k] = Absent]
  /\ UNCHANGED <<bucket, neg, fetches, req>>

(* The process is killed and started again: only the bucket survives.      *)
Killed(r) ==
  IF req[r].pc \in {"idle", "done"} THEN req[r]
  ELSE [req[r] EXCEPT !.pc = "done", !.ans = IF @ = NoAnswer THEN Lost ELSE @]

Restart ==
  /\ Event
  /\ \E r \in Reqs : req[r].pc \notin {"idle", "done"}
  /\ mem' = [k \in Small |-> Absent]
  /\ neg' = {}
  /\ flights' = [k \in Keys |-> NoReq]
  /\ slots' = 0
  /\ req' = [r \in Reqs |-> Killed(r)]
  /\ UNCHANGED <<bucket, flight>>

(* The leader of a small object stands in writeCached, and its client does *)
(* not read: nothing of the code's ends this.                              *)
Held(r) == At(r, "write") /\ req[r].client = "stalled"

(* r stands behind such clients: it leads or follows such a flight, or one *)
(* that waits for slots which such leaders hold all.                       *)
NoSlotLeft == Cardinality({q \in Reqs : Held(q)}) = MaxFetches
HeldUp(r) ==
  \/ Held(r)
  \/ At(r, "slot") /\ NoSlotLeft
  \/ At(r, "wait") /\ (Held(req[r].on) \/ (At(req[r].on, "slot") /\ NoSlotLeft))

(* Every request was answered, or is held up by such a client.  Everything *)
(* else must be able to move, and TLC checks that it is (no deadlock).     *)
Finished ==
  /\ \A r \in Reqs : At(r, "done") \/ HeldUp(r)
  /\ UNCHANGED vars

-----------------------------------------------------------------------------
Lookup(r) ==
  \/ LookupMem(r) \/ HeadStore(r) \/ GetStore(r)
  \/ StoreError(r) \/ Presign(r) \/ ProxyHead(r)

Board(r) ==
  \/ Join(r) \/ Lead(r) \/ StopWaiting(r) \/ Follow(r)
  \/ AcquireSlot(r) \/ StopQueueing(r)

LeadSmall(r) ==
  \/ \E b \in Body : ReadSmall(r, b)
  \/ \E b \in Body : ReadSmallFails(r, b)
  \/ WriteSmall(r) \/ PutSmall(r) \/ PutSmallFails(r)

LeadLarge(r) ==
  \/ Expect(r) \/ ExpectFails(r) \/ UploadFails(r)
  \/ \E b \in Whole \cup {"cut"} :
       \/ PassThrough(r, b) \/ Upload(r, b) \/ UploadUnacknowledged(r, b)
       \/ Drain(r, b) \/ VerifyFails(r, b) \/ BodyBreaks(r, b)

FetchOrAnswer(r) == FetchFails(r) \/ FetchNotFound(r) \/ FetchOK(r)

(* What the goroutine of request r does next.                              *)
Handle(r) ==
  \/ Lookup(r) \/ Board(r) \/ FetchOrAnswer(r) \/ LeadSmall(r)
  \/ LeadLarge(r) \/ ReleaseSlot(r) \/ Land(r)

Clients ==
  \E r \in Reqs : \/ \E h \in BOOLEAN : Arrive(r, h)
                 \/ \E c \in {"stalled", "gone"} : ClientBecomes(r, c)

Surroundings ==
  \/ \E k \in Keys, b \in Whole : PeerCommits(k, b)
  \/ \E k \in Nars : PeerRecords(k) \/ RecordExpires(k)
  \/ \E k \in Keys : ObjectExpires(k) \/ NegExpires(k)
  \/ \E k \in Small : MemEvicts(k)
  \/ Restart

Next == Clients \/ Surroundings \/ (\E r \in Reqs : Handle(r)) \/ Finished

Spec == Init /\ [][Next]_vars

(* Each handler keeps running: the Go scheduler runs every goroutine that  *)
(* can run; upstream answers within ResponseHeaderTimeout and a body makes *)
(* progress or fails (idleBody); the S3 client's calls return.  Reqs is    *)
(* finite, so a queued leader is not passed over for ever.                 *)
FairSpec == Spec /\ \A r \in Reqs : WF_vars(Handle(r))
-----------------------------------------------------------------------------
(* Safety.                                                                 *)

(* Only a body that arrived whole is ever visible in the bucket, and under *)
(* a NAR's key only the body its narinfo announced: leadLarge hands Put a  *)
(* reader that ends in io.EOF for nothing else, and a NAR nobody announced *)
(* does not reach Put at all.                                              *)
OnlyVerifiedStored ==
  \A k \in Keys : store[k] # Absent =>
    /\ store[k] \in Whole
    /\ k \in Nars => store[k] = "true"

(* A key has one leader at most, c.flights names it, and c.flights names   *)
(* nobody else: an entry left behind would have every later request for    *)
(* the key wait for a fetch nobody makes, a lost one would fetch twice.    *)
SingleFlight ==
  /\ \A r \in Reqs : req[r].pc \in Leading => flights[Key(r)] = r
  /\ \A k \in Keys : flights[k] # NoReq =>
       Key(flights[k]) = k /\ req[flights[k]].pc \in Leading

(* fetchSem is as full as there are leaders past it, whichever way each    *)
(* leader ends: an answer, an error, a panic, a client that left the queue.*)
SlotsAccounted == slots = Cardinality({r \in Reqs : req[r].pc \in Holding})

(* A waiting request waits for a flight that is still led or has landed.   *)
NoFollowerLeftBehind ==
  \A r \in Reqs : req[r].pc = "wait" =>
    \/ flights[Key(r)] = req[r].on
    \/ flight[req[r].on].done

(* What each request needs of another goroutine: the end of its flight, a  *)
(* slot that leaders hold, or nothing.  A client that does not read holds  *)
(* its own request only.                                                   *)
Underway(r) == req[r].pc \notin {"idle", "done"}
Free(r) ==
  /\ Underway(r)
  /\ At(r, "wait") => flight[req[r].on].done \/ req[r].client = "gone"
  /\ At(r, "slot") => slots < MaxFetches \/ req[r].client = "gone"
WaitsFor(r, q) ==
  \/ At(r, "wait") /\ q = req[r].on
  \/ At(r, "slot") /\ req[q].pc \in Holding

(* Nobody waits in a circle, or for someone who is gone: whoever waits for *)
(* a flight or a slot has, two steps down at most, a request that waits    *)
(* for nobody.  A leader never waits for another flight, and holds no slot *)
(* while it queues for one.                                                *)
EveryWaitHasAnEnd ==
  \A r \in Reqs : Underway(r) =>
    \E q, f \in Reqs :
      /\ q = r \/ WaitsFor(r, q)
      /\ f = q \/ WaitsFor(q, f)
      /\ Free(f)

(* A follower of a small object is served the very bytes its leader was,   *)
(* and never a body of a fetch that failed for the leader.                 *)
FollowersShareTheBody ==
  \A r \in Reqs :
    (/\ Key(r) \in Small
     /\ req[r].on # NoReq
     /\ req[r].ans.status = "ok") => req[req[r].on].ans = req[r].ans

(* A response that ends cleanly carries a whole body: a failure after the  *)
(* header reaches the client as a broken response.  KeepsPromise, below,   *)
(* says it of the moment of the answer.                                    *)
CleanEndIsWhole ==
  \A r \in Reqs : req[r].ans.status = "ok" => req[r].ans.body \in Whole

(* What is told of the bucket is true of it: a client is redirected only   *)
(* to an object it has held, and memory serves without asking only what it *)
(* has held, so that a restart, or another replica, serves the same bytes. *)
OnlyStoredIsPromised ==
  /\ \A r \in Reqs : req[r].ans.status = "redirect" =>
       \E b \in Body : <<Key(r), b>> \in committed
  /\ \A k \in Small : mem[k] # Absent => <<k, mem[k]>> \in committed

(* ImmutableCache, step by step: whatever flights, slots, memory and the   *)
(* bucket do, a request is told one thing, once, justified at that moment, *)
(* and is not told another after a failed Put, a broken body or a restart. *)
Cache == INSTANCE ImmutableCache
           WITH held  <- committed,
                said  <- [r \in Reqs |-> req[r].ans],
                asked <- [r \in Reqs |-> req[r].key]
KeepsPromise == Cache!Spec

-----------------------------------------------------------------------------
(* Liveness.                                                               *)

(* Every request is answered, unless a client that stops reading holds up  *)
(* the leader of a small object: then whoever needs its flight, or its     *)
(* slot, waits with it.                                                    *)
EveryRequestAnswered ==
  \A r \in Reqs : req[r].pc # "idle" ~> (req[r].pc = "done" \/ \E q \in Reqs : Held(q))

-----------------------------------------------------------------------------
(* What a comment says and the code does not do.                           *)

(* cache.go:257-258: "waiting requests must never be left waiting."        *)
NeverLeftWaiting == \A r \in Reqs : req[r].pc = "wait" ~> req[r].pc # "wait"
=============================================================================
