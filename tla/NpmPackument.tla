----------------------------- MODULE NpmPackument -----------------------------
(***************************************************************************)
(* One packument of the npm front-end (npm.go) in one replica: it is kept  *)
(* in memory for a while, then brought up to date by a goroutine that all  *)
(* who ask meanwhile wait for, and whose last copy lives in the bucket for *)
(* the time the registry does not answer.                                  *)
(*                                                                         *)
(* A document is its version; a validator names one, so upstream answers   *)
(* 304 to the version it has and to no other.                              *)
(***************************************************************************)
EXTENDS Naturals, FiniteSets

CONSTANTS
  Reqs,        \* the requests
  NoReq,       \* not a request
  MaxVersion,  \* bound: the versions upstream publishes
  Big,         \* the versions too large for memory (lru.entryMax)
  MaxEvents    \* bound: how many events of the surroundings there are

ASSUME NpmAssumption ==
  /\ NoReq \notin Reqs /\ IsFiniteSet(Reqs)
  /\ MaxVersion \in Nat /\ MaxEvents \in Nat
  /\ Big \subseteq 1 .. MaxVersion

None == 0
Versions == 1 .. MaxVersion
Copy == Versions \cup {None}

VARIABLES
  doc,        \* the document upstream, or None
  published,  \* how many versions there have been
  room,       \* c.fetchSem has a place for its refresh
  mem, fresh, \* n.mem, and whether its copy is within its time
  neg,        \* c.neg holds a 404 for it
  saved,      \* the copy in the bucket
  running,    \* n.flights: who started the refresh that is registered
  refresh,    \* the goroutine each request starts, should it start one
  save,       \* what the goroutine each refresh may start is saving
  req,        \* the requests
  events      \* how many events of the surroundings there were

outside == <<doc, published, room>>
memory == <<mem, fresh, neg>>
flights == <<running, refresh>>
vars == <<outside, memory, saved, flights, save, req, events>>

Answers == {"none", "hit", "miss", "stale", "404", "502", "left"}
Result == [how: Answers, ver: Copy]
Nothing == [how |-> "none", ver |-> None]

(* "ask" has yet to hear from upstream, "keep" has; "landed" is done.      *)
Working == {"queue", "load", "ask", "keep", "return"}
Refresh == [pc: Working \cup {"none", "landed"}, prev: Copy,
            got: {"none", "304", "200", "404", "error"}, new: Copy,
            res: Result, since: Copy]
Request == [pc: {"idle", "lookup", "refresh", "wait", "done"}, prev: Copy,
            on: Reqs \cup {NoReq}, ans: Result]

(* What is in memory and how old it is go together; the rest is a type.     *)
TypeOK ==
  /\ doc \in Copy /\ published \in 0 .. MaxVersion /\ room \in BOOLEAN
  /\ mem \in Copy /\ fresh \in BOOLEAN /\ neg \in BOOLEAN /\ saved \in Copy
  /\ fresh => mem # None
  /\ running \in Reqs \cup {NoReq}
  /\ refresh \in [Reqs -> Refresh]
  /\ save \in [Reqs -> Copy]
  /\ req \in [Reqs -> Request]
  /\ events \in 0 .. MaxEvents

Init ==
  /\ doc = None /\ published = 0 /\ room = TRUE
  /\ mem = None /\ fresh = FALSE /\ neg = FALSE /\ saved = None
  /\ running = NoReq
  /\ refresh = [r \in Reqs |-> [pc |-> "none", prev |-> None, got |-> "none",
                                new |-> None, res |-> Nothing, since |-> None]]
  /\ save = [r \in Reqs |-> None]
  /\ req = [r \in Reqs |-> [pc |-> "idle", prev |-> None, on |-> NoReq, ans |-> Nothing]]
  /\ events = 0

-----------------------------------------------------------------------------
(* The request: packument and refresh.                                     *)

Answer(r, how, v) ==
  req' = [req EXCEPT ![r].pc = "done", ![r].ans = [how |-> how, ver |-> v]]

Arrive(r) ==
  /\ req[r].pc = "idle"
  /\ IF neg THEN Answer(r, "404", None) ELSE req' = [req EXCEPT ![r].pc = "lookup"]
  /\ UNCHANGED <<outside, memory, saved, flights, save, events>>

(* A fresh copy is served; any other is what the refresh is given.         *)
Lookup(r) ==
  /\ req[r].pc = "lookup"
  /\ IF mem # None /\ fresh
     THEN Answer(r, "hit", mem)
     ELSE req' = [req EXCEPT ![r].pc = "refresh", ![r].prev = mem]
  /\ UNCHANGED <<outside, memory, saved, flights, save, events>>

(* Under n.flights.mu: start the goroutine, or wait for the one there is.  *)
JoinOrStart(r) ==
  /\ req[r].pc = "refresh"
  /\ running' = IF running = NoReq THEN r ELSE running
  /\ refresh' = IF running # NoReq THEN refresh
                ELSE [refresh EXCEPT ![r].pc = "queue", ![r].prev = req[r].prev,
                                     ![r].since = doc]
  /\ req' = [req EXCEPT ![r].pc = "wait", ![r].on = running']
  /\ UNCHANGED <<outside, memory, saved, save, events>>

GetsResult(r) ==
  /\ req[r].pc = "wait" /\ refresh[req[r].on].pc = "landed"
  /\ LET res == refresh[req[r].on].res IN Answer(r, res.how, res.ver)
  /\ UNCHANGED <<outside, memory, saved, flights, save, events>>

(* Mutant: whoever started the refresh takes it along.                     *)
LeavesWithRefresh(r) ==
  /\ req[r].pc = "wait"
  /\ Answer(r, "left", None)
  /\ running' = IF running = r THEN NoReq ELSE running
  /\ UNCHANGED <<outside, memory, saved, refresh, save, events>>

(* The client goes away; the refresh goes on.                              *)
Leaves(r) ==
  /\ req[r].pc = "wait"
  /\ Answer(r, "left", None)
  /\ UNCHANGED <<outside, memory, saved, flights, save, events>>

-----------------------------------------------------------------------------
(* The goroutine: fetchPackument.                                          *)

Event == events < MaxEvents /\ events' = events + 1

(* The process is stopping, and there will be no slot.                     *)
GivesUp(r) ==
  /\ Event /\ refresh[r].pc = "queue"
  /\ refresh' = [refresh EXCEPT ![r].pc = "return", ![r].res = [how |-> "502", ver |-> None]]
  /\ UNCHANGED <<outside, memory, saved, running, save, req>>

(* It has a fetch slot, and looks in the bucket if memory had no copy.     *)
Begin(r) ==
  /\ refresh[r].pc = "queue" /\ room
  /\ refresh' = [refresh EXCEPT ![r].pc = IF refresh[r].prev = None THEN "load" ELSE "ask"]
  /\ UNCHANGED <<outside, memory, saved, running, save, req, events>>

(* A copy that cannot be read, or is none, is no copy.                     *)
Load(r) ==
  /\ refresh[r].pc = "load"
  /\ \E v \in {saved, None} :
       refresh' = [refresh EXCEPT ![r].pc = "ask", ![r].prev = v]
  /\ UNCHANGED <<outside, memory, saved, running, save, req, events>>

(* What upstream says to a request that carries the validator of prev,     *)
(* retries included: an error is any other answer, a body that breaks off  *)
(* or is too long, or silence.                                             *)
Upstream(prev) ==
  {<<"error", None>>}
    \cup (IF doc = None THEN {<<"404", None>>} ELSE {<<"200", doc>>})
    \cup (IF doc # None /\ doc = prev THEN {<<"304", doc>>} ELSE {})

Ask(r) ==
  /\ refresh[r].pc = "ask"
  /\ \E a \in Upstream(refresh[r].prev) :
       refresh' = [refresh EXCEPT ![r].pc = "keep", ![r].got = a[1], ![r].new = a[2]]
  /\ UNCHANGED <<outside, memory, saved, running, save, req, events>>

(* n.mem.Put: a copy too large is not kept, and what was there stays.      *)
Keeps(v) ==
  IF v \in Big THEN UNCHANGED <<mem, fresh>> ELSE mem' = v /\ fresh' = TRUE

Returns(r, how, v) ==
  refresh' = [refresh EXCEPT ![r].pc = "return", ![r].res = [how |-> how, ver |-> v]]

KeepCurrent(r) ==
  /\ refresh[r].pc = "keep" /\ refresh[r].got = "304"
  /\ Keeps(refresh[r].prev) /\ Returns(r, "miss", refresh[r].prev)
  /\ UNCHANGED <<outside, neg, saved, running, save, req, events>>

(* A document that changed is saved, by a goroutine of its own.            *)
KeepNew(r) ==
  /\ refresh[r].pc = "keep" /\ refresh[r].got = "200"
  /\ Keeps(refresh[r].new) /\ Returns(r, "miss", refresh[r].new)
  /\ save' = IF refresh[r].new = refresh[r].prev THEN save
             ELSE [save EXCEPT ![r] = refresh[r].new]
  /\ UNCHANGED <<outside, neg, saved, running, req, events>>

KeepNotFound(r) ==
  /\ refresh[r].pc = "keep" /\ refresh[r].got = "404"
  /\ neg' = TRUE /\ Returns(r, "404", None)
  /\ UNCHANGED <<outside, mem, fresh, saved, running, save, req, events>>

(* Mutant: the copy is passed off as what upstream has.                    *)
FallBackSilently(r) ==
  /\ refresh[r].pc = "keep" /\ refresh[r].got = "error"
  /\ IF refresh[r].prev = None
     THEN Returns(r, "502", None) /\ UNCHANGED <<mem, fresh>>
     ELSE Keeps(refresh[r].prev) /\ Returns(r, "miss", refresh[r].prev)
  /\ UNCHANGED <<outside, neg, saved, running, save, req, events>>

FallBack(r) ==
  /\ refresh[r].pc = "keep" /\ refresh[r].got = "error"
  /\ IF refresh[r].prev = None
     THEN Returns(r, "502", None) /\ UNCHANGED <<mem, fresh>>
     ELSE Keeps(refresh[r].prev) /\ Returns(r, "stale", refresh[r].prev)
  /\ UNCHANGED <<outside, neg, saved, running, save, req, events>>

(* What its goroutine knew is gone with it; the result stays.              *)
Landed(f) ==
  [f EXCEPT !.pc = "landed", !.prev = None, !.got = "none", !.new = None]

(* Mutant: a refresh that failed is forgotten without a word.              *)
LandIfAnswered(r) ==
  /\ refresh[r].pc = "return" /\ refresh[r].res.how # "502"
  /\ refresh' = [refresh EXCEPT ![r] = Landed(@)]
  /\ running' = NoReq
  /\ UNCHANGED <<outside, memory, saved, save, req, events>>

(* Deleted from n.flights, and closed.                                     *)
Land(r) ==
  /\ refresh[r].pc = "return"
  /\ refresh' = [refresh EXCEPT ![r] = Landed(@)]
  /\ running' = NoReq
  /\ UNCHANGED <<outside, memory, saved, save, req, events>>

(* The goroutine of save: the copy is stored, or the store fails, perhaps  *)
(* having stored it.                                                       *)
Save(r) ==
  /\ save[r] # None
  /\ saved' \in {saved, save[r]}
  /\ save' = [save EXCEPT ![r] = None]
  /\ UNCHANGED <<outside, memory, flights, req, events>>

-----------------------------------------------------------------------------
(* The surroundings.                                                       *)

Publish ==
  /\ published < MaxVersion
  /\ published' = published + 1 /\ doc' = published'
  /\ UNCHANGED <<room, memory, saved, flights, save, req, events>>

Unpublish ==
  /\ Event /\ doc # None /\ doc' = None
  /\ UNCHANGED <<published, room, memory, saved, flights, save, req>>

(* -npm-fresh, or failureWindow after an outage, has passed.               *)
Age ==
  /\ Event /\ fresh /\ fresh' = FALSE
  /\ UNCHANGED <<outside, mem, neg, saved, flights, save, req>>

NegExpires ==
  /\ Event /\ neg /\ neg' = FALSE
  /\ UNCHANGED <<outside, mem, fresh, saved, flights, save, req>>

Evict ==
  /\ Event /\ mem # None /\ mem' = None /\ fresh' = FALSE
  /\ UNCHANGED <<outside, neg, saved, flights, save, req>>

(* Another replica saves a version it has read at some time, or the        *)
(* bucket's lifecycle expires the copy.                                    *)
BucketChanges ==
  /\ Event /\ saved' \in (0 .. published) \ {saved}
  /\ UNCHANGED <<outside, memory, flights, save, req>>

(* Other fetches take the last slot, or give one back.  Nothing says when: *)
(* a leader whose client does not read keeps its own (PullThrough).        *)
SlotsChange ==
  /\ room' = ~room
  /\ UNCHANGED <<doc, published, memory, saved, flights, save, req, events>>

Surroundings ==
  \/ Publish \/ Unpublish \/ Age \/ NegExpires \/ Evict \/ BucketChanges
  \/ SlotsChange

Handle(r) == Arrive(r) \/ Lookup(r) \/ JoinOrStart(r) \/ GetsResult(r)

Goes(r) ==
  \/ Begin(r) \/ Load(r) \/ Ask(r)
  \/ KeepCurrent(r) \/ KeepNew(r) \/ KeepNotFound(r) \/ FallBack(r) \/ Land(r)

Next ==
  \/ \E r \in Reqs : Handle(r) \/ Leaves(r) \/ Goes(r) \/ GivesUp(r) \/ Save(r)
  \/ Surroundings

Spec == Init /\ [][Next]_vars

(* Handlers and goroutines are run by the scheduler, and upstream answers  *)
(* or its timeouts do.  Go hands a place of a channel that comes free to   *)
(* the sender that has waited longest, so a refresh in the queue gets one  *)
(* if places keep coming free; that they do is nobody's promise, nor are   *)
(* publishing, ageing and leaving.                                         *)
FairSpec ==
  Spec /\ \A r \in Reqs :
            WF_vars(Handle(r)) /\ WF_vars(Goes(r)) /\ SF_vars(Begin(r))

-----------------------------------------------------------------------------
(* However requests come and go, one refresh of the packument is at work   *)
(* at a time (flightGroup: "one refresh per key however many requests ask  *)
(* for it"), and it is the one that is registered.                         *)
OneRefresh == \A r \in Reqs : refresh[r].pc \in Working => running = r

(* A version in memory gives way to an older one only where a refresh fell *)
(* back on the copy its request had seen: refreshes do not overtake each   *)
(* other.                                                                  *)
OlderOnlyInAnOutage ==
  [][mem # None /\ mem' # None /\ mem' < mem =>
       \E r \in Reqs : FallBack(r)]_vars

(* An answer that is not called stale is no older than the document was    *)
(* when the refresh it waited for began.                                   *)
RefreshIsCurrent ==
  \A r \in Reqs : req[r].ans.how = "miss" =>
    req[r].ans.ver >= refresh[req[r].on].since

(* The request waits for a refresh that waits for a fetch slot, without a  *)
(* timeout.                                                                *)
Queues(r) == req[r].pc = "wait" /\ refresh[req[r].on].pc = "queue" /\ ~room

(* Every request is answered, whoever leaves and whatever fails, but for   *)
(* one that waits to the end for a fetch slot that never comes free again. *)
EveryRequestAnswered ==
  \A r \in Reqs : (req[r].pc # "idle" ~> req[r].pc = "done") \/ <>[]Queues(r)
=============================================================================
