--------------------------- MODULE NpmPackument_proofs ---------------------------
(***************************************************************************)
(* What holds of NpmPackument for any number of requests, versions and     *)
(* events: one refresh at a time, refreshes that do not overtake each      *)
(* other, and answers that are as new as they claim.                       *)
(***************************************************************************)
EXTENDS NpmPackument, TLAPS

(* Upstream has the newest version or none, nobody anything newer.         *)
UpstreamKnown == doc \in {None, published} /\ mem <= published /\ saved <= published

(* A request starts one refresh at most, and waits for one that exists.    *)
RequestKnown(r) ==
  /\ refresh[r].pc # "none" => req[r].pc \in {"wait", "done"}
  /\ req[r].pc = "wait" => req[r].on \in Reqs
  /\ req[r].prev <= published
  /\ req[r].ans.how = "miss" => /\ req[r].on \in Reqs
                                /\ refresh[req[r].on].pc = "landed"
                                /\ req[r].ans.ver >= refresh[req[r].on].since

(* What a refresh has heard is no older than what memory has, nor than     *)
(* what upstream had when it began: no other can have come between.        *)
RefreshKnown(r) ==
  /\ refresh[r].since <= published /\ refresh[r].prev <= published
  /\ refresh[r].new <= published /\ save[r] <= published
  /\ refresh[r].pc = "keep" /\ refresh[r].got \in {"200", "304"} =>
       /\ refresh[r].new # None
       /\ refresh[r].new >= mem /\ refresh[r].new >= refresh[r].since
  /\ refresh[r].pc = "keep" /\ refresh[r].got = "304" => refresh[r].prev = refresh[r].new
  /\ refresh[r].pc \in {"return", "landed"} /\ refresh[r].res.how = "miss" =>
       refresh[r].res.ver >= refresh[r].since

IInv ==
  /\ TypeOK /\ UpstreamKnown /\ OneRefresh
  /\ \A r \in Reqs : RequestKnown(r) /\ RefreshKnown(r)

-----------------------------------------------------------------------------
(* The versions are numbers in order.                                      *)
LEMMA Numbers == Copy = 0 .. MaxVersion /\ MaxVersion \in Nat /\ Nothing \in Result
BY NpmAssumption DEF Copy, Versions, None, Nothing, Result, Answers

LEMMA InitInv == Init => IInv
<1> SUFFICES ASSUME Init PROVE IInv
  OBVIOUS
<1>1. refresh \in [Reqs -> Refresh]
  BY Numbers DEF Init, Refresh, Working, None
<1>2. req \in [Reqs -> Request]
  BY Numbers DEF Init, Request, None
<1>3. None \in Copy /\ 0 \in 0 .. MaxVersion /\ 0 \in 0 .. MaxEvents
  BY Numbers, NpmAssumption DEF None
<1>4. save \in [Reqs -> Copy] /\ running \in Reqs \cup {NoReq}
  BY <1>3 DEF Init
<1>5. TypeOK
  BY <1>1, <1>2, <1>3, <1>4 DEF Init, TypeOK
<1>6. UpstreamKnown /\ OneRefresh
  BY DEF Init, UpstreamKnown, OneRefresh, Working, None
<1>7. \A r \in Reqs : RequestKnown(r) /\ RefreshKnown(r)
  BY DEF Init, RequestKnown, RefreshKnown, Nothing, None
<1> QED
  BY <1>5, <1>6, <1>7 DEF IInv

(* A request that is answered keeps its type, and its refresh.             *)
LEMMA AnswerType ==
  ASSUME TypeOK, NEW r \in Reqs, NEW h \in Answers, NEW v \in Copy, Answer(r, h, v)
  PROVE  /\ req' \in [Reqs -> Request]
         /\ \A q \in Reqs : q # r => req'[q] = req[q]
         /\ req'[r].pc = "done" /\ req'[r].on = req[r].on /\ req'[r].prev = req[r].prev
         /\ req'[r].ans = [how |-> h, ver |-> v]
<1>1. [how |-> h, ver |-> v] \in Result
  BY DEF Result
<1> QED
  BY <1>1 DEF TypeOK, Answer, Request

(* A request's step that starts no refresh.                                *)
LEMMA RequestInv ==
  ASSUME IInv, NEW r \in Reqs, Arrive(r) \/ Lookup(r) \/ GetsResult(r) \/ Leaves(r)
  PROVE  IInv'
<1> USE DEF IInv, outside, memory, flights
<1>1. UNCHANGED <<doc, published, room, mem, fresh, neg, saved, running, refresh, save, events>>
  BY DEF Arrive, Lookup, GetsResult, Leaves
<1>2. ASSUME NEW h \in Answers, NEW v \in Copy, Answer(r, h, v), refresh[r].pc # "none" => req[r].pc = "wait",
             h = "miss" => /\ req[r].on \in Reqs /\ refresh[req[r].on].pc = "landed"
                           /\ v >= refresh[req[r].on].since
      PROVE  req' \in [Reqs -> Request] /\ (\A q \in Reqs : q # r => req'[q] = req[q]) /\ RequestKnown(r)'
  <2>1. /\ req' \in [Reqs -> Request] /\ \A q \in Reqs : q # r => req'[q] = req[q]
        /\ req'[r].pc = "done" /\ req'[r].on = req[r].on /\ req'[r].prev = req[r].prev
        /\ req'[r].ans = [how |-> h, ver |-> v]
    BY <1>2, AnswerType
  <2> QED
    BY <1>1, <1>2, <2>1 DEF RequestKnown
<1>3. ASSUME NEW p \in {"lookup", "refresh"}, NEW v \in Copy, v <= published, refresh[r].pc = "none", req[r].pc \in {"idle", "lookup"},
             req' \in {[req EXCEPT ![r].pc = p], [req EXCEPT ![r].pc = p, ![r].prev = v]}
      PROVE  req' \in [Reqs -> Request] /\ (\A q \in Reqs : q # r => req'[q] = req[q]) /\ RequestKnown(r)'
  <2>1. /\ req' \in [Reqs -> Request] /\ \A q \in Reqs : q # r => req'[q] = req[q]
        /\ req'[r].pc = p /\ req'[r].prev \in {v, req[r].prev} /\ req'[r].on = req[r].on /\ req'[r].ans = req[r].ans
    BY <1>3 DEF TypeOK, Request
  <2> QED
    BY <1>1, <1>3, <2>1 DEF RequestKnown
<1>4. None \in Copy /\ mem \in Copy /\ None <= published /\ mem <= published /\ {"404", "hit", "left"} \subseteq Answers
  BY Numbers DEF TypeOK, Answers, None, UpstreamKnown
<1>5. req' \in [Reqs -> Request] /\ (\A q \in Reqs : q # r => req'[q] = req[q]) /\ RequestKnown(r)'
  <2>1. CASE Arrive(r)
    BY <1>2, <1>3, <1>4, <2>1 DEF Arrive, RequestKnown
  <2>2. CASE Lookup(r)
    BY <1>2, <1>3, <1>4, <2>2 DEF Lookup, RequestKnown
  <2>3. CASE GetsResult(r)
    <3> DEFINE res == refresh[req[r].on].res
    <3>1. req[r].pc = "wait" /\ req[r].on \in Reqs /\ refresh[req[r].on].pc = "landed"
          /\ Answer(r, res.how, res.ver)
      BY <2>3 DEF GetsResult, RequestKnown
    <3>2. res.how \in Answers /\ res.ver \in Copy
          /\ (res.how = "miss" => res.ver >= refresh[req[r].on].since)
      BY <3>1 DEF TypeOK, Refresh, Result, RefreshKnown
    <3> HIDE DEF res
    <3> QED
      BY <1>2, <3>1, <3>2
  <2>4. CASE Leaves(r)
    BY <1>2, <1>4, <2>4 DEF Leaves
  <2> QED
    BY <2>1, <2>2, <2>3, <2>4
<1>6. \A q \in Reqs : RequestKnown(q)' /\ RefreshKnown(q)'
  BY <1>1, <1>5 DEF RequestKnown, RefreshKnown
<1> QED
  BY <1>1, <1>5, <1>6 DEF TypeOK, UpstreamKnown, OneRefresh

(* A refresh begins only where none is at work, and has no past.           *)
LEMMA JoinOrStartInv ==
  ASSUME IInv, NEW r \in Reqs, JoinOrStart(r)
  PROVE  IInv'
<1> USE DEF IInv, outside, memory
<1>1. /\ req[r].pc = "refresh" /\ refresh[r].pc = "none"
      /\ running' \in Reqs
      /\ req' = [req EXCEPT ![r].pc = "wait", ![r].on = running']
      /\ UNCHANGED <<doc, published, room, mem, fresh, neg, saved, save, events>>
  BY DEF JoinOrStart, RequestKnown, TypeOK
<1>2. req' \in [Reqs -> Request]
  BY <1>1 DEF TypeOK, Request
<1>3. CASE running # NoReq
  <2>1. UNCHANGED <<running, refresh>>
    BY <1>3 DEF JoinOrStart
  <2>2. \A q \in Reqs : RequestKnown(q)' /\ RefreshKnown(q)'
    BY <1>1, <2>1 DEF RequestKnown, RefreshKnown, TypeOK, Request
  <2> QED
    BY <1>1, <1>2, <2>1, <2>2 DEF TypeOK, UpstreamKnown, OneRefresh
<1>4. CASE running = NoReq
  <2>1. running' = r /\ refresh' = [refresh EXCEPT ![r].pc = "queue", ![r].prev = req[r].prev,
                                                   ![r].since = doc]
    BY <1>4 DEF JoinOrStart
  <2>2. refresh' \in [Reqs -> Refresh]
    <3>1. req[r].prev \in Copy /\ doc \in Copy
      BY DEF TypeOK, Request
    <3>2. [refresh[r] EXCEPT !.pc = "queue", !.prev = req[r].prev, !.since = doc] \in Refresh
      BY <3>1 DEF TypeOK, Refresh, Working
    <3> QED
      BY <2>1, <3>2 DEF TypeOK
  <2>3. OneRefresh'
    BY <1>4, <2>1, NpmAssumption DEF OneRefresh, TypeOK, Refresh
  <2>4. \A q \in Reqs : RequestKnown(q)'
    BY <1>1, <2>1 DEF RequestKnown, TypeOK, Request, Refresh
  <2>5. \A q \in Reqs : RefreshKnown(q)'
    <3>1. doc <= published
      BY Numbers DEF UpstreamKnown, TypeOK, None
    <3> QED
      BY <1>1, <2>1, <3>1 DEF RefreshKnown, TypeOK, Refresh
  <2> QED
    BY <1>1, <1>2, <2>1, <2>2, <2>3, <2>4, <2>5 DEF TypeOK, UpstreamKnown
<1> QED
  BY <1>3, <1>4

-----------------------------------------------------------------------------
(* What a step of the refresh of r is to the others: it alone is at work.  *)
LEMMA RefreshAlone ==
  ASSUME IInv, NEW r \in Reqs, refresh[r].pc \in Working, NEW f \in Refresh,
         f.pc \in Working, f.since = refresh[r].since, refresh' = [refresh EXCEPT ![r] = f],
         UNCHANGED <<doc, published, room, saved, running, req>>,
         mem' \in Copy, mem' <= published, fresh' \in BOOLEAN, neg' \in BOOLEAN,
         fresh' => mem' # None, save' \in [Reqs -> Copy], \A q \in Reqs \ {r} : save'[q] = save[q],
         events' \in 0 .. MaxEvents,
         RefreshKnown(r)'
  PROVE  IInv'
<1> USE DEF IInv
<1>1. refresh' \in [Reqs -> Refresh] /\ refresh'[r] = f
      /\ \A q \in Reqs \ {r} : refresh'[q] = refresh[q]
  BY DEF TypeOK
<1>2. \A q \in Reqs \ {r} : refresh[q].pc \notin Working
  BY DEF OneRefresh
<1>3. OneRefresh'
  BY <1>1 DEF OneRefresh
<1>4. \A q \in Reqs : RequestKnown(q)'
  BY <1>1 DEF RequestKnown, Working
<1>5. \A q \in Reqs : RefreshKnown(q)'
  BY <1>1, <1>2 DEF RefreshKnown, Working
<1> QED
  BY <1>1, <1>3, <1>4, <1>5 DEF TypeOK, UpstreamKnown

(* Until it has heard from upstream.                                       *)
LEMMA BeginInv ==
  ASSUME IInv, NEW r \in Reqs, GivesUp(r) \/ Begin(r) \/ Load(r)
  PROVE  IInv'
<1> USE DEF IInv, outside, memory
<1>1. PICK f \in Refresh : /\ f.pc \in {"return", "load", "ask"} /\ f.since = refresh[r].since
                           /\ f.prev <= published /\ f.new = refresh[r].new
                           /\ f.pc = "return" => f.res.how = "502"
                           /\ refresh' = [refresh EXCEPT ![r] = f]
  <2>1. [how |-> "502", ver |-> None] \in Result
    BY Numbers DEF Result, Answers, None
  <2>2. CASE GivesUp(r)
    <3> DEFINE f == [refresh[r] EXCEPT !.pc = "return", !.res = [how |-> "502", ver |-> None]]
    <3>1. f \in Refresh /\ f.pc = "return" /\ f.since = refresh[r].since /\ f.res.how = "502"
          /\ f.prev = refresh[r].prev /\ f.new = refresh[r].new
      BY <2>1 DEF TypeOK, Refresh, Working
    <3>2. refresh' = [refresh EXCEPT ![r] = f]
      BY <2>2 DEF GivesUp, TypeOK
    <3> QED
      BY <3>1, <3>2 DEF RefreshKnown
  <2>3. CASE Begin(r)
    <3> DEFINE p == IF refresh[r].prev = None THEN "load" ELSE "ask"
               f == [refresh[r] EXCEPT !.pc = p]
    <3>1. f \in Refresh /\ f.pc \in {"load", "ask"} /\ f.since = refresh[r].since
          /\ f.prev = refresh[r].prev /\ f.new = refresh[r].new
      BY DEF TypeOK, Refresh, Working
    <3>2. refresh' = [refresh EXCEPT ![r] = f]
      BY <2>3 DEF Begin, TypeOK
    <3> QED
      BY <3>1, <3>2 DEF RefreshKnown
  <2>4. CASE Load(r)
    <3>1. PICK v \in {saved, None} : refresh' = [refresh EXCEPT ![r].pc = "ask", ![r].prev = v]
      BY <2>4 DEF Load
    <3>2. v \in Copy /\ v <= published
      BY <3>1, Numbers DEF TypeOK, UpstreamKnown, None
    <3> DEFINE f == [refresh[r] EXCEPT !.pc = "ask", !.prev = v]
    <3>3. f \in Refresh /\ f.pc = "ask" /\ f.since = refresh[r].since
          /\ f.prev = v /\ f.new = refresh[r].new
      BY <3>2 DEF TypeOK, Refresh, Working
    <3>4. refresh' = [refresh EXCEPT ![r] = f]
      BY <3>1 DEF TypeOK
    <3> QED
      BY <3>2, <3>3, <3>4 DEF RefreshKnown
  <2> QED
    BY <2>2, <2>3, <2>4
<1>2. refresh[r].pc \in Working /\ UNCHANGED <<doc, published, room, mem, fresh, neg, saved, running, save, req>>
      /\ events' \in 0 .. MaxEvents
  BY NpmAssumption DEF GivesUp, Begin, Load, Event, Working, TypeOK
<1>3. RefreshKnown(r)'
  BY <1>1, <1>2 DEF RefreshKnown, TypeOK
<1> QED
  BY <1>1, <1>2, <1>3, RefreshAlone DEF TypeOK, UpstreamKnown, Working

(* Whatever upstream says, a version it names is its newest.               *)
LEMMA AskInv ==
  ASSUME IInv, NEW r \in Reqs, Ask(r)
  PROVE  IInv'
<1> USE DEF IInv, outside, memory
<1>1. PICK a \in Upstream(refresh[r].prev) :
        refresh' = [refresh EXCEPT ![r].pc = "keep", ![r].got = a[1], ![r].new = a[2]]
  BY DEF Ask
<1>2. /\ a[2] <= published /\ a[1] \in {"304", "200", "404", "error"} /\ a[2] \in Copy
      /\ a[1] \in {"200", "304"} => a[2] = published /\ published # None
      /\ a[1] = "304" => a[2] = refresh[r].prev
  BY <1>1, Numbers DEF Upstream, UpstreamKnown, TypeOK, None
<1> DEFINE f == [refresh[r] EXCEPT !.pc = "keep", !.got = a[1], !.new = a[2]]
<1>3. f \in Refresh /\ f.pc = "keep" /\ f.since = refresh[r].since /\ f.got = a[1] /\ f.new = a[2]
      /\ f.prev = refresh[r].prev
  BY <1>2 DEF TypeOK, Refresh, Working
<1>4. refresh' = [refresh EXCEPT ![r] = f]
  BY <1>1 DEF TypeOK
<1>5. refresh[r].pc \in Working
      /\ UNCHANGED <<doc, published, room, mem, fresh, neg, saved, running, save, req, events>>
  BY DEF Ask, Working
<1> HIDE DEF f
<1>6. refresh'[r] = f
  BY <1>4 DEF TypeOK
<1>7. RefreshKnown(r)'
  <2>1. /\ refresh[r].since <= published /\ refresh[r].prev <= published /\ save[r] <= published
        /\ mem <= published /\ a[2] <= published /\ published \in Nat
    BY <1>2, Numbers DEF RefreshKnown, UpstreamKnown, TypeOK
  <2> QED
    BY <1>2, <1>3, <1>5, <1>6, <2>1 DEF RefreshKnown
<1> QED
  BY <1>3, <1>4, <1>5, <1>7, RefreshAlone DEF TypeOK, UpstreamKnown, Working

(* What is kept in memory is nothing, or is a version that exists.         *)
LEMMA KeepsType ==
  ASSUME TypeOK, NEW v \in Copy, v # None, v <= published, mem <= published, Keeps(v)
  PROVE  mem' \in Copy /\ mem' <= published /\ fresh' \in BOOLEAN /\ (fresh' => mem' # None)
BY DEF Keeps, TypeOK

(* A refresh that has heard from upstream, or will not, settles its result.*)
LEMMA ReturnsInv ==
  ASSUME TypeOK, NEW r \in Reqs, NEW h \in Answers, NEW v \in Copy, Returns(r, h, v)
  PROVE  \E f \in Refresh : /\ refresh' = [refresh EXCEPT ![r] = f]
                            /\ f.pc = "return" /\ f.since = refresh[r].since
                            /\ f.res = [how |-> h, ver |-> v] /\ refresh'[r] = f
                            /\ f.prev = refresh[r].prev /\ f.new = refresh[r].new
<1> DEFINE f == [refresh[r] EXCEPT !.pc = "return", !.res = [how |-> h, ver |-> v]]
<1>1. [how |-> h, ver |-> v] \in Result
  BY DEF Result
<1>2. f \in Refresh /\ f.pc = "return" /\ f.since = refresh[r].since /\ f.res = [how |-> h, ver |-> v]
      /\ f.prev = refresh[r].prev /\ f.new = refresh[r].new
  BY <1>1 DEF TypeOK, Refresh, Working
<1>3. refresh' = [refresh EXCEPT ![r] = f] /\ refresh'[r] = f
  BY DEF Returns, TypeOK
<1> QED
  BY <1>2, <1>3

(* KeepCurrent, KeepNew, KeepNotFound and FallBack.                        *)
LEMMA KeepInv ==
  ASSUME IInv, NEW r \in Reqs, KeepCurrent(r) \/ KeepNew(r) \/ KeepNotFound(r) \/ FallBack(r)
  PROVE  IInv'
<1> USE DEF IInv, outside
<1>1. /\ refresh[r].pc = "keep" /\ refresh[r].pc \in Working
      /\ UNCHANGED <<doc, published, room, saved, running, req, events>>
  BY DEF KeepCurrent, KeepNew, KeepNotFound, FallBack, Working
<1>2. /\ refresh[r].prev \in Copy /\ refresh[r].new \in Copy /\ None \in Copy
      /\ {"miss", "404", "502", "stale"} \subseteq Answers
      /\ refresh[r].prev <= published /\ refresh[r].new <= published /\ mem <= published
  BY Numbers DEF TypeOK, Refresh, Answers, None, RefreshKnown, UpstreamKnown
<1>3. \E h \in Answers, v \in Copy :
        /\ Returns(r, h, v) /\ (h = "miss" => v >= refresh[r].since)
        /\ (Keeps(v) /\ v # None) \/ UNCHANGED <<mem, fresh>>
        /\ v <= published
        /\ save' \in {save, [save EXCEPT ![r] = v]} /\ neg' \in {neg, TRUE}
  <2>1. None <= published
    BY Numbers DEF TypeOK, None
  <2>2. CASE KeepCurrent(r)
    <3>1. refresh[r].prev >= refresh[r].since /\ refresh[r].prev # None
      BY <2>2 DEF KeepCurrent, RefreshKnown
    <3> QED
      BY <1>2, <2>2, <3>1 DEF KeepCurrent
  <2>3. CASE KeepNew(r)
    <3>1. refresh[r].new >= refresh[r].since /\ refresh[r].new # None
      BY <2>3 DEF KeepNew, RefreshKnown
    <3> QED
      BY <1>2, <2>3, <3>1 DEF KeepNew
  <2>4. CASE KeepNotFound(r)
    BY <1>2, <2>1, <2>4 DEF KeepNotFound
  <2>5. CASE FallBack(r)
    BY <1>2, <2>1, <2>5 DEF FallBack, memory
  <2> QED
    BY <2>2, <2>3, <2>4, <2>5
<1>4. PICK h \in Answers, v \in Copy :
        /\ Returns(r, h, v) /\ (h = "miss" => v >= refresh[r].since)
        /\ (Keeps(v) /\ v # None) \/ UNCHANGED <<mem, fresh>>
        /\ v <= published
        /\ save' \in {save, [save EXCEPT ![r] = v]} /\ neg' \in {neg, TRUE}
  BY <1>3
<1>5. PICK f \in Refresh : /\ refresh' = [refresh EXCEPT ![r] = f] /\ refresh'[r] = f
                           /\ f.pc = "return" /\ f.since = refresh[r].since
                           /\ f.res = [how |-> h, ver |-> v]
                           /\ f.prev = refresh[r].prev /\ f.new = refresh[r].new
  BY <1>4, ReturnsInv
<1>6. mem' \in Copy /\ mem' <= published /\ fresh' \in BOOLEAN /\ (fresh' => mem' # None)
  <2>1. CASE Keeps(v) /\ v # None
    BY <1>2, <1>4, <2>1, KeepsType
  <2>2. CASE UNCHANGED <<mem, fresh>>
    BY <1>2, <2>2 DEF TypeOK
  <2> QED
    BY <1>4, <2>1, <2>2
<1>7. save' \in [Reqs -> Copy] /\ save'[r] <= published /\ \A q \in Reqs \ {r} : save'[q] = save[q]
  BY <1>4 DEF TypeOK, RefreshKnown
<1>8. neg' \in BOOLEAN
  BY <1>4 DEF TypeOK
<1>9. RefreshKnown(r)'
  BY <1>1, <1>2, <1>4, <1>5, <1>7 DEF RefreshKnown
<1> QED
  BY <1>1, <1>5, <1>6, <1>7, <1>8, <1>9, RefreshAlone DEF TypeOK, Working

(* The refresh that lands is the one that is registered, so no other is    *)
(* left at work.                                                           *)
LEMMA LandInv ==
  ASSUME IInv, NEW r \in Reqs, Land(r)
  PROVE  IInv'
<1> USE DEF IInv, outside, memory
<1> DEFINE f == Landed(refresh[r])
<1>1. /\ refresh[r].pc = "return" /\ refresh' = [refresh EXCEPT ![r] = f] /\ running' = NoReq
      /\ UNCHANGED <<doc, published, room, mem, fresh, neg, saved, save, req, events>>
  BY DEF Land
<1>2. f \in Refresh /\ f.pc = "landed" /\ f.since = refresh[r].since /\ f.res = refresh[r].res
      /\ f.prev = None /\ f.new = None
  <2>1. None \in Copy /\ refresh[r] \in Refresh
    BY Numbers DEF TypeOK, None
  <2> QED
    BY <2>1 DEF Landed, Refresh
<1> HIDE DEF f
<1>3. refresh' \in [Reqs -> Refresh] /\ refresh'[r] = f /\ \A q \in Reqs \ {r} : refresh'[q] = refresh[q]
  BY <1>1, <1>2 DEF TypeOK
<1>4. \A q \in Reqs : refresh'[q].pc \notin Working
  BY <1>1, <1>2, <1>3 DEF OneRefresh, Working
<1>5. \A q \in Reqs : RequestKnown(q)'
  BY <1>1, <1>2, <1>3 DEF RequestKnown
<1>6. None <= published
  BY Numbers DEF TypeOK, None
<1>7. \A q \in Reqs : RefreshKnown(q)'
  BY <1>1, <1>2, <1>3, <1>6 DEF RefreshKnown
<1> QED
  BY <1>1, <1>3, <1>4, <1>5, <1>7 DEF TypeOK, UpstreamKnown, OneRefresh

-----------------------------------------------------------------------------
(* A copy is saved, or upstream, time or another replica changes something.*)
LEMMA SurroundingsInv ==
  ASSUME IInv, Surroundings \/ \E r \in Reqs : Save(r)
  PROVE  IInv'
<1> USE DEF IInv, outside, memory, flights, Event
<1>1. UNCHANGED <<running, refresh, req>>
  BY DEF Surroundings, Publish, Unpublish, Age, NegExpires, Evict, BucketChanges, SlotsChange, Save
<1>2. /\ published' \in 0 .. MaxVersion /\ published <= published' /\ doc' \in {None, published'}
      /\ events' \in 0 .. MaxEvents
  BY Numbers, NpmAssumption
  DEF Surroundings, Publish, Unpublish, Age, NegExpires, Evict, BucketChanges, SlotsChange, Save, TypeOK, UpstreamKnown
<1>3. mem' \in {mem, None} /\ fresh' \in {fresh, FALSE} /\ neg' \in {neg, FALSE} /\ (fresh' => mem' # None)
  <2>1. fresh => mem # None
    BY DEF TypeOK
  <2>2. \/ UNCHANGED <<mem, fresh, neg>>
        \/ UNCHANGED <<mem, neg>> /\ fresh' = FALSE
        \/ UNCHANGED <<mem, fresh>> /\ neg' = FALSE
        \/ mem' = None /\ fresh' = FALSE /\ neg' = neg
    BY Zenon DEF Surroundings, Publish, Unpublish, Age, NegExpires, Evict, BucketChanges, SlotsChange, Save
  <2>3. CASE UNCHANGED <<mem, fresh, neg>>
    BY <2>1, <2>3
  <2>4. CASE UNCHANGED <<mem, neg>> /\ fresh' = FALSE
    BY <2>4
  <2>5. CASE UNCHANGED <<mem, fresh>> /\ neg' = FALSE
    BY <2>1, <2>5
  <2>6. CASE mem' = None /\ fresh' = FALSE /\ neg' = neg
    BY <2>6
  <2> QED
    BY <2>2, <2>3, <2>4, <2>5, <2>6
<1>4. /\ saved' \in Copy /\ saved' <= published'
      /\ save' \in [Reqs -> Copy] /\ \A q \in Reqs : save'[q] <= published'
  <2>1. CASE \E r \in Reqs : Save(r)
    <3>1. PICK r \in Reqs : Save(r)
      BY <2>1
    <3>2. saved' \in {saved, save[r]} /\ save' = [save EXCEPT ![r] = None] /\ published' = published
      BY <3>1 DEF Save
    <3> QED
      BY <3>2, Numbers DEF TypeOK, UpstreamKnown, RefreshKnown, None
  <2>2. CASE Surroundings
    <3>1. save' = save /\ (saved' = saved \/ saved' \in 0 .. published)
      BY <2>2 DEF Surroundings, Publish, Unpublish, Age, NegExpires, Evict, BucketChanges, SlotsChange
    <3> QED
      BY <1>2, <3>1, Numbers DEF TypeOK, UpstreamKnown, RefreshKnown
  <2> QED
    BY <2>1, <2>2
<1>5. mem' \in Copy /\ mem' <= published' /\ mem' <= mem /\ fresh' \in BOOLEAN /\ neg' \in BOOLEAN
  <2>1. mem' \in {mem, None} /\ mem \in Nat /\ mem \in Copy /\ None \in Copy /\ published \in Nat
    BY <1>3, Numbers DEF TypeOK, None
  <2>2. mem' \in Copy /\ mem' <= published' /\ mem' <= mem
    BY <1>2, <2>1 DEF UpstreamKnown, None
  <2>3. fresh' \in BOOLEAN /\ neg' \in BOOLEAN
    BY <1>3, Zenon DEF TypeOK
  <2> QED
    BY <2>2, <2>3
<1>6. room' \in BOOLEAN
  <2>1. room' = room \/ SlotsChange
    BY DEF Surroundings, Publish, Unpublish, Age, NegExpires, Evict, BucketChanges, Save
  <2>2. CASE room' = room
    BY <2>2, Zenon DEF TypeOK
  <2>3. CASE SlotsChange
    BY <2>3, Zenon DEF SlotsChange
  <2> QED
    BY <2>1, <2>2, <2>3
<1>7. TypeOK' /\ UpstreamKnown' /\ OneRefresh'
  BY <1>1, <1>2, <1>3, <1>4, <1>5, <1>6, Numbers DEF TypeOK, UpstreamKnown, OneRefresh, None
<1>8. ASSUME NEW q \in Reqs PROVE RequestKnown(q)' /\ RefreshKnown(q)'
  <2>1. /\ req[q].prev \in Nat /\ refresh[q].since \in Nat /\ refresh[q].prev \in Nat
        /\ refresh[q].new \in Nat /\ published \in Nat /\ published' \in Nat /\ mem \in Nat /\ mem' \in Nat
    BY <1>2, <1>5, Numbers DEF TypeOK, Request, Refresh
  <2>2. RequestKnown(q) /\ RefreshKnown(q)
    OBVIOUS
  <2>3. RequestKnown(q)'
    BY <1>1, <1>2, <2>1, <2>2 DEF RequestKnown
  <2>4. RefreshKnown(q)'
    BY <1>1, <1>2, <1>4, <1>5, <2>1, <2>2 DEF RefreshKnown
  <2> QED
    BY <2>3, <2>4
<1> QED
  BY <1>7, <1>8

LEMMA NextInv == IInv /\ [Next]_vars => IInv'
<1>1. ASSUME IInv, UNCHANGED vars PROVE IInv'
  BY <1>1 DEF IInv, TypeOK, UpstreamKnown, OneRefresh, RequestKnown, RefreshKnown, vars, outside, memory, flights
<1>2. ASSUME IInv, Next PROVE IInv'
  BY <1>1, <1>2, RequestInv, JoinOrStartInv, BeginInv, AskInv, KeepInv, LandInv, SurroundingsInv
  DEF Next, Handle, Goes
<1> QED
  BY <1>1, <1>2

(* The invariant holds in every state of every behaviour.                  *)
THEOREM Invariance == Spec => []IInv
BY InitInv, NextInv, PTL DEF Spec

-----------------------------------------------------------------------------
(* One refresh of the packument is at work at a time, whatever the number  *)
(* of requests, and whoever of them leaves.                                *)
THEOREM OneRefreshTheorem == Spec => []OneRefresh
<1>1. IInv => OneRefresh
  BY DEF IInv
<1> QED
  BY <1>1, Invariance, PTL

(* An answer that is not called stale is no older than the document was    *)
(* when the refresh it waited for began.                                   *)
THEOREM CurrentTheorem == Spec => []RefreshIsCurrent
<1>1. IInv => RefreshIsCurrent
  BY DEF IInv, RequestKnown, RefreshIsCurrent
<1> QED
  BY <1>1, Invariance, PTL

(* Only a refresh that fell back puts an older version into memory.        *)
THEOREM OlderTheorem == Spec => OlderOnlyInAnOutage
<1>1. ASSUME IInv, Next, mem # None /\ mem' # None /\ mem' < mem
      PROVE  \E r \in Reqs : FallBack(r)
  <2>1. mem' # mem
    BY <1>1, Numbers DEF IInv, TypeOK
  <2>2. \E r \in Reqs : KeepCurrent(r) \/ KeepNew(r) \/ FallBack(r)
    BY <1>1, <2>1
    DEF Next, Handle, Goes, Arrive, Lookup, JoinOrStart, GetsResult, Leaves, GivesUp, Begin, Load,
        Ask, KeepNotFound, Land, Save, Surroundings, Publish, Unpublish, Age, NegExpires, Evict,
        BucketChanges, SlotsChange, vars, memory
  <2>3. ASSUME NEW r \in Reqs, KeepCurrent(r) \/ KeepNew(r) PROVE mem' >= mem
    <3>1. PICK v \in Copy : Keeps(v) /\ v >= mem
      BY <1>1, <2>3 DEF KeepCurrent, KeepNew, IInv, TypeOK, Refresh, RefreshKnown
    <3> QED
      BY <3>1, <1>1, Numbers DEF Keeps, IInv, TypeOK
  <2>4. mem \in Nat /\ mem' \in Nat
    BY <1>1, NextInv, Numbers DEF IInv, TypeOK
  <2>5. ASSUME NEW r \in Reqs, KeepCurrent(r) \/ KeepNew(r) PROVE FALSE
    BY <1>1, <2>3, <2>4, <2>5
  <2> QED
    BY <2>2, <2>5
<1>2. IInv /\ [Next]_vars => [mem # None /\ mem' # None /\ mem' < mem => \E r \in Reqs : FallBack(r)]_vars
  BY <1>1
<1> QED
  BY <1>2, Invariance, PTL DEF Spec, OlderOnlyInAnOutage
=============================================================================
