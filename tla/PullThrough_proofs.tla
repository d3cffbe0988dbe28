-------------------------- MODULE PullThrough_proofs --------------------------
(***************************************************************************)
(* Theorems about PullThrough, for any set of requests, keys and slots.    *)
(***************************************************************************)
EXTENDS PullThrough, FiniteSetTheorems, TLAPS

(* The other edits the steps make to a request.                            *)
LEMMA RequestEdits ==
  ASSUME NEW q \in Request, NEW p \in PCs
  PROVE  /\ \A f \in Reqs \cup {NoReq} : [q EXCEPT !.pc = p, !.on = f] \in Request
         /\ \A w \in {"unchecked", "none", "record"} :
              [q EXCEPT !.pc = p, !.want = w] \in Request
         /\ \A b \in Body \cup {Absent} : [q EXCEPT !.pc = p, !.body = b] \in Request
         /\ \A c \in {"reading", "stalled", "gone"} : [q EXCEPT !.client = c] \in Request
         /\ \A a \in Answers : [q EXCEPT !.pc = p, !.ans = a] \in Request
<1>1. \A f \in Reqs \cup {NoReq} : [q EXCEPT !.pc = p, !.on = f] \in Request
  BY DEF Request
<1>2. \A w \in {"unchecked", "none", "record"} :
        [q EXCEPT !.pc = p, !.want = w] \in Request
  BY DEF Request
<1>3. \A b \in Body \cup {Absent} : [q EXCEPT !.pc = p, !.body = b] \in Request
  BY DEF Request
<1>4. \A c \in {"reading", "stalled", "gone"} : [q EXCEPT !.client = c] \in Request
  BY DEF Request
<1>5. \A a \in Answers : [q EXCEPT !.pc = p, !.ans = a] \in Request
  BY DEF Request
<1>6. QED
  BY <1>1, <1>2, <1>3, <1>4, <1>5

(* Type correctness of the two ways most steps change a request.           *)
LEMMA GotoType ==
  ASSUME TypeOK, NEW r \in Reqs, NEW p \in PCs, Goto(r, p)
  PROVE  req' \in [Reqs -> Request]
BY DEF TypeOK, Goto, Request

LEMMA AnswerType ==
  ASSUME TypeOK, NEW r \in Reqs, NEW p \in PCs,
         NEW s \in Status, NEW b \in Body \cup {Absent}, Answer(r, s, b, p)
  PROVE  req' \in [Reqs -> Request]
<1>1. [status |-> s, body |-> b] \in Answers
  BY DEF Answers
<1>2. req \in [Reqs -> Request]
  BY DEF TypeOK
<1>3. \A a \in Answers : [req[r] EXCEPT !.pc = p, !.ans = a] \in Request
  BY <1>2, RequestEdits
<1>4. QED
  BY <1>1, <1>2, <1>3 DEF Answer

(* The initial states are typed.                                           *)
LEMMA InitType == Init => TypeOK
<1> SUFFICES ASSUME Init PROVE TypeOK
  OBVIOUS
<1>1. req \in [Reqs -> Request]
  <2>1. NoAnswer \in Answers
    BY DEF NoAnswer, Answers, Status
  <2>2. \A k \in Keys : FreshRequest(k) \in Request
    BY <2>1 DEF FreshRequest, Request, PCs
  <2>3. QED
    BY <2>2 DEF Init
<1>2. flight \in [Reqs -> Flight]
  BY DEF Init, Flight, FreshFlight
<1>3. QED
  BY <1>1, <1>2, MaxFetchesAssumption, MaxEventsAssumption DEF Init, TypeOK

-----------------------------------------------------------------------------
(* What a request's place says about its key and about what it has read:   *)
(* the part of the inductive invariant the code keeps in its control flow. *)
Fits(r) ==
  /\ req[r].pc \in {"mem", "read", "write", "put"} => Key(r) \in Small
  /\ req[r].pc \in {"presign", "proxy", "expect", "pass", "upload", "drain"}
       => Key(r) \in Large
  /\ req[r].pc \in {"write", "put"} => req[r].body \in Whole
  /\ req[r].pc \in {"fetch", "upload", "drain"} /\ Key(r) \in Nars
       => req[r].want # "unchecked"
  /\ req[r].pc \in {"upload", "drain"} => req[r].want # "none"
  /\ req[r].pc = "wait" => req[r].on \in Reqs
Shape == \A r \in Reqs : Fits(r)

Others(r) == \A q \in Reqs \ {r} : req'[q] = req[q]

(* A step of request r that moves only its request keeps the types.        *)
LEMMA GotoRest ==
  ASSUME TypeOK, NEW r \in Reqs, NEW p \in PCs, Goto(r, p), Rest
  PROVE  TypeOK'
BY GotoType DEF Rest, TypeOK, bucket, memory, fetches

LEMMA AnswerRest ==
  ASSUME TypeOK, NEW r \in Reqs, NEW p \in PCs,
         NEW s \in Status, NEW b \in Body \cup {Absent}, Answer(r, s, b, p), Rest
  PROVE  TypeOK'
BY AnswerType DEF Rest, TypeOK, bucket, memory, fetches

LEMMA KeyType == TypeOK => \A r \in Reqs : Key(r) \in Keys
BY DEF TypeOK, Request, Key

LEMMA IndexType ==
  ASSUME TypeOK, NEW k, NEW b
  PROVE  IndexAfter(k, b) \subseteq Nars
BY KeysAssumption DEF TypeOK, IndexAfter

(* ServeImmutable's steps are typed.                                       *)
LEMMA LookupType ==
  ASSUME TypeOK, Shape, NEW r \in Reqs, Lookup(r)
  PROVE  TypeOK'
<1> USE KeyType DEF At
<1>1. CASE LookupMem(r)
  <2>1. mem[Key(r)] \in Body \cup {Absent}
    BY <1>1 DEF LookupMem, Shape, Fits, TypeOK
  <2>2. req' \in [Reqs -> Request]
    BY <1>1, <2>1, GotoType, AnswerType DEF LookupMem, PCs, Status
  <2>3. index' \subseteq Nars
    BY <1>1, IndexType DEF LookupMem, TypeOK
  <2>4. QED
    BY <1>1, <2>2, <2>3 DEF LookupMem, TypeOK, memory, fetches
<1>2. CASE HeadStore(r)
  BY <1>2, GotoRest, AnswerRest DEF HeadStore, PCs, Status
<1>3. CASE GetStore(r)
  <2>1. store[Key(r)] \in Body \cup {Absent}
    BY DEF TypeOK
  <2>2. req' \in [Reqs -> Request]
    BY <1>3, <2>1, GotoType, AnswerType DEF GetStore, PCs, Status
  <2>3. index' \subseteq Nars
    BY <1>3, IndexType DEF GetStore, TypeOK
  <2>4. mem' \in [Small -> Body \cup {Absent}]
    BY <1>3, <2>1 DEF GetStore, TypeOK
  <2>5. QED
    BY <1>3, <2>2, <2>3, <2>4 DEF GetStore, TypeOK, fetches
<1>4. CASE StoreError(r)
  BY <1>4, AnswerRest DEF StoreError, PCs, Status
<1>5. CASE Presign(r)
  BY <1>5, AnswerRest DEF Presign, PCs, Status
<1>6. CASE ProxyHead(r)
  <2>1. PICK s \in {"headOk", "notFound", "upstreamError"} : Answer(r, s, Absent, "done")
    BY <1>6 DEF ProxyHead
  <2>2. QED
    BY <1>6, <2>1, AnswerRest DEF ProxyHead, PCs, Status
<1>7. QED
  BY <1>1, <1>2, <1>3, <1>4, <1>5, <1>6 DEF Lookup

(* pullThrough's steps are typed.                                          *)
LEMMA BoardType ==
  ASSUME TypeOK, Shape, NEW r \in Reqs, Board(r)
  PROVE  TypeOK'
<1> USE KeyType DEF At
<1>1. CASE Join(r)
  <2>1. req[r] \in Request /\ "wait" \in PCs
    BY DEF TypeOK, PCs
  <2>2. flights[Key(r)] \in Reqs \cup {NoReq}
    BY DEF TypeOK
  <2>3. req' \in [Reqs -> Request]
    BY <1>1, <2>1, <2>2, RequestEdits DEF Join, TypeOK
  <2>4. QED
    BY <1>1, <2>3 DEF Join, Rest, TypeOK, bucket, memory, fetches
<1>2. CASE Lead(r)
  <2>1. req' \in [Reqs -> Request]
    BY <1>2, GotoType DEF Lead, PCs
  <2>2. QED
    BY <1>2, <2>1 DEF Lead, TypeOK, bucket, memory
<1>3. CASE StopWaiting(r)
  BY <1>3, AnswerRest DEF StopWaiting, PCs, Status
<1>4. CASE Follow(r)
  <2> DEFINE f == flight[req[r].on]
  <2>1. PICK p \in {"presign", "pull"} : FollowTo(r, p)
    BY <1>4 DEF Follow
  <2>2. f \in Flight
    BY <2>1 DEF FollowTo, Shape, Fits, TypeOK
  <2>3. f.body \in Body \cup {Absent} /\ f.res \in {"failed", "ok", "notFound"}
    BY <2>2 DEF Flight
  <2>4. \/ Goto(r, p)
        \/ \E s \in Status, b \in Body \cup {Absent} : Answer(r, s, b, "done")
    BY <2>1, <2>3 DEF FollowTo, Status, Keys
  <2>5. QED
    BY <2>1, <2>4, GotoRest, AnswerRest DEF FollowTo, PCs
<1>5. CASE AcquireSlot(r)
  <2>1. req' \in [Reqs -> Request]
    BY <1>5, GotoType DEF AcquireSlot, TakeSlot, PCs
  <2>2. slots' \in 0 .. MaxFetches
    BY <1>5, MaxFetchesAssumption DEF AcquireSlot, TakeSlot, TypeOK
  <2>3. QED
    BY <1>5, <2>1, <2>2 DEF AcquireSlot, TakeSlot, TypeOK, bucket, memory
<1>6. CASE StopQueueing(r)
  BY <1>6, AnswerRest DEF StopQueueing, LeaveQueue, PCs, Status
<1>7. QED
  BY <1>1, <1>2, <1>3, <1>4, <1>5, <1>6 DEF Board

(* What a fetch does from the upstream request on is typed.                *)
LEMMA FetchType ==
  ASSUME TypeOK, NEW r \in Reqs, FetchOrAnswer(r)
  PROVE  TypeOK'
<1> USE KeyType DEF At
<1>1. CASE FetchFails(r)
  BY <1>1, AnswerRest DEF FetchFails, PCs, Status
<1>2. CASE FetchNotFound(r)
  <2>1. req' \in [Reqs -> Request]
    BY <1>2, AnswerType DEF FetchNotFound, PCs, Status
  <2>2. flight' \in [Reqs -> Flight]
    BY <1>2 DEF FetchNotFound, TypeOK, Flight
  <2>3. QED
    BY <1>2, <2>1, <2>2 DEF FetchNotFound, TypeOK, bucket
<1>3. CASE FetchOK(r)
  BY <1>3, GotoRest DEF FetchOK, PCs
<1>4. QED
  BY <1>1, <1>2, <1>3 DEF FetchOrAnswer

LEMMA CommitType ==
  ASSUME TypeOK, NEW k \in Keys, NEW b \in Body, PerhapsCommit(k, b)
  PROVE  store' \in [Keys -> Body \cup {Absent}] /\ committed' \subseteq Keys \X Body
BY DEF TypeOK, PerhapsCommit, Commit

LEMMA LeadSmallType ==
  ASSUME TypeOK, Shape, NEW r \in Reqs, LeadSmall(r)
  PROVE  TypeOK'
<1> USE KeyType DEF At
<1>0. "write" \in PCs /\ "release" \in PCs /\ "put" \in PCs /\ Absent \in Body \cup {Absent}
  BY DEF PCs
<1>1. ASSUME NEW b \in Body, ReadSmall(r, b) PROVE TypeOK'
  <2>1. req' \in [Reqs -> Request]
    BY <1>0, <1>1, RequestEdits DEF ReadSmall, TypeOK
  <2>2. flight' \in [Reqs -> Flight]
    BY <1>1 DEF ReadSmall, TypeOK, Flight
  <2>3. index' \subseteq Nars
    BY <1>1, IndexType DEF ReadSmall
  <2>4. QED
    BY <1>1, <2>1, <2>2, <2>3 DEF ReadSmall, TypeOK, memory
<1>2. ASSUME NEW b \in Body, ReadSmallFails(r, b) PROVE TypeOK'
  BY <1>0, <1>2, AnswerRest DEF ReadSmallFails, Status
<1>3. ASSUME At(r, "put") \/ At(r, "write") PROVE req[r].body \in Body
  BY <1>3 DEF Shape, Fits, Body
<1>4. CASE WriteSmall(r)
  BY <1>0, <1>3, <1>4, AnswerRest DEF WriteSmall, Status
<1>5. CASE PutSmall(r)
  <2>1. req' \in [Reqs -> Request]
    BY <1>0, <1>5, GotoType DEF PutSmall
  <2>2. flight' \in [Reqs -> Flight]
    BY <1>5 DEF PutSmall, TypeOK, Flight
  <2>3. mem' \in [Small -> Body \cup {Absent}]
    BY <1>3, <1>5 DEF PutSmall, TypeOK
  <2>4. QED
    BY <1>3, <1>5, <2>1, <2>2, <2>3, CommitType DEF PutSmall, PerhapsCommit, TypeOK
<1>6. CASE PutSmallFails(r)
  <2>1. req' \in [Reqs -> Request]
    BY <1>0, <1>6, GotoType DEF PutSmallFails
  <2>2. QED
    BY <1>3, <1>6, <2>1, CommitType DEF PutSmallFails, TypeOK, memory, fetches
<1>7. QED
  BY <1>1, <1>2, <1>4, <1>5, <1>6 DEF LeadSmall

LEMMA ServedType ==
  ASSUME TypeOK, NEW r \in Reqs, NEW b \in Body, NEW st \in BOOLEAN, Served(r, b, st),
         \/ PerhapsCommit(Key(r), b)
         \/ UNCHANGED <<store, committed>>
  PROVE  TypeOK'
<1>1. req' \in [Reqs -> Request]
  BY AnswerType DEF Served, PCs, Status
<1>2. flight' \in [Reqs -> Flight]
  BY DEF Served, TypeOK, Flight
<1>3. QED
  BY <1>1, <1>2, KeyType, CommitType DEF Served, TypeOK, memory, PerhapsCommit

LEMMA LeadLargeType ==
  ASSUME TypeOK, NEW r \in Reqs, LeadLarge(r)
  PROVE  TypeOK'
<1> USE DEF At
<1>0. "fetch" \in PCs /\ "release" \in PCs /\ "drain" \in PCs
  BY DEF PCs
<1>1. CASE Expect(r)
  <2>1. req' \in [Reqs -> Request]
    BY <1>0, <1>1, RequestEdits DEF Expect, TypeOK
  <2>2. QED
    BY <1>1, <2>1 DEF Expect, Rest, TypeOK, bucket, memory, fetches
<1>2. CASE ExpectFails(r)
  BY <1>0, <1>2, AnswerRest DEF ExpectFails, Status
<1>3. CASE UploadFails(r)
  BY <1>0, <1>3, GotoRest DEF UploadFails
<1>4. ASSUME NEW b \in Whole \cup {"cut"},
             \/ PassThrough(r, b) \/ Upload(r, b) \/ UploadUnacknowledged(r, b)
             \/ Drain(r, b) \/ VerifyFails(r, b)
      PROVE  TypeOK'
  <2>1. PICK st \in BOOLEAN : Served(r, b, st)
    BY <1>4 DEF PassThrough, Upload, UploadUnacknowledged, Drain, VerifyFails
  <2>2. PerhapsCommit(Key(r), b) \/ UNCHANGED <<store, committed>>
    BY <1>4 DEF PassThrough, Upload, UploadUnacknowledged, Drain, VerifyFails, PerhapsCommit
  <2>3. QED
    BY <2>1, <2>2, ServedType DEF Body
<1>5. ASSUME NEW b \in Whole \cup {"cut"}, BodyBreaks(r, b) PROVE TypeOK'
  BY <1>0, <1>5, AnswerRest DEF BodyBreaks, Status, Body
<1>6. QED
  BY <1>1, <1>2, <1>3, <1>4, <1>5 DEF LeadLarge

(* The slots stay natural only because they are accounted for.             *)
LEMMA HoldersFinite ==
  /\ IsFiniteSet({r \in Reqs : req[r].pc \in Holding})
  /\ IsFiniteSet({r \in Reqs : req'[r].pc \in Holding})
BY FS_Subset, ReqsAssumption

LEMMA DefersType ==
  ASSUME TypeOK, SlotsAccounted, NEW r \in Reqs, ReleaseSlot(r) \/ Land(r)
  PROVE  TypeOK'
<1> USE DEF At
<1>0. "land" \in PCs /\ "done" \in PCs
  BY DEF PCs
<1>1. CASE ReleaseSlot(r)
  <2> DEFINE H == {q \in Reqs : req[q].pc \in Holding}
  <2>1. r \in H
    BY <1>1 DEF ReleaseSlot, Holding
  <2>2. Cardinality(H) # 0
    BY <2>1, HoldersFinite, FS_EmptySet
  <2>3. slots' \in 0 .. MaxFetches
    BY <1>1, <2>2, MaxFetchesAssumption DEF ReleaseSlot, TypeOK, SlotsAccounted
  <2>4. req' \in [Reqs -> Request]
    BY <1>0, <1>1, GotoType DEF ReleaseSlot
  <2>5. QED
    BY <1>1, <2>3, <2>4 DEF ReleaseSlot, TypeOK, bucket, memory
<1>2. CASE Land(r)
  <2>1. req' \in [Reqs -> Request]
    BY <1>0, <1>2, GotoType DEF Land, Lands
  <2>2. flight' \in [Reqs -> Flight]
    BY <1>2 DEF Land, Lands, TypeOK, Flight
  <2>3. QED
    BY <1>2, <2>1, <2>2 DEF Land, Lands, TypeOK, bucket, memory
<1>3. QED
  BY <1>1, <1>2

(* So are the steps of the clients and of the surroundings.                *)
LEMMA ClientsType ==
  ASSUME TypeOK, Clients
  PROVE  TypeOK'
<1>1. ASSUME NEW r \in Reqs, NEW h \in BOOLEAN, Arrive(r, h) PROVE TypeOK'
  <2> DEFINE here == [req[r] EXCEPT !.head = h]
  <2>1. req[r] \in Request
    BY DEF TypeOK
  <2>2. here \in Request
    <3>1. \A q \in Request :
            [q EXCEPT !.head = h] \in Request
      BY DEF Request
    <3>2. QED
      BY <2>1, <3>1
  <2>3. [status |-> "notFound", body |-> Absent] \in Answers
    BY DEF Answers, Status
  <2>4. [here EXCEPT !.pc = "done", !.ans = [status |-> "notFound", body |-> Absent]] \in Request
    BY <2>2, <2>3, RequestEdits DEF PCs
  <2>5. \A p \in PCs : [here EXCEPT !.pc = p] \in Request
    <3>1. \A q \in Request, p \in PCs : [q EXCEPT !.pc = p] \in Request
      BY DEF Request
    <3>2. QED
      BY <2>2, <3>1
  <2>6. req' \in [Reqs -> Request]
    BY <1>1, <2>4, <2>5 DEF Arrive, TypeOK, PCs
  <2>7. QED
    BY <1>1, <2>6 DEF Arrive, Rest, TypeOK, bucket, memory, fetches
<1>2. ASSUME NEW r \in Reqs, NEW c \in {"stalled", "gone"}, ClientBecomes(r, c) PROVE TypeOK'
  <2>1. req' \in [Reqs -> Request]
    BY <1>2 DEF ClientBecomes, TypeOK, Request
  <2>2. QED
    BY <1>2, <2>1, MaxEventsAssumption
       DEF ClientBecomes, Event, TypeOK, bucket, memory, fetches
<1>3. QED
  BY <1>1, <1>2 DEF Clients

LEMMA SurroundingsType ==
  ASSUME TypeOK, Surroundings
  PROVE  TypeOK'
<1> USE MaxEventsAssumption DEF Event
<1>1. ASSUME NEW k \in Keys, NEW b \in Whole, PeerCommits(k, b) PROVE TypeOK'
  BY <1>1 DEF PeerCommits, Commit, TypeOK, Body, memory, fetches
<1>2. ASSUME NEW k \in Nars, PeerRecords(k) \/ RecordExpires(k) PROVE TypeOK'
  BY <1>2 DEF PeerRecords, RecordExpires, TypeOK, memory, fetches
<1>3. ASSUME NEW k \in Keys, ObjectExpires(k) \/ NegExpires(k) PROVE TypeOK'
  BY <1>3 DEF ObjectExpires, NegExpires, TypeOK, bucket, memory, fetches
<1>4. ASSUME NEW k \in Small, MemEvicts(k) PROVE TypeOK'
  BY <1>4 DEF MemEvicts, TypeOK, bucket, fetches
<1>5. CASE Restart
  <2>1. \A r \in Reqs : Killed(r) \in Request
    <3>1. Lost \in Answers /\ "done" \in PCs
      BY DEF Lost, Answers, Status, PCs
    <3>2. \A q \in Request : q.ans \in Answers
      BY DEF Request
    <3>3. \A q \in Request :
            [q EXCEPT !.pc = "done", !.ans = IF @ = NoAnswer THEN Lost ELSE @] \in Request
      BY <3>1, <3>2, RequestEdits
    <3>4. QED
      BY <3>3 DEF TypeOK, Killed
  <2>2. QED
    BY <1>5, <2>1, MaxFetchesAssumption DEF Restart, TypeOK, bucket
<1>6. QED
  BY <1>1, <1>2, <1>3, <1>4, <1>5 DEF Surroundings

LEMMA StepType == TypeOK /\ Shape /\ SlotsAccounted /\ [Next]_vars => TypeOK'
<1> SUFFICES ASSUME TypeOK, Shape, SlotsAccounted, [Next]_vars PROVE TypeOK'
  OBVIOUS
<1>1. CASE \E r \in Reqs : Handle(r)
  BY <1>1, LookupType, BoardType, FetchType, LeadSmallType, LeadLargeType, DefersType
     DEF Handle
<1>2. CASE UNCHANGED vars
  BY <1>2 DEF vars, TypeOK, bucket, memory, fetches
<1>3. QED
  BY <1>1, <1>2, ClientsType, SurroundingsType DEF Next, Finished

-----------------------------------------------------------------------------
(* A handler's step changes its own request only, and never its key.       *)
LEMMA AnswerOwn ==
  ASSUME TypeOK, NEW r \in Reqs, NEW s \in Status, NEW b \in Body \cup {Absent}, NEW p \in PCs,
         Answer(r, s, b, p)
  PROVE  /\ Others(r)
         /\ req'[r].pc = p /\ req'[r].key = req[r].key /\ req'[r].on = req[r].on
         /\ req'[r].want = req[r].want /\ req'[r].body = req[r].body
<1>1. req \in [Reqs -> Request]
  BY DEF TypeOK
<1>2. Others(r) /\ req'[r] = [req[r] EXCEPT !.pc = p, !.ans = [status |-> s, body |-> b]]
  BY <1>1 DEF Answer, Others
<1>3. QED
  BY <1>1, <1>2 DEF Request

LEMMA GotoOwn ==
  ASSUME TypeOK, NEW r \in Reqs, NEW p \in PCs, Goto(r, p)
  PROVE  /\ Others(r)
         /\ req'[r].pc = p /\ req'[r].key = req[r].key /\ req'[r].on = req[r].on
         /\ req'[r].want = req[r].want /\ req'[r].body = req[r].body
<1>1. req \in [Reqs -> Request]
  BY DEF TypeOK
<1>2. Others(r) /\ req'[r] = [req[r] EXCEPT !.pc = p]
  BY <1>1 DEF Goto, Others
<1>3. QED
  BY <1>1, <1>2 DEF Request

(* The other edits.                                                        *)
LEMMA EditOwn ==
  ASSUME TypeOK, NEW r \in Reqs
  PROVE  /\ Join(r) => /\ Others(r) /\ req'[r].pc = "wait" /\ req'[r].key = req[r].key
                       /\ req'[r].on = flights[Key(r)]
         /\ Expect(r) => /\ Others(r) /\ req'[r].pc = "fetch" /\ req'[r].key = req[r].key
                         /\ req'[r].want \in {"record", "none"} /\ req'[r].on = req[r].on
         /\ \A b \in Body : ReadSmall(r, b) =>
              /\ Others(r) /\ req'[r].pc = "write" /\ req'[r].key = req[r].key
              /\ req'[r].body = b /\ req'[r].on = req[r].on
         /\ \A c : ClientBecomes(r, c) => Others(r) /\ req'[r] = [req[r] EXCEPT !.client = c]
         /\ \A h \in BOOLEAN : Arrive(r, h) =>
              /\ Others(r) /\ req'[r].key = req[r].key
              /\ req'[r].pc \in {"done", "mem", "store"}
              /\ req'[r].pc = "mem" => Key(r) \in Small
<1>1. req \in [Reqs -> Request]
  BY DEF TypeOK
<1>2. \A q \in Request : q = [pc |-> q.pc, key |-> q.key, head |-> q.head, on |-> q.on,
                              want |-> q.want, body |-> q.body, client |-> q.client,
                              ans |-> q.ans]
  BY DEF Request
<1>3. Join(r) => /\ Others(r) /\ req'[r].pc = "wait" /\ req'[r].key = req[r].key
                 /\ req'[r].on = flights[Key(r)]
  BY <1>1, <1>2 DEF Join, Others
<1>4. Expect(r) => /\ Others(r) /\ req'[r].pc = "fetch" /\ req'[r].key = req[r].key
                   /\ req'[r].want \in {"record", "none"} /\ req'[r].on = req[r].on
  BY <1>1, <1>2 DEF Expect, Others
<1>5. \A b \in Body : ReadSmall(r, b) =>
        /\ Others(r) /\ req'[r].pc = "write" /\ req'[r].key = req[r].key
        /\ req'[r].body = b /\ req'[r].on = req[r].on
  BY <1>1, <1>2 DEF ReadSmall, Others
<1>6. \A c : ClientBecomes(r, c) => Others(r) /\ req'[r] = [req[r] EXCEPT !.client = c]
  BY <1>1 DEF ClientBecomes, Others
<1>7. \A h \in BOOLEAN : Arrive(r, h) =>
        /\ Others(r) /\ req'[r].key = req[r].key
        /\ req'[r].pc \in {"done", "mem", "store"}
        /\ req'[r].pc = "mem" => Key(r) \in Small
  BY <1>1, <1>2 DEF Arrive, Others
<1>8. QED
  BY <1>3, <1>4, <1>5, <1>6, <1>7

(* What a handler's step does to the registered flights, to the slots and  *)
(* to the places of the leaders.                                           *)
Stays(r) ==
  /\ UNCHANGED <<flights, slots>>
  /\ req[r].pc \in Holding <=> req'[r].pc \in Holding
  /\ req[r].pc \in Leading <=> req'[r].pc \in Leading
Own(r) == Others(r) /\ req'[r].key = req[r].key

LEMMA AnswerDone ==
  ASSUME TypeOK, NEW r \in Reqs,
         \E s \in Status, b \in Body \cup {Absent} : Answer(r, s, b, "done")
  PROVE  Own(r) /\ req'[r].pc = "done"
<1>1. PICK s \in Status, b \in Body \cup {Absent} : Answer(r, s, b, "done")
  OBVIOUS
<1>2. "done" \in PCs
  BY DEF PCs
<1>3. QED
  BY <1>1, <1>2, AnswerOwn DEF Own

LEMMA FitsAnyKey ==
  ASSUME NEW r \in Reqs,
         req'[r].pc \in {"store", "pull", "slot", "release", "land", "done"}
  PROVE  Fits(r)'
BY DEF Fits

LEMMA LookupOwn ==
  ASSUME TypeOK, Shape, NEW r \in Reqs, Lookup(r)
  PROVE  Own(r) /\ Stays(r) /\ Fits(r)'
<1> USE DEF At, Own, Stays, Leading, Holding, Fits, Key, PCs, Status
<1>1. CASE LookupMem(r)
  <2>1. mem[Key(r)] \in Body \cup {Absent}
    BY <1>1 DEF LookupMem, Shape, TypeOK
  <2>2. QED
    <3>1. \/ Goto(r, "store")
          \/ Answer(r, "ok", mem[Key(r)], "done")
      BY <1>1 DEF LookupMem
    <3>2. Others(r) /\ req'[r].key = req[r].key /\ req'[r].pc \in {"store", "done"}
      BY <2>1, <3>1, GotoOwn, AnswerOwn
    <3>3. QED
      BY <1>1, <3>2, FitsAnyKey DEF LookupMem, fetches
<1>2. CASE HeadStore(r)
  BY <1>2, GotoOwn, AnswerOwn DEF HeadStore, Rest, fetches
<1>3. CASE GetStore(r)
  <2>1. store[Key(r)] \in Body \cup {Absent}
    BY KeyType DEF TypeOK
  <2>2. QED
    BY <1>3, <2>1, GotoOwn, AnswerOwn DEF GetStore, fetches
<1>4. CASE StoreError(r) \/ Presign(r)
  BY <1>4, AnswerOwn DEF StoreError, Presign, Rest, fetches
<1>5. CASE ProxyHead(r)
  <2>1. PICK s \in {"headOk", "notFound", "upstreamError"} : Answer(r, s, Absent, "done")
    BY <1>5 DEF ProxyHead
  <2>2. Own(r) /\ req'[r].pc = "done"
    BY <2>1, AnswerDone
  <2>3. QED
    BY <1>5, <2>2, FitsAnyKey DEF ProxyHead, Rest, fetches
<1>6. QED
  BY <1>1, <1>2, <1>3, <1>4, <1>5 DEF Lookup

LEMMA BoardOwn ==
  ASSUME TypeOK, Shape, NEW r \in Reqs, Board(r)
  PROVE  Own(r) /\ Fits(r)' /\ (Stays(r) \/ Lead(r) \/ AcquireSlot(r))
<1> USE DEF At, Own, Stays, Leading, Holding, Fits, Key, PCs, Status
<1>1. CASE Join(r)
  <2>1. flights[Key(r)] \in Reqs
    BY <1>1, KeyType DEF Join, TypeOK
  <2>2. QED
    <3>1. Own(r) /\ req'[r].pc = "wait" /\ req'[r].on \in Reqs
      BY <1>1, <2>1, EditOwn
    <3>2. QED
      BY <1>1, <3>1 DEF Join, Rest, fetches
<1>2. CASE Lead(r)
  BY <1>2, GotoOwn DEF Lead
<1>3. CASE StopWaiting(r)
  BY <1>3, AnswerOwn DEF StopWaiting, Rest, fetches
<1>4. CASE Follow(r)
  <2>1. PICK p \in {"presign", "pull"} : FollowTo(r, p)
    BY <1>4 DEF Follow
  <2>2. flight[req[r].on] \in Flight
    BY <2>1 DEF FollowTo, Shape, TypeOK
  <2>3. \/ Goto(r, p) /\ Key(r) \in Large
        \/ \E s \in Status, b \in Body \cup {Absent} : Answer(r, s, b, "done")
    BY <2>1, <2>2, KeyType DEF FollowTo, Flight, Keys
  <2>4. CASE Goto(r, p) /\ Key(r) \in Large
    BY <2>1, <2>4, GotoOwn DEF FollowTo, Rest, fetches
  <2>5. CASE \E s \in Status, b \in Body \cup {Absent} : Answer(r, s, b, "done")
    <3>1. Own(r) /\ req'[r].pc = "done"
      BY <2>5, AnswerDone
    <3>2. QED
      BY <2>1, <3>1, FitsAnyKey DEF FollowTo, Rest, fetches
  <2>6. QED
    BY <2>3, <2>4, <2>5
<1>5. CASE AcquireSlot(r)
  <2>1. Own(r) /\ req'[r].pc = IF Key(r) \in Nars THEN "expect" ELSE "fetch"
    BY <1>5, GotoOwn DEF AcquireSlot, TakeSlot
  <2>2. QED
    BY <1>5, <2>1, KeysAssumption
<1>6. CASE StopQueueing(r)
  BY <1>6, AnswerOwn DEF StopQueueing, LeaveQueue, Rest, fetches
<1>7. QED
  BY <1>1, <1>2, <1>3, <1>4, <1>5, <1>6 DEF Board

LEMMA FetchOwn ==
  ASSUME TypeOK, Shape, NEW r \in Reqs, FetchOrAnswer(r)
  PROVE  Own(r) /\ Stays(r) /\ Fits(r)'
<1> USE DEF At, Own, Stays, Leading, Holding, PCs, Status
<1>1. CASE FetchFails(r)
  BY <1>1, AnswerOwn, FitsAnyKey DEF FetchFails, Rest, fetches
<1>2. CASE FetchNotFound(r)
  BY <1>2, AnswerOwn, FitsAnyKey DEF FetchNotFound
<1>3. CASE FetchOK(r)
  <2>1. /\ Own(r)
        /\ req'[r].want = req[r].want
        /\ req'[r].pc = IF Key(r) \in Small THEN "read"
                       ELSE IF req[r].want = "none" THEN "pass" ELSE "upload"
    BY <1>3, GotoOwn DEF FetchOK
  <2>2. Key(r) \in Nars => req[r].want # "unchecked"
    BY <1>3 DEF FetchOK, Shape, Fits
  <2>3. Fits(r)'
    BY <2>1, <2>2, KeyType DEF Fits, Key, Keys
  <2>4. QED
    BY <1>3, <2>1, <2>3 DEF FetchOK, Rest, fetches
<1>4. QED
  BY <1>1, <1>2, <1>3 DEF FetchOrAnswer

LEMMA LeadSmallOwn ==
  ASSUME TypeOK, Shape, NEW r \in Reqs, LeadSmall(r)
  PROVE  Own(r) /\ Stays(r) /\ Fits(r)'
<1> USE DEF At, Own, Stays, Leading, Holding, PCs, Status
<1>1. ASSUME NEW b \in Body, ReadSmall(r, b) PROVE Own(r) /\ Stays(r) /\ Fits(r)'
  <2>1. b \in Whole /\ Key(r) \in Small
    BY <1>1 DEF ReadSmall, FrEnd, Shape, Fits
  <2>2. Own(r) /\ req'[r].pc = "write" /\ req'[r].body = b
    BY <1>1, EditOwn
  <2>3. QED
    BY <1>1, <2>1, <2>2 DEF ReadSmall, Fits, Key
<1>2. ASSUME NEW b \in Body, ReadSmallFails(r, b) PROVE Own(r) /\ Stays(r) /\ Fits(r)'
  BY <1>2, AnswerOwn, FitsAnyKey DEF ReadSmallFails, Rest, fetches
<1>3. CASE WriteSmall(r)
  <2>1. req[r].body \in Body /\ req[r].body \in Whole /\ Key(r) \in Small
    BY <1>3 DEF WriteSmall, Shape, Fits, Body
  <2>2. Own(r) /\ req'[r].pc = "put" /\ req'[r].body = req[r].body
    BY <1>3, <2>1, AnswerOwn DEF WriteSmall
  <2>3. QED
    BY <1>3, <2>1, <2>2 DEF WriteSmall, Rest, fetches, Fits, Key
<1>4. CASE PutSmall(r)
  BY <1>4, GotoOwn, FitsAnyKey DEF PutSmall
<1>5. CASE PutSmallFails(r)
  BY <1>5, GotoOwn, FitsAnyKey DEF PutSmallFails, fetches
<1>6. QED
  BY <1>1, <1>2, <1>3, <1>4, <1>5 DEF LeadSmall

LEMMA LeadLargeOwn ==
  ASSUME TypeOK, Shape, NEW r \in Reqs, LeadLarge(r)
  PROVE  Own(r) /\ Stays(r) /\ Fits(r)'
<1> USE DEF At, Own, Stays, Leading, Holding, PCs, Status
<1>1. CASE Expect(r)
  <2>1. Own(r) /\ req'[r].pc = "fetch" /\ req'[r].want \in {"record", "none"}
    BY <1>1, EditOwn
  <2>2. QED
    BY <1>1, <2>1 DEF Expect, Rest, fetches, Fits
<1>2. CASE ExpectFails(r)
  BY <1>2, AnswerOwn, FitsAnyKey DEF ExpectFails, Rest, fetches
<1>3. CASE UploadFails(r)
  <2>1. Fits(r) /\ Own(r) /\ req'[r].pc = "drain" /\ req'[r].want = req[r].want
    BY <1>3, GotoOwn DEF UploadFails, Shape
  <2>2. QED
    BY <1>3, <2>1 DEF UploadFails, Rest, fetches, Fits, Key
<1>4. ASSUME NEW b \in Whole \cup {"cut"},
             \/ PassThrough(r, b) \/ Upload(r, b) \/ UploadUnacknowledged(r, b)
             \/ Drain(r, b) \/ VerifyFails(r, b)
      PROVE  Own(r) /\ Stays(r) /\ Fits(r)'
  <2>1. PICK st \in BOOLEAN : Served(r, b, st)
    BY <1>4 DEF PassThrough, Upload, UploadUnacknowledged, Drain, VerifyFails
  <2>2. req[r].pc \in Holding
    BY <1>4 DEF PassThrough, Upload, UploadUnacknowledged, Drain, VerifyFails
  <2>3. b \in Body \cup {Absent}
    BY DEF Body
  <2>4. Own(r) /\ req'[r].pc = "release"
    BY <2>1, <2>3, AnswerOwn DEF Served
  <2>5. QED
    BY <2>1, <2>2, <2>4, FitsAnyKey DEF Served
<1>5. ASSUME NEW b \in Whole \cup {"cut"}, BodyBreaks(r, b)
      PROVE  Own(r) /\ Stays(r) /\ Fits(r)'
  <2>1. b \in Body \cup {Absent}
    BY DEF Body
  <2>2. Own(r) /\ req'[r].pc = "release"
    BY <1>5, <2>1, AnswerOwn DEF BodyBreaks
  <2>3. QED
    BY <1>5, <2>2, FitsAnyKey DEF BodyBreaks, Rest, fetches
<1>6. QED
  BY <1>1, <1>2, <1>3, <1>4, <1>5 DEF LeadLarge

(* All of a handler's steps: only four touch what the leaders share.       *)
LEMMA HandleOwn ==
  ASSUME TypeOK, Shape, NEW r \in Reqs, Handle(r)
  PROVE  /\ Own(r) /\ Fits(r)'
         /\ Stays(r) \/ Lead(r) \/ AcquireSlot(r) \/ ReleaseSlot(r) \/ Land(r)
<1>1. ASSUME ReleaseSlot(r) \/ Land(r) PROVE Own(r) /\ Fits(r)'
  <2>1. Own(r) /\ req'[r].pc \in {"land", "done"}
    BY <1>1, GotoOwn DEF ReleaseSlot, Land, Lands, Own, PCs
  <2>2. QED
    BY <2>1, FitsAnyKey
<1>2. QED
  BY <1>1, LookupOwn, BoardOwn, FetchOwn, LeadSmallOwn, LeadLargeOwn DEF Handle

-----------------------------------------------------------------------------
(* The steps that are no handler's: clients and surroundings.              *)
Undisturbed ==
  /\ UNCHANGED <<flights, slots>>
  /\ \A q \in Reqs :
       /\ req'[q].key = req[q].key
       /\ req[q].pc \in Holding <=> req'[q].pc \in Holding
       /\ req[q].pc \in Leading <=> req'[q].pc \in Leading

LEMMA StaysUndisturbed ==
  ASSUME NEW r \in Reqs, Own(r), Stays(r)
  PROVE  Undisturbed
BY DEF Own, Others, Stays, Undisturbed

LEMMA FitsKept ==
  ASSUME NEW q \in Reqs, Fits(q),
         req'[q].pc = req[q].pc, req'[q].key = req[q].key, req'[q].on = req[q].on,
         req'[q].want = req[q].want, req'[q].body = req[q].body
  PROVE  Fits(q)'
BY DEF Fits, Key

LEMMA ClientsOwn ==
  ASSUME TypeOK, Shape, Clients
  PROVE  Undisturbed /\ Shape'
<1>1. ASSUME NEW r \in Reqs, NEW h \in BOOLEAN, Arrive(r, h) PROVE Undisturbed /\ Shape'
  <2>1. /\ Own(r) /\ req'[r].pc \in {"done", "mem", "store"}
        /\ req'[r].pc = "mem" => Key(r) \in Small
    BY <1>1, EditOwn DEF Own
  <2>2. Undisturbed
    BY <1>1, <2>1, StaysUndisturbed
       DEF Arrive, At, Rest, fetches, Stays, Holding, Leading
  <2>3. Fits(r)'
    BY <2>1 DEF Fits, Key, Own
  <2>4. \A q \in Reqs \ {r} : Fits(q)'
    BY <2>1, FitsKept DEF Own, Others, Shape
  <2>5. QED
    BY <2>2, <2>3, <2>4 DEF Shape
<1>2. ASSUME NEW r \in Reqs, NEW c \in {"stalled", "gone"}, ClientBecomes(r, c)
      PROVE  Undisturbed /\ Shape'
  <2>1. Others(r) /\ req'[r] = [req[r] EXCEPT !.client = c]
    BY <1>2, EditOwn
  <2>2. req[r] \in Request
    BY DEF TypeOK
  <2>3. /\ req'[r].pc = req[r].pc /\ req'[r].key = req[r].key /\ req'[r].on = req[r].on
        /\ req'[r].want = req[r].want /\ req'[r].body = req[r].body
    BY <2>1, <2>2 DEF Request
  <2>4. Undisturbed
    BY <1>2, <2>1, <2>3, StaysUndisturbed DEF ClientBecomes, fetches, Stays, Own
  <2>5. \A q \in Reqs : Fits(q)'
    BY <2>1, <2>3, FitsKept DEF Others, Shape
  <2>6. QED
    BY <2>4, <2>5 DEF Shape
<1>3. QED
  BY <1>1, <1>2 DEF Clients

LEMMA RestartOwn ==
  ASSUME TypeOK, Restart
  PROVE  \A q \in Reqs : /\ req'[q].key = req[q].key
                        /\ (req'[q] = req[q] \/ req'[q].pc = "done")
                        /\ req'[q].pc \in {"idle", "done"}
<1>1. \A q \in Reqs : req'[q] = Killed(q) /\ req[q] \in Request
  BY DEF Restart, TypeOK
<1>2. QED
  BY <1>1 DEF Killed, Request

LEMMA SurroundingsOwn ==
  ASSUME Surroundings
  PROVE  Restart \/ (UNCHANGED <<flights, flight, slots, req>>)
BY DEF Surroundings, PeerCommits, PeerRecords, RecordExpires, ObjectExpires, NegExpires,
       MemEvicts, fetches

-----------------------------------------------------------------------------
(* The control flow keeps its shape.                                       *)
LEMMA ShapeInit == Init => Shape
<1> SUFFICES ASSUME Init, NEW r \in Reqs PROVE Fits(r)
  BY DEF Shape
<1>1. req[r].pc = "idle"
  BY DEF Init, FreshRequest
<1>2. QED
  BY <1>1 DEF Fits

LEMMA ShapeStep == TypeOK /\ Shape /\ [Next]_vars => Shape'
<1> SUFFICES ASSUME TypeOK, Shape, [Next]_vars PROVE Shape'
  OBVIOUS
<1>1. ASSUME NEW r \in Reqs, Handle(r) PROVE Shape'
  <2>1. Fits(r)' /\ Others(r)
    BY <1>1, HandleOwn DEF Own
  <2>2. \A q \in Reqs \ {r} : Fits(q)'
    BY <2>1, FitsKept DEF Others, Shape
  <2>3. QED
    BY <2>1, <2>2 DEF Shape
<1>2. ASSUME UNCHANGED req PROVE Shape'
  BY <1>2, FitsKept DEF Shape
<1>3. CASE Restart
  BY <1>3, RestartOwn, FitsKept, FitsAnyKey DEF Shape, Fits
<1>4. QED
  BY <1>1, <1>2, <1>3, ClientsOwn, SurroundingsOwn DEF Next, Finished, vars

-----------------------------------------------------------------------------
(* fetchSem is accounted for.                                              *)
Holders == {r \in Reqs : req[r].pc \in Holding}

LEMMA SlotsInit == Init => SlotsAccounted
<1> SUFFICES ASSUME Init PROVE SlotsAccounted
  OBVIOUS
<1>1. {r \in Reqs : req[r].pc \in Holding} = {}
  BY DEF Init, FreshRequest, Holding
<1>2. QED
  BY <1>1, FS_EmptySet DEF Init, SlotsAccounted

LEMMA SlotsUndisturbed == SlotsAccounted /\ Undisturbed => SlotsAccounted'
<1> SUFFICES ASSUME SlotsAccounted, Undisturbed PROVE SlotsAccounted'
  OBVIOUS
<1>1. Holders' = Holders
  BY DEF Holders, Undisturbed
<1>2. QED
  BY <1>1 DEF SlotsAccounted, Undisturbed, Holders

LEMMA SlotsHandle ==
  ASSUME TypeOK, Shape, SlotsAccounted, NEW r \in Reqs, Handle(r)
  PROVE  SlotsAccounted'
<1>0. Own(r) /\ IsFiniteSet(Holders)
  BY HandleOwn, HoldersFinite DEF Holders
<1>1. CASE Stays(r)
  BY <1>0, <1>1, StaysUndisturbed, SlotsUndisturbed
<1>2. ASSUME slots' = slots, req[r].pc \notin Holding, req'[r].pc \notin Holding
      PROVE  SlotsAccounted'
  <2>1. Holders' = Holders
    BY <1>0, <1>2 DEF Holders, Own, Others
  <2>2. QED
    BY <1>2, <2>1 DEF Holders, SlotsAccounted
<1>3. CASE Lead(r)
  <2>1. req'[r].pc = "slot"
    BY <1>3, GotoOwn DEF Lead, PCs
  <2>2. QED
    BY <1>2, <1>3, <2>1 DEF Lead, At, Holding
<1>4. CASE Land(r)
  <2>1. req'[r].pc = "done"
    BY <1>4, GotoOwn DEF Land, Lands, PCs
  <2>2. QED
    BY <1>2, <1>4, <2>1 DEF Land, Lands, At, Holding
<1>5. CASE AcquireSlot(r)
  <2>1. req[r].pc = "slot" /\ req'[r].pc \in {"expect", "fetch"}
    BY <1>5, GotoOwn DEF AcquireSlot, TakeSlot, At, PCs
  <2>2. r \notin Holders /\ Holders' = Holders \cup {r}
    BY <1>0, <2>1 DEF Holders, Holding, Own, Others
  <2>3. Cardinality(Holders') = Cardinality(Holders) + 1
    BY <1>0, <2>2, FS_AddElement
  <2>4. QED
    BY <1>5, <2>3 DEF AcquireSlot, TakeSlot, SlotsAccounted, Holders
<1>6. CASE ReleaseSlot(r)
  <2>1. req[r].pc = "release" /\ req'[r].pc = "land"
    BY <1>6, GotoOwn DEF ReleaseSlot, At, PCs
  <2>2. r \in Holders /\ Holders' = Holders \ {r}
    BY <1>0, <2>1 DEF Holders, Holding, Own, Others
  <2>3. Cardinality(Holders') = Cardinality(Holders) - 1
    BY <1>0, <2>2, FS_RemoveElement
  <2>4. QED
    BY <1>6, <2>3 DEF ReleaseSlot, SlotsAccounted, Holders
<1>7. QED
  BY <1>1, <1>3, <1>4, <1>5, <1>6, HandleOwn

LEMMA SlotsRestart == TypeOK /\ Restart => SlotsAccounted'
<1> SUFFICES ASSUME TypeOK, Restart PROVE SlotsAccounted'
  OBVIOUS
<1>1. Holders' = {}
  BY RestartOwn DEF Holders, Holding
<1>2. QED
  BY <1>1, FS_EmptySet DEF Restart, SlotsAccounted, Holders

LEMMA SlotsStep == TypeOK /\ Shape /\ SlotsAccounted /\ [Next]_vars => SlotsAccounted'
<1> SUFFICES ASSUME TypeOK, Shape, SlotsAccounted, [Next]_vars PROVE SlotsAccounted'
  OBVIOUS
<1>1. ASSUME UNCHANGED <<flights, slots, req>> PROVE SlotsAccounted'
  BY <1>1, SlotsUndisturbed DEF Undisturbed
<1>2. QED
  BY <1>1, SlotsHandle, SlotsRestart, ClientsOwn, SlotsUndisturbed, SurroundingsOwn
     DEF Next, Finished, vars, fetches

-----------------------------------------------------------------------------
(* One fetch in flight for each key.                                       *)
LEMMA SingleFlightInit == Init => SingleFlight
<1> SUFFICES ASSUME Init PROVE SingleFlight
  OBVIOUS
<1>1. \A r \in Reqs : req[r].pc \notin Leading
  BY DEF Init, FreshRequest, Leading, Holding
<1>2. \A k \in Keys : flights[k] = NoReq
  BY DEF Init
<1>3. QED
  BY <1>1, <1>2 DEF SingleFlight

LEMMA SingleFlightUndisturbed == TypeOK /\ SingleFlight /\ Undisturbed => SingleFlight'
BY DEF TypeOK, SingleFlight, Undisturbed, Key

LEMMA SingleFlightHandle ==
  ASSUME TypeOK, Shape, SingleFlight, NEW r \in Reqs, Handle(r)
  PROVE  SingleFlight'
<1>0. Own(r) /\ Key(r) \in Keys /\ Key(r)' = Key(r)
  BY HandleOwn, KeyType DEF Own, Key
<1>1. CASE Stays(r)
  BY <1>0, <1>1, StaysUndisturbed, SingleFlightUndisturbed
<1>2. CASE AcquireSlot(r) \/ ReleaseSlot(r)
  <2>1. req[r].pc \in Leading /\ req'[r].pc \in Leading /\ flights' = flights
    BY <1>2, GotoOwn DEF AcquireSlot, TakeSlot, ReleaseSlot, At, PCs, Leading, Holding
  <2>2. QED
    BY <1>0, <2>1 DEF SingleFlight, Own, Others, Key, TypeOK
<1>3. CASE Lead(r)
  <2>1. /\ req'[r].pc \in Leading
        /\ flights[Key(r)] = NoReq /\ flights' = [flights EXCEPT ![Key(r)] = r]
    BY <1>3, GotoOwn DEF Lead, PCs, Leading
  <2>2. req[r].pc \notin Leading
    BY <1>3 DEF Lead, At, Leading, Holding
  <2>3. ASSUME NEW q \in Reqs, req'[q].pc \in Leading PROVE flights'[Key(q)'] = q
    <3>1. CASE q = r
      BY <1>0, <2>1, <3>1 DEF TypeOK
    <3>2. CASE q # r
      <4>1. req'[q] = req[q] /\ flights[Key(q)] = q
        BY <1>0, <2>3, <3>2 DEF Own, Others, SingleFlight
      <4>2. Key(q) # Key(r)
        BY <2>1, <4>1, ReqsAssumption
      <4>3. QED
        BY <2>1, <4>1, <4>2, KeyType DEF TypeOK, Key
    <3>3. QED
      BY <3>1, <3>2
  <2>4. ASSUME NEW k \in Keys, flights'[k] # NoReq
        PROVE  Key(flights[k])' = k /\ req'[flights'[k]].pc \in Leading
    <3>1. CASE k = Key(r)
      BY <1>0, <2>1, <3>1 DEF TypeOK
    <3>2. CASE k # Key(r)
      <4>1. flights'[k] = flights[k] /\ flights[k] \in Reqs
        BY <2>1, <2>4, <3>2 DEF TypeOK
      <4>2. Key(flights[k]) = k /\ req[flights[k]].pc \in Leading
        BY <2>4, <4>1 DEF SingleFlight
      <4>3. req'[flights[k]] = req[flights[k]]
        BY <1>0, <2>2, <4>1, <4>2 DEF Own, Others
      <4>4. QED
        BY <4>1, <4>2, <4>3 DEF Key
    <3>3. QED
      BY <3>1, <3>2
  <2>5. QED
    BY <2>3, <2>4 DEF SingleFlight
<1>4. CASE Land(r)
  <2>1. req'[r].pc \notin Leading /\ flights' = [flights EXCEPT ![Key(r)] = NoReq]
    BY <1>4, GotoOwn DEF Land, Lands, PCs, Leading, Holding
  <2>2. flights[Key(r)] = r
    BY <1>4 DEF Land, Lands, At, Leading, SingleFlight
  <2>3. ASSUME NEW q \in Reqs, req'[q].pc \in Leading PROVE flights'[Key(q)'] = q
    <3>1. q # r
      BY <2>1, <2>3
    <3>2. req'[q] = req[q] /\ flights[Key(q)] = q
      BY <1>0, <2>3, <3>1 DEF Own, Others, SingleFlight
    <3>3. QED
      BY <2>1, <2>2, <3>1, <3>2, KeyType DEF TypeOK, Key
  <2>4. ASSUME NEW k \in Keys, flights'[k] # NoReq
        PROVE  Key(flights[k])' = k /\ req'[flights'[k]].pc \in Leading
    <3>1. k # Key(r) /\ flights'[k] = flights[k] /\ flights[k] \in Reqs
      BY <2>1, <2>4 DEF TypeOK
    <3>2. Key(flights[k]) = k /\ req[flights[k]].pc \in Leading
      BY <2>4, <3>1 DEF SingleFlight
    <3>3. req'[flights[k]] = req[flights[k]]
      BY <1>0, <3>1, <3>2 DEF Own, Others
    <3>4. QED
      BY <3>1, <3>2, <3>3 DEF Key
  <2>5. QED
    BY <2>3, <2>4 DEF SingleFlight
<1>5. QED
  BY <1>1, <1>2, <1>3, <1>4, HandleOwn

LEMMA SingleFlightStep == TypeOK /\ Shape /\ SingleFlight /\ [Next]_vars => SingleFlight'
<1> SUFFICES ASSUME TypeOK, Shape, SingleFlight, [Next]_vars PROVE SingleFlight'
  OBVIOUS
<1>1. ASSUME UNCHANGED <<flights, slots, req>> PROVE SingleFlight'
  BY <1>1 DEF SingleFlight, Key
<1>2. CASE Restart
  <2>1. \A q \in Reqs : req'[q].pc \notin Leading
    BY <1>2, RestartOwn DEF Leading, Holding
  <2>2. \A k \in Keys : flights'[k] = NoReq
    BY <1>2 DEF Restart
  <2>3. QED
    BY <2>1, <2>2 DEF SingleFlight
<1>3. QED
  BY <1>1, <1>2, SingleFlightHandle, ClientsOwn, SingleFlightUndisturbed, SurroundingsOwn
     DEF Next, Finished, vars, fetches

-----------------------------------------------------------------------------
(* What the bucket holds was verified.                                     *)
VerifiedFor(k, b) == b \in Whole /\ (k \in Nars => b = "true")

LEMMA CommitVerified ==
  ASSUME TypeOK, OnlyVerifiedStored, NEW k \in Keys, NEW b \in Body,
         PerhapsCommit(k, b), VerifiedFor(k, b)
  PROVE  OnlyVerifiedStored'
BY DEF TypeOK, OnlyVerifiedStored, VerifiedFor, PerhapsCommit, Commit

LEMMA StoreKeptVerified == OnlyVerifiedStored /\ UNCHANGED store => OnlyVerifiedStored'
BY DEF OnlyVerifiedStored

LEMMA VerifiedHandle ==
  ASSUME TypeOK, Shape, OnlyVerifiedStored, NEW r \in Reqs, Handle(r)
  PROVE  OnlyVerifiedStored'
<1>1. CASE Lookup(r) \/ Board(r) \/ FetchOrAnswer(r) \/ ReleaseSlot(r) \/ Land(r)
  <2>1. UNCHANGED store
    BY <1>1 DEF Lookup, LookupMem, HeadStore, GetStore, StoreError, Presign, ProxyHead,
         Board, Join, Lead, StopWaiting, Follow, FollowTo, AcquireSlot, TakeSlot,
         StopQueueing, LeaveQueue, FetchOrAnswer, FetchFails, FetchNotFound, FetchOK,
         ReleaseSlot, Land, Lands, Rest, bucket
  <2>2. QED
    BY <2>1, StoreKeptVerified
<1>2. CASE PutSmall(r) \/ PutSmallFails(r)
  <2>1. /\ PerhapsCommit(Key(r), req[r].body)
        /\ req[r].body \in Whole /\ Key(r) \in Small
    BY <1>2 DEF PutSmall, PutSmallFails, PerhapsCommit, At, Shape, Fits
  <2>2. VerifiedFor(Key(r), req[r].body)
    BY <2>1, KeysAssumption DEF VerifiedFor
  <2>3. QED
    BY <2>1, <2>2, CommitVerified, KeyType DEF Body
<1>3. CASE LeadSmall(r) /\ ~PutSmall(r) /\ ~PutSmallFails(r)
  <2>1. UNCHANGED store
    BY <1>3 DEF LeadSmall, ReadSmall, ReadSmallFails, WriteSmall, Rest, bucket
  <2>2. QED
    BY <2>1, StoreKeptVerified
<1>4. ASSUME NEW b \in Whole \cup {"cut"}, Upload(r, b) \/ UploadUnacknowledged(r, b)
      PROVE  OnlyVerifiedStored'
  <2>1. /\ PerhapsCommit(Key(r), b) /\ FrEnd(req[r].want, b) = "eof"
        /\ Key(r) \in Nars => req[r].want # "unchecked"
        /\ req[r].want # "none"
    BY <1>4 DEF Upload, UploadUnacknowledged, PerhapsCommit, At, Shape, Fits
  <2>2. req[r].want \in {"unchecked", "none", "record"}
    BY DEF TypeOK, Request
  <2>3. VerifiedFor(Key(r), b)
    BY <2>1, <2>2 DEF FrEnd, VerifiedFor
  <2>4. QED
    BY <2>1, <2>3, CommitVerified, KeyType DEF Body
<1>5. CASE LeadLarge(r) /\ \A b \in Whole \cup {"cut"} :
             ~Upload(r, b) /\ ~UploadUnacknowledged(r, b)
  <2>1. UNCHANGED store
    BY <1>5 DEF LeadLarge, Expect, ExpectFails, UploadFails, PassThrough, Drain, VerifyFails,
         BodyBreaks, Rest, bucket
  <2>2. QED
    BY <2>1, StoreKeptVerified
<1>6. QED
  BY <1>1, <1>2, <1>3, <1>4, <1>5 DEF Handle

LEMMA VerifiedStep ==
  TypeOK /\ Shape /\ OnlyVerifiedStored /\ [Next]_vars => OnlyVerifiedStored'
<1> SUFFICES ASSUME TypeOK, Shape, OnlyVerifiedStored, [Next]_vars
             PROVE  OnlyVerifiedStored'
  OBVIOUS
<1>1. CASE Clients \/ Finished \/ UNCHANGED vars
  <2>1. UNCHANGED store
    BY <1>1 DEF Clients, Arrive, ClientBecomes, Rest, Finished, vars, bucket
  <2>2. QED
    BY <2>1, StoreKeptVerified
<1>2. ASSUME NEW k \in Keys, NEW b \in Whole, PeerCommits(k, b) PROVE OnlyVerifiedStored'
  BY <1>2, CommitVerified DEF PeerCommits, PerhapsCommit, VerifiedFor, Body
<1>3. ASSUME NEW k \in Keys, ObjectExpires(k) PROVE OnlyVerifiedStored'
  BY <1>3 DEF ObjectExpires, OnlyVerifiedStored, TypeOK
<1>4. ASSUME \/ \E k \in Nars : PeerRecords(k) \/ RecordExpires(k)
             \/ \E k \in Keys : NegExpires(k)
             \/ \E k \in Small : MemEvicts(k)
             \/ Restart
      PROVE  OnlyVerifiedStored'
  <2>1. UNCHANGED store
    BY <1>4 DEF PeerRecords, RecordExpires, NegExpires, MemEvicts, Restart, bucket
  <2>2. QED
    BY <2>1, StoreKeptVerified
<1>5. QED
  BY <1>1, <1>2, <1>3, <1>4, VerifiedHandle DEF Next, Surroundings

-----------------------------------------------------------------------------
(* The inductive invariant: the types need the accounting of the slots     *)
(* (they would go below zero), the accounting needs the types, and all of  *)
(* them need the shape of the control flow.                                *)
IInv == TypeOK /\ Shape /\ SlotsAccounted /\ SingleFlight /\ OnlyVerifiedStored

LEMMA Invariance == Spec => []IInv
<1>1. Init => IInv
  <2>1. Init => OnlyVerifiedStored
    BY DEF Init, OnlyVerifiedStored
  <2>2. QED
    BY <2>1, InitType, ShapeInit, SlotsInit, SingleFlightInit DEF IInv
<1>2. IInv /\ [Next]_vars => IInv'
  BY StepType, ShapeStep, SlotsStep, SingleFlightStep, VerifiedStep DEF IInv
<1>3. QED
  BY <1>1, <1>2, PTL DEF Spec

(* The state stays well typed; in particular slots never goes below zero   *)
(* nor above MaxFetches: no defer of pullThrough (cache.go:260-277) gives  *)
(* back a slot that its leader did not take.                               *)
THEOREM TypeCorrect == Spec => []TypeOK
<1>1. IInv => TypeOK
  BY DEF IInv
<1>2. QED
  BY <1>1, Invariance, PTL

(* fetchSem holds one slot for each leader past it, and none for anyone    *)
(* else, whatever happens to leaders and clients (cache.go:264-277).       *)
THEOREM SlotsTheorem == Spec => []SlotsAccounted
<1>1. IInv => SlotsAccounted
  BY DEF IInv
<1>2. QED
  BY <1>1, Invariance, PTL

(* A key is fetched by one request at a time, and c.flights names exactly  *)
(* the requests that fetch (cache.go:239-262).                             *)
THEOREM SingleFlightTheorem == Spec => []SingleFlight
<1>1. IInv => SingleFlight
  BY DEF IInv
<1>2. QED
  BY <1>1, Invariance, PTL

(* Nothing becomes visible in the bucket that did not arrive whole, nor a  *)
(* NAR that is not the one its narinfo announced (cache.go:347-424).       *)
THEOREM VerifiedTheorem == Spec => []OnlyVerifiedStored
<1>1. IInv => OnlyVerifiedStored
  BY DEF IInv
<1>2. QED
  BY <1>1, Invariance, PTL

-----------------------------------------------------------------------------
(* What clients, followers and memory are told, as an inductive invariant. *)
Backed(k) == \E b \in Body : <<k, b>> \in committed

(* Along a small flight: nothing is told before the body was read whole,   *)
(* then the leader's answer and what its followers will read are one body, *)
(* and a flight that has landed is over for its leader too.                *)
Led(r) ==
  LET p == req[r].pc
      f == flight[r]
      Told(b) == req[r].ans.status = "ok" /\ req[r].ans.body = b
  IN  Key(r) \in Small =>
        /\ p \notin {"put", "release", "land", "done"} => req[r].ans.status # "ok"
        /\ p \notin {"write", "put", "release", "land", "done"} => f.res # "ok"
        /\ p = "write" => f.body = req[r].body
        /\ p \in {"put", "release", "land"} /\ f.res = "ok" => Told(f.body)
        /\ f.done => p = "done" /\ (f.res = "ok" => Told(f.body))
        /\ f.res = "ok" => f.body \in Whole
        /\ req[r].on # NoReq => p \in {"wait", "done"}

Followed(r) ==
  LET f == flight[req[r].on] IN
  req[r].on # NoReq =>
    /\ Key(req[r].on) = Key(r)
    /\ Key(r) \in Small /\ req[r].ans.status = "ok" =>
         f.done /\ f.res = "ok" /\ req[r].ans.body = f.body

Clean(r) == req[r].ans.status = "ok" => req[r].ans.body \in Whole

Promises(r) ==
  /\ req[r].pc = "presign" \/ req[r].ans.status = "redirect" => Backed(Key(r))
  /\ flight[r].stored => Backed(Key(r))

Honest(r) == Led(r) /\ Followed(r) /\ Clean(r) /\ Promises(r)

StoreRecorded == \A k \in Keys : store[k] # Absent => <<k, store[k]>> \in committed
MemoryRecorded ==
  \A k \in Small : mem[k] # Absent => mem[k] \in Whole /\ <<k, mem[k]>> \in committed

HInv == /\ StoreRecorded
        /\ MemoryRecorded
        /\ \A r \in Reqs : Honest(r)

(* What a step of r's handler does to what others rely on.                 *)
Faithful(r) ==
  /\ Honest(r)'
  /\ StoreRecorded' /\ MemoryRecorded'
  /\ committed \subseteq committed'
  /\ \A q \in Reqs \ {r} : flight'[q] = flight[q]
  /\ flight[r].done => flight'[r].done
  /\ req'[r].pc = "wait" => req'[r].on = flights'[Key(r)]

LEMMA GotoKeeps ==
  ASSUME TypeOK, NEW r \in Reqs, NEW p \in PCs, Goto(r, p)
  PROVE  /\ req'[r].pc = p /\ req'[r].ans = req[r].ans /\ req'[r].on = req[r].on
         /\ req'[r].body = req[r].body /\ Key(r)' = Key(r) /\ Others(r)
<1>1. req \in [Reqs -> Request]
  BY DEF TypeOK
<1>2. req'[r] = [req[r] EXCEPT !.pc = p]
  BY <1>1 DEF Goto
<1>3. QED
  BY <1>1, <1>2, GotoOwn DEF Request, Key

LEMMA AnswerKeeps ==
  ASSUME TypeOK, NEW r \in Reqs, NEW p \in PCs, NEW s \in Status,
         NEW b \in Body \cup {Absent}, Answer(r, s, b, p)
  PROVE  /\ req'[r].pc = p /\ req'[r].ans = [status |-> s, body |-> b]
         /\ req'[r].on = req[r].on /\ Key(r)' = Key(r) /\ Others(r)
<1>1. req \in [Reqs -> Request]
  BY DEF TypeOK
<1>2. req'[r] = [req[r] EXCEPT !.pc = p, !.ans = [status |-> s, body |-> b]]
  BY <1>1 DEF Answer
<1>3. QED
  BY <1>1, <1>2, AnswerOwn DEF Request, Key

(* A request that is not told a whole body keeps what it follows.          *)
LEMMA FollowedKept ==
  ASSUME TypeOK, HInv, NEW r \in Reqs, Others(r),
         Key(r)' = Key(r), req'[r].on = req[r].on,
         Key(r) \in Small /\ req[r].on # NoReq => req'[r].ans.status # "ok"
  PROVE  Followed(r)'
<1>1. Followed(r)
  BY DEF HInv, Honest
<1>2. SUFFICES ASSUME req[r].on # NoReq PROVE Followed(r)'
  BY DEF Followed
<1>3. req[r].on \in Reqs
  BY <1>2 DEF TypeOK, Request
<1>4. Key(req[r].on)' = Key(req[r].on)
  BY <1>3 DEF Others, Key
<1>5. QED
  BY <1>1, <1>2, <1>4 DEF Followed

(* A step that moves on, or answers with no body, and touches nothing else,*)
(* of a request that has not been told anything yet.                       *)
LEMMA RestFaithful ==
  ASSUME TypeOK, HInv, NEW r \in Reqs, NEW p \in PCs \ {"wait"},
         UNCHANGED <<store, committed, mem, flight>>,
         \/ Goto(r, p)
         \/ \E s \in Status \ {"ok", "redirect"}, b \in Body \cup {Absent} : Answer(r, s, b, p),
         req[r].pc # "done",
         p = "presign" => Backed(Key(r)),
         Key(r) \in Small =>
           /\ req[r].pc \notin {"write", "put", "release", "land"}
           /\ p \notin {"write", "put"}
           /\ req[r].on # NoReq => p = "done"
  PROVE  Faithful(r)
<1>1. store' = store /\ committed' = committed /\ mem' = mem /\ flight' = flight
  OBVIOUS
<1>2. StoreRecorded' /\ MemoryRecorded'
  BY <1>1 DEF HInv, StoreRecorded, MemoryRecorded
<1>3. /\ req'[r].pc = p /\ req'[r].on = req[r].on /\ Key(r)' = Key(r) /\ Others(r)
      /\ \/ req'[r].ans = req[r].ans
         \/ req'[r].ans.status \notin {"ok", "redirect"}
  <2>1. CASE Goto(r, p)
    BY <2>1, GotoKeeps
  <2>2. ASSUME NEW s \in Status \ {"ok", "redirect"}, NEW b \in Body \cup {Absent},
               Answer(r, s, b, p)
        PROVE  /\ req'[r].pc = p /\ req'[r].on = req[r].on /\ Key(r)' = Key(r) /\ Others(r)
               /\ req'[r].ans.status \notin {"ok", "redirect"}
    <3>1. /\ req'[r].pc = p /\ req'[r].ans = [status |-> s, body |-> b]
          /\ req'[r].on = req[r].on /\ Key(r)' = Key(r) /\ Others(r)
      BY <2>2, AnswerKeeps
    <3>2. QED
      BY <3>1
  <2>3. QED
    BY <2>1, <2>2
<1>4. Led(r)'
  <2>1. Led(r)
    BY DEF HInv, Honest
  <2>2. Key(r) \in Small => req[r].ans.status # "ok" /\ flight[r].res # "ok" /\ ~flight[r].done
    BY <2>1 DEF Led
  <2>3. QED
    BY <1>1, <1>3, <2>2 DEF Led
<1>5. Clean(r)' /\ Promises(r)'
  BY <1>1, <1>3 DEF HInv, Honest, Clean, Promises, Backed
<1>6. Followed(r)'
  <2>1. Led(r)
    BY DEF HInv, Honest
  <2>2. Key(r) \in Small => req'[r].ans.status # "ok"
    BY <1>3, <2>1 DEF Led
  <2>3. QED
    BY <1>3, <2>2, FollowedKept
<1>7. QED
  BY <1>1, <1>2, <1>3, <1>4, <1>5, <1>6 DEF Faithful, Honest

(* ServeImmutable's answers are of what the bucket has held.               *)
LEMMA LookupFaithful ==
  ASSUME TypeOK, Shape, OnlyVerifiedStored, HInv, NEW r \in Reqs, Lookup(r)
  PROVE  Faithful(r)
<1>1. Honest(r) /\ StoreRecorded /\ MemoryRecorded /\ Key(r) \in Keys
  BY KeyType DEF HInv
<1>2. Led(r) /\ Promises(r)
  BY <1>1 DEF Honest
<1>3. Key(r) \in Small /\ req[r].pc \in {"mem", "store", "presign", "proxy"}
        => req[r].on = NoReq /\ flight[r].res # "ok" /\ ~flight[r].done
  BY <1>2 DEF Led
<1>4. ASSUME NEW b \in Whole, Answer(r, "ok", b, "done"),
             Key(r) \in Small, req[r].pc \in {"mem", "store"},
             UNCHANGED <<store, committed, flight>>, MemoryRecorded'
      PROVE  Faithful(r)
  <2>1. /\ req'[r].pc = "done" /\ req'[r].ans = [status |-> "ok", body |-> b]
        /\ req'[r].on = req[r].on /\ Key(r)' = Key(r) /\ Others(r)
    BY <1>4, AnswerKeeps DEF PCs, Status, Body
  <2>2. Led(r)' /\ Clean(r)'
    BY <1>3, <1>4, <2>1 DEF Led, Clean
  <2>3. Promises(r)'
    BY <1>2, <1>4, <2>1 DEF Promises, Backed
  <2>4. Followed(r)'
    BY <1>3, <1>4, <2>1, FollowedKept
  <2>5. QED
    BY <1>1, <1>4, <2>1, <2>2, <2>3, <2>4 DEF Faithful, Honest, StoreRecorded
<1>5. CASE LookupMem(r)
  <2>1. req[r].pc = "mem" /\ Key(r) \in Small
    BY <1>5 DEF LookupMem, At, Shape, Fits
  <2>2. UNCHANGED <<store, committed, mem, flight>> /\ MemoryRecorded'
    BY <1>1, <1>5 DEF LookupMem, memory, fetches, MemoryRecorded
  <2>3. CASE mem[Key(r)] # Absent
    BY <1>1, <1>4, <1>5, <2>1, <2>2, <2>3 DEF LookupMem, MemoryRecorded
  <2>4. CASE mem[Key(r)] = Absent
    BY <1>3, <1>5, <2>1, <2>2, <2>4, RestFaithful DEF LookupMem, PCs
  <2>5. QED
    BY <2>3, <2>4
<1>6. CASE HeadStore(r)
  <2>1. req[r].pc = "store" /\ Key(r) \in Large /\ Key(r) \notin Small
    BY <1>6, KeysAssumption DEF HeadStore, At
  <2>2. UNCHANGED <<store, committed, mem, flight>>
    BY <1>6 DEF HeadStore, Rest, bucket, memory, fetches
  <2>3. store[Key(r)] # Absent => Backed(Key(r))
    BY <1>1 DEF StoreRecorded, Backed, TypeOK
  <2>4. \/ Answer(r, "headOk", Absent, "done")
        \/ Goto(r, "presign") /\ Backed(Key(r))
        \/ Goto(r, "proxy") \/ Goto(r, "pull")
    BY <1>6, <2>3 DEF HeadStore
  <2>5. CASE Answer(r, "headOk", Absent, "done")
    BY <2>1, <2>2, <2>5, RestFaithful DEF PCs, Status
  <2>6. CASE Goto(r, "presign") /\ Backed(Key(r))
    BY <2>1, <2>2, <2>6, RestFaithful DEF PCs
  <2>7. CASE Goto(r, "proxy") \/ Goto(r, "pull")
    BY <2>1, <2>2, <2>7, RestFaithful DEF PCs
  <2>8. QED
    BY <2>4, <2>5, <2>6, <2>7
<1>7. CASE GetStore(r)
  <2>1. req[r].pc = "store" /\ Key(r) \in Small
    BY <1>7 DEF GetStore, At
  <2>2. UNCHANGED <<store, committed, flight>>
    BY <1>7 DEF GetStore, fetches
  <2>3. CASE store[Key(r)] # Absent
    <3>1. store[Key(r)] \in Whole /\ <<Key(r), store[Key(r)]>> \in committed
      BY <1>1, <2>3 DEF OnlyVerifiedStored, StoreRecorded
    <3>2. mem' = [mem EXCEPT ![Key(r)] = store[Key(r)]]
      BY <1>7, <2>3 DEF GetStore
    <3>3. MemoryRecorded'
      BY <1>1, <2>1, <2>2, <3>1, <3>2 DEF MemoryRecorded, TypeOK
    <3>4. QED
      BY <1>4, <1>7, <2>1, <2>2, <2>3, <3>1, <3>3 DEF GetStore
  <2>4. CASE store[Key(r)] = Absent
    BY <1>3, <1>7, <2>1, <2>2, <2>4, RestFaithful DEF GetStore, PCs
  <2>5. QED
    BY <2>3, <2>4
<1>8. CASE StoreError(r)
  <2>1. UNCHANGED <<store, committed, mem, flight>>
    BY <1>8 DEF StoreError, Rest, bucket, memory, fetches
  <2>2. QED
    BY <1>8, <2>1, RestFaithful DEF StoreError, At, PCs, Status
<1>9. CASE Presign(r)
  <2>1. req[r].pc = "presign" /\ Key(r) \notin Small
    BY <1>9, KeysAssumption DEF Presign, At, Shape, Fits
  <2>2. UNCHANGED <<store, committed, mem, flight>>
    BY <1>9 DEF Presign, Rest, bucket, memory, fetches
  <2>3. /\ req'[r].pc = "done" /\ req'[r].ans = [status |-> "redirect", body |-> Absent]
        /\ req'[r].on = req[r].on /\ Key(r)' = Key(r) /\ Others(r)
    BY <1>9, AnswerKeeps DEF Presign, PCs, Status
  <2>4. Led(r)' /\ Clean(r)'
    BY <2>1, <2>3 DEF Led, Clean
  <2>5. Promises(r)'
    BY <1>2, <2>1, <2>2, <2>3 DEF Promises, Backed
  <2>6. Followed(r)'
    BY <2>1, <2>3, FollowedKept
  <2>7. QED
    BY <1>1, <2>2, <2>3, <2>4, <2>5, <2>6
       DEF Faithful, Honest, StoreRecorded, MemoryRecorded
<1>10. CASE ProxyHead(r)
  <2>1. req[r].pc = "proxy" /\ Key(r) \notin Small
    BY <1>10, KeysAssumption DEF ProxyHead, At, Shape, Fits
  <2>2. UNCHANGED <<store, committed, mem, flight>>
    BY <1>10 DEF ProxyHead, Rest, bucket, memory, fetches
  <2>3. \E s \in Status \ {"ok", "redirect"}, b \in Body \cup {Absent} : Answer(r, s, b, "done")
    BY <1>10 DEF ProxyHead, Status
  <2>4. QED
    BY <2>1, <2>2, <2>3, RestFaithful DEF PCs
<1>11. QED
  BY <1>5, <1>6, <1>7, <1>8, <1>9, <1>10 DEF Lookup

(* Whoever joins a flight follows the leader of its own key, and is told   *)
(* what that leader read, or is sent to what it stored.                    *)
LEMMA BoardFaithful ==
  ASSUME TypeOK, Shape, SingleFlight, HInv, NEW r \in Reqs, Board(r)
  PROVE  Faithful(r)
<1>1. StoreRecorded /\ MemoryRecorded /\ Key(r) \in Keys
  BY KeyType DEF HInv
<1>2. Led(r) /\ Clean(r) /\ Promises(r)
  BY DEF HInv, Honest
<1>3. Key(r) \in Small /\ req[r].pc \in {"pull", "slot"} => req[r].on = NoReq
  BY <1>2 DEF Led
<1>4. CASE Join(r)
  <2>1. UNCHANGED <<store, committed, mem, flight, flights>>
    BY <1>4 DEF Join, Rest, bucket, memory, fetches
  <2>2. /\ Others(r) /\ req'[r].pc = "wait" /\ Key(r)' = Key(r)
        /\ req'[r].on = flights[Key(r)] /\ req'[r].ans = req[r].ans
    <3>1. req \in [Reqs -> Request]
      BY DEF TypeOK
    <3>2. req'[r] = [req[r] EXCEPT !.pc = "wait", !.on = flights[Key(r)]]
      BY <1>4, <3>1 DEF Join
    <3>3. QED
      BY <1>4, <3>1, <3>2, EditOwn DEF Request, Key
  <2>3. PICK l \in Reqs : l = flights[Key(r)] /\ Key(l) = Key(r)
    BY <1>1, <1>4 DEF Join, SingleFlight, TypeOK
  <2>4. Key(r) \in Small => req[r].ans.status # "ok" /\ flight[r].res # "ok" /\ ~flight[r].done
    BY <1>2, <1>4 DEF Led, Join, At
  <2>5. Led(r)' /\ Clean(r)' /\ Promises(r)'
    BY <1>2, <2>1, <2>2, <2>4 DEF Led, Clean, Promises, Backed
  <2>6. req'[r].on = l /\ req'[l].key = Key(r)
    BY <2>2, <2>3 DEF Others, Key
  <2>7. Followed(r)'
    BY <2>2, <2>4, <2>6 DEF Followed, Key
  <2>8. QED
    BY <1>1, <2>1, <2>2, <2>5, <2>7
       DEF Faithful, Honest, StoreRecorded, MemoryRecorded
<1>5. CASE Lead(r)
  <2>1. UNCHANGED <<store, committed, mem, flight>>
    BY <1>5 DEF Lead, bucket, memory
  <2>2. QED
    BY <1>3, <1>5, <2>1, RestFaithful DEF Lead, At, PCs
<1>6. CASE StopWaiting(r)
  <2>1. UNCHANGED <<store, committed, mem, flight>>
    BY <1>6 DEF StopWaiting, Rest, bucket, memory, fetches
  <2>2. QED
    BY <1>6, <2>1, RestFaithful DEF StopWaiting, At, PCs, Status
<1>7. CASE Follow(r)
  <2> DEFINE l == req[r].on
  <2>1. PICK p \in {"presign", "pull"} :
          FollowTo(r, p) /\ (p = "presign" => flight[l].stored)
    BY <1>7 DEF Follow
  <2>2. req[r].pc = "wait" /\ l \in Reqs /\ l # NoReq /\ flight[l].done
    BY <2>1, ReqsAssumption DEF FollowTo, At, Shape, Fits
  <2>3. Led(l) /\ Promises(l) /\ Key(l) = Key(r)
    BY <2>2 DEF HInv, Honest, Followed
  <2>4. UNCHANGED <<store, committed, mem, flight>>
    BY <2>1 DEF FollowTo, Rest, bucket, memory, fetches
  <2>5. \/ flight[l].res = "ok" /\ Key(r) \in Small /\ Answer(r, "ok", flight[l].body, "done")
        \/ flight[l].res = "ok" /\ Key(r) \in Large /\ Goto(r, p)
        \/ \E s \in {"notFound", "upstreamError"} : Answer(r, s, Absent, "done")
    <3>1. flight[l].res \in {"failed", "ok", "notFound"}
      BY <2>2 DEF TypeOK, Flight
    <3>2. QED
      BY <1>1, <2>1, <3>1 DEF FollowTo, Keys
  <2>6. CASE flight[l].res = "ok" /\ Key(r) \in Small /\ Answer(r, "ok", flight[l].body, "done")
    <3>1. flight[l].body \in Whole
      BY <2>3, <2>6 DEF Led
    <3>2. /\ req'[r].pc = "done" /\ req'[r].ans = [status |-> "ok", body |-> flight[l].body]
          /\ req'[r].on = l /\ Key(r)' = Key(r) /\ Others(r)
      BY <2>6, <3>1, AnswerKeeps DEF PCs, Status, Body
    <3>3. flight[r].res # "ok" /\ ~flight[r].done
      BY <1>2, <2>2, <2>6 DEF Led
    <3>4. Led(r)' /\ Clean(r)'
      BY <2>4, <3>1, <3>2, <3>3 DEF Led, Clean
    <3>5. Promises(r)'
      BY <1>2, <2>4, <3>2 DEF Promises, Backed
    <3>6. Key(l)' = Key(l)
      BY <2>2, <3>2 DEF Others, Key
    <3>7. Followed(r)'
      BY <2>2, <2>3, <2>4, <2>6, <3>2, <3>6 DEF Followed
    <3>8. QED
      BY <1>1, <2>4, <3>2, <3>4, <3>5, <3>7
         DEF Faithful, Honest, StoreRecorded, MemoryRecorded
  <2>7. CASE flight[l].res = "ok" /\ Key(r) \in Large /\ Goto(r, p)
    <3>1. Key(r) \notin Small
      BY <2>7, KeysAssumption
    <3>2. p = "presign" => Backed(Key(r))
      BY <2>1, <2>3 DEF Promises
    <3>3. p \in PCs \ {"wait"}
      BY DEF PCs
    <3>4. QED
      BY <2>2, <2>4, <2>7, <3>1, <3>2, <3>3, RestFaithful
  <2>8. ASSUME NEW s \in {"notFound", "upstreamError"}, Answer(r, s, Absent, "done")
        PROVE  Faithful(r)
    BY <2>2, <2>4, <2>8, RestFaithful DEF PCs, Status
  <2>9. QED
    BY <2>5, <2>6, <2>7, <2>8
<1>8. CASE AcquireSlot(r)
  <2>1. UNCHANGED <<store, committed, mem, flight>>
    BY <1>8 DEF AcquireSlot, TakeSlot, bucket, memory
  <2>2. CASE Goto(r, "expect")
    BY <1>3, <1>8, <2>1, <2>2, RestFaithful DEF AcquireSlot, TakeSlot, At, PCs
  <2>3. CASE Goto(r, "fetch")
    BY <1>3, <1>8, <2>1, <2>3, RestFaithful DEF AcquireSlot, TakeSlot, At, PCs
  <2>4. QED
    BY <1>8, <2>2, <2>3 DEF AcquireSlot, TakeSlot
<1>9. CASE StopQueueing(r)
  <2>1. UNCHANGED <<store, committed, mem, flight>>
    BY <1>9 DEF StopQueueing, LeaveQueue, Rest, bucket, memory, fetches
  <2>2. QED
    BY <1>3, <1>9, <2>1, RestFaithful DEF StopQueueing, LeaveQueue, At, PCs, Status
<1>10. QED
  BY <1>4, <1>5, <1>6, <1>7, <1>8, <1>9 DEF Board

(* A fetch that ends without a body tells nobody anything.                 *)
LEMMA FetchFaithful ==
  ASSUME TypeOK, HInv, NEW r \in Reqs, FetchOrAnswer(r)
  PROVE  Faithful(r)
<1>1. StoreRecorded /\ MemoryRecorded /\ Key(r) \in Keys
  BY KeyType DEF HInv
<1>2. Led(r) /\ Clean(r) /\ Promises(r)
  BY DEF HInv, Honest
<1>3. Key(r) \in Small /\ req[r].pc = "fetch" => req[r].on = NoReq
  BY <1>2 DEF Led
<1>4. CASE FetchFails(r)
  <2>1. UNCHANGED <<store, committed, mem, flight>>
    BY <1>4 DEF FetchFails, Rest, bucket, memory, fetches
  <2>2. QED
    BY <1>3, <1>4, <2>1, RestFaithful DEF FetchFails, At, PCs, Status
<1>5. CASE FetchNotFound(r)
  <2>1. /\ UNCHANGED <<store, committed, mem>>
        /\ \A q \in Reqs \ {r} : flight'[q] = flight[q]
        /\ flight'[r].done = flight[r].done /\ flight'[r].res = "notFound"
        /\ flight'[r].stored = flight[r].stored
    <3>1. flight[r] \in Flight
      BY DEF TypeOK
    <3>2. flight'[r] = [flight[r] EXCEPT !.res = "notFound"]
      BY <1>5 DEF FetchNotFound, TypeOK
    <3>3. QED
      BY <1>5, <3>1, <3>2 DEF FetchNotFound, bucket, TypeOK, Flight
  <2>2. /\ req'[r].pc = "release" /\ req'[r].ans = [status |-> "notFound", body |-> Absent]
        /\ req'[r].on = req[r].on /\ Key(r)' = Key(r) /\ Others(r)
    BY <1>5, AnswerKeeps DEF FetchNotFound, PCs, Status
  <2>3. Led(r)'
    BY <1>2, <1>3, <1>5, <2>1, <2>2 DEF Led, FetchNotFound, At
  <2>4. Clean(r)' /\ Promises(r)'
    BY <1>2, <2>1, <2>2 DEF Clean, Promises, Backed
  <2>5. Followed(r)'
    BY <2>2, FollowedKept
  <2>6. QED
    BY <1>1, <2>1, <2>2, <2>3, <2>4, <2>5
       DEF Faithful, Honest, StoreRecorded, MemoryRecorded
<1>6. CASE FetchOK(r)
  <2>1. UNCHANGED <<store, committed, mem, flight>>
    BY <1>6 DEF FetchOK, Rest, bucket, memory, fetches
  <2>2. PICK p \in {"read", "pass", "upload"} : Goto(r, p)
    BY <1>6 DEF FetchOK
  <2>3. QED
    BY <1>3, <1>6, <2>1, <2>2, RestFaithful DEF FetchOK, At, PCs
<1>7. QED
  BY <1>4, <1>5, <1>6 DEF FetchOrAnswer

(* A small body is told once it was read whole, and kept once stored.      *)
LEMMA LeadSmallFaithful ==
  ASSUME TypeOK, Shape, HInv, NEW r \in Reqs, LeadSmall(r)
  PROVE  Faithful(r)
<1>0. StoreRecorded /\ MemoryRecorded /\ Key(r) \in Keys
  BY KeyType DEF HInv
<1>1. Led(r) /\ Clean(r) /\ Promises(r) /\ Fits(r)
  BY DEF HInv, Honest, Shape
<1>2. req[r].pc \in {"read", "write", "put"} => Key(r) \in Small /\ req[r].on = NoReq
  BY <1>1 DEF Fits, Led
<1>3. flight[r] \in Flight
  BY DEF TypeOK
<1>4. ASSUME NEW b \in Body, ReadSmall(r, b) PROVE Faithful(r)
  <2>1. /\ UNCHANGED <<store, committed, mem>>
        /\ \A q \in Reqs \ {r} : flight'[q] = flight[q]
        /\ flight'[r].done = flight[r].done /\ flight'[r].stored = flight[r].stored
        /\ flight'[r].res = "ok" /\ flight'[r].body = b
    <3>1. flight'[r] = [flight[r] EXCEPT !.res = "ok", !.body = b]
      BY <1>4 DEF ReadSmall, TypeOK
    <3>2. QED
      BY <1>3, <1>4, <3>1 DEF ReadSmall, memory, TypeOK, Flight
  <2>2. /\ Others(r) /\ req'[r].pc = "write" /\ Key(r)' = Key(r)
        /\ req'[r].on = req[r].on /\ req'[r].ans = req[r].ans /\ req'[r].body = b
    <3>1. req \in [Reqs -> Request]
      BY DEF TypeOK
    <3>2. req'[r] = [req[r] EXCEPT !.pc = "write", !.body = b]
      BY <1>4, <3>1 DEF ReadSmall
    <3>3. QED
      BY <1>4, <3>1, <3>2, EditOwn DEF Request, Key
  <2>3. b \in Whole /\ req[r].pc = "read"
    BY <1>4 DEF ReadSmall, FrEnd, At
  <2>4. Led(r)'
    BY <1>1, <1>2, <2>1, <2>2, <2>3 DEF Led
  <2>5. Clean(r)' /\ Promises(r)'
    BY <1>1, <2>1, <2>2, <2>3 DEF Clean, Promises, Backed
  <2>6. Followed(r)'
    BY <1>2, <2>2, <2>3, FollowedKept
  <2>7. QED
    BY <1>0, <2>1, <2>2, <2>4, <2>5, <2>6
       DEF Faithful, Honest, StoreRecorded, MemoryRecorded
<1>5. ASSUME NEW b \in Body, ReadSmallFails(r, b) PROVE Faithful(r)
  <2>1. UNCHANGED <<store, committed, mem, flight>>
    BY <1>5 DEF ReadSmallFails, Rest, bucket, memory, fetches
  <2>2. QED
    BY <1>2, <1>5, <2>1, RestFaithful DEF ReadSmallFails, At, PCs, Status
<1>6. CASE WriteSmall(r)
  <2>1. UNCHANGED <<store, committed, mem, flight>>
    BY <1>6 DEF WriteSmall, Rest, bucket, memory, fetches
  <2>2. req[r].pc = "write" /\ req[r].body \in Whole
    BY <1>1, <1>6 DEF WriteSmall, At, Fits
  <2>3. /\ req'[r].pc = "put" /\ req'[r].ans = [status |-> "ok", body |-> req[r].body]
        /\ req'[r].on = req[r].on /\ Key(r)' = Key(r) /\ Others(r)
    BY <1>6, <2>2, AnswerKeeps DEF WriteSmall, PCs, Status, Body
  <2>4. Led(r)' /\ Clean(r)'
    BY <1>1, <1>2, <2>1, <2>2, <2>3 DEF Led, Clean
  <2>5. Promises(r)'
    BY <1>1, <2>1, <2>3 DEF Promises, Backed
  <2>6. Followed(r)'
    BY <1>2, <2>2, <2>3, FollowedKept
  <2>7. QED
    BY <1>0, <2>1, <2>3, <2>4, <2>5, <2>6
       DEF Faithful, Honest, StoreRecorded, MemoryRecorded
<1>7. CASE PutSmall(r)
  <2>1. req[r].pc = "put" /\ req[r].body \in Whole
    BY <1>1, <1>7 DEF PutSmall, At, Fits
  <2>2. /\ store' = [store EXCEPT ![Key(r)] = req[r].body]
        /\ committed' = committed \cup {<<Key(r), req[r].body>>}
        /\ mem' = [mem EXCEPT ![Key(r)] = req[r].body]
    BY <1>7 DEF PutSmall, Commit
  <2>3. StoreRecorded' /\ MemoryRecorded'
    <3>1. StoreRecorded'
      BY <1>0, <2>2 DEF StoreRecorded, TypeOK
    <3>2. MemoryRecorded'
      BY <1>0, <2>1, <2>2 DEF MemoryRecorded, TypeOK
    <3>3. QED
      BY <3>1, <3>2
  <2>4. /\ \A q \in Reqs \ {r} : flight'[q] = flight[q]
        /\ flight'[r].done = flight[r].done
        /\ flight'[r].res = flight[r].res /\ flight'[r].body = flight[r].body
    <3>1. flight'[r] = [flight[r] EXCEPT !.stored = TRUE]
      BY <1>7 DEF PutSmall, TypeOK
    <3>2. QED
      BY <1>3, <1>7, <3>1 DEF PutSmall, TypeOK, Flight
  <2>5. /\ req'[r].pc = "release" /\ req'[r].ans = req[r].ans
        /\ req'[r].on = req[r].on /\ Key(r)' = Key(r) /\ Others(r)
    BY <1>7, GotoKeeps DEF PutSmall, PCs
  <2>6. Led(r)' /\ Clean(r)'
    BY <1>1, <1>2, <2>1, <2>4, <2>5 DEF Led, Clean
  <2>7. Promises(r)'
    <3>1. Backed(Key(r))'
      BY <2>1, <2>2, <2>5 DEF Backed, Body
    <3>2. QED
      BY <3>1 DEF Promises
  <2>8. Followed(r)'
    BY <1>2, <2>1, <2>5, FollowedKept
  <2>9. QED
    BY <2>2, <2>3, <2>4, <2>5, <2>6, <2>7, <2>8 DEF Faithful, Honest
<1>8. CASE PutSmallFails(r)
  <2>1. req[r].pc = "put" /\ req[r].body \in Whole
    BY <1>1, <1>8 DEF PutSmallFails, At, Fits
  <2>2. PerhapsCommit(Key(r), req[r].body) /\ UNCHANGED <<mem, flight>>
    BY <1>8 DEF PutSmallFails, memory, fetches
  <2>3. committed \subseteq committed' /\ StoreRecorded' /\ MemoryRecorded'
    BY <1>0, <2>2 DEF PerhapsCommit, Commit, StoreRecorded, MemoryRecorded, TypeOK
  <2>4. /\ req'[r].pc = "release" /\ req'[r].ans = req[r].ans
        /\ req'[r].on = req[r].on /\ Key(r)' = Key(r) /\ Others(r)
    BY <1>8, GotoKeeps DEF PutSmallFails, PCs
  <2>5. Led(r)' /\ Clean(r)'
    BY <1>1, <1>2, <2>1, <2>2, <2>4 DEF Led, Clean
  <2>6. Promises(r)'
    BY <1>1, <2>2, <2>3, <2>4 DEF Promises, Backed
  <2>7. Followed(r)'
    BY <1>2, <2>1, <2>4, FollowedKept
  <2>8. QED
    BY <2>2, <2>3, <2>4, <2>5, <2>6, <2>7 DEF Faithful, Honest
<1>9. QED
  BY <1>4, <1>5, <1>6, <1>7, <1>8 DEF LeadSmall

(* A large body ends cleanly when it was whole, and counts as stored when  *)
(* the store said so.                                                      *)
LEMMA LeadLargeFaithful ==
  ASSUME TypeOK, Shape, HInv, NEW r \in Reqs, LeadLarge(r)
  PROVE  Faithful(r)
<1>0. StoreRecorded /\ MemoryRecorded /\ Key(r) \in Keys
  BY KeyType DEF HInv
<1>1. Clean(r) /\ Promises(r) /\ Fits(r)
  BY DEF HInv, Honest, Shape
<1>2. req[r].pc \in {"expect", "pass", "upload", "drain"} => Key(r) \notin Small
  BY <1>1, KeysAssumption DEF Fits
<1>3. CASE Expect(r)
  <2>1. UNCHANGED <<store, committed, mem, flight>> /\ Key(r) \notin Small
    BY <1>2, <1>3 DEF Expect, At, Rest, bucket, memory, fetches
  <2>2. /\ Others(r) /\ req'[r].pc = "fetch" /\ Key(r)' = Key(r)
        /\ req'[r].on = req[r].on /\ req'[r].ans = req[r].ans
    <3>1. req \in [Reqs -> Request]
      BY DEF TypeOK
    <3>2. PICK w : req'[r] = [req[r] EXCEPT !.pc = "fetch", !.want = w]
      BY <1>3, <3>1 DEF Expect
    <3>3. QED
      BY <1>3, <3>1, <3>2, EditOwn DEF Request, Key
  <2>3. Led(r)' /\ Clean(r)' /\ Promises(r)'
    BY <1>1, <2>1, <2>2 DEF Led, Clean, Promises, Backed
  <2>4. Followed(r)'
    BY <2>1, <2>2, FollowedKept
  <2>5. QED
    BY <1>0, <2>1, <2>2, <2>3, <2>4
       DEF Faithful, Honest, StoreRecorded, MemoryRecorded
<1>4. CASE ExpectFails(r)
  <2>1. UNCHANGED <<store, committed, mem, flight>> /\ Key(r) \notin Small
    BY <1>2, <1>4 DEF ExpectFails, At, Rest, bucket, memory, fetches
  <2>2. QED
    BY <1>4, <2>1, RestFaithful DEF ExpectFails, At, PCs, Status
<1>5. CASE UploadFails(r)
  <2>1. UNCHANGED <<store, committed, mem, flight>> /\ Key(r) \notin Small
    BY <1>2, <1>5 DEF UploadFails, At, Rest, bucket, memory, fetches
  <2>2. QED
    BY <1>5, <2>1, RestFaithful DEF UploadFails, At, PCs
<1>6. ASSUME NEW b \in Whole \cup {"cut"}, BodyBreaks(r, b) PROVE Faithful(r)
  <2>1. UNCHANGED <<store, committed, mem, flight>> /\ Key(r) \notin Small
    BY <1>2, <1>6 DEF BodyBreaks, At, Rest, bucket, memory, fetches
  <2>2. req[r].pc # "done" /\ Answer(r, "broken", b, "release")
    BY <1>6 DEF BodyBreaks, At
  <2>3. "broken" \in Status \ {"ok", "redirect"} /\ b \in Body \cup {Absent}
    BY DEF Status, Body
  <2>4. "release" \in PCs \ {"wait"} /\ "release" # "presign"
    BY DEF PCs
  <2>5. QED
    BY <2>1, <2>2, <2>3, <2>4, RestFaithful
<1>7. ASSUME NEW b \in Whole \cup {"cut"},
             \/ PassThrough(r, b) \/ Upload(r, b) \/ UploadUnacknowledged(r, b)
             \/ Drain(r, b) \/ VerifyFails(r, b)
      PROVE  Faithful(r)
  <2>1. PICK st \in BOOLEAN :
          /\ Served(r, b, st)
          /\ st => Commit(Key(r), b)
          /\ PerhapsCommit(Key(r), b)
    BY <1>7 DEF PassThrough, Upload, UploadUnacknowledged, Drain, VerifyFails, PerhapsCommit
  <2>2. b \in Whole /\ b \in Body /\ Key(r) \notin Small
    BY <1>2, <1>7 DEF PassThrough, Upload, UploadUnacknowledged, Drain, VerifyFails, At,
         FrEnd, Body
  <2>3. /\ mem' = mem /\ committed \subseteq committed'
        /\ StoreRecorded' /\ MemoryRecorded'
    <3>1. mem' = mem
      BY <2>1 DEF Served, memory
    <3>2. committed \subseteq committed' /\ StoreRecorded'
      BY <1>0, <2>1, <2>2 DEF PerhapsCommit, Commit, StoreRecorded, TypeOK
    <3>3. QED
      BY <1>0, <3>1, <3>2 DEF MemoryRecorded
  <2>4. /\ \A q \in Reqs \ {r} : flight'[q] = flight[q]
        /\ flight'[r].done = flight[r].done /\ flight'[r].stored = st
    <3>1. flight[r] \in Flight
      BY DEF TypeOK
    <3>2. flight'[r] = [flight[r] EXCEPT !.res = "ok", !.stored = st]
      BY <2>1 DEF Served, TypeOK
    <3>3. QED
      BY <2>1, <3>1, <3>2 DEF Served, TypeOK, Flight
  <2>5. /\ req'[r].pc = "release" /\ req'[r].ans = [status |-> "ok", body |-> b]
        /\ req'[r].on = req[r].on /\ Key(r)' = Key(r) /\ Others(r)
    BY <2>1, <2>2, AnswerKeeps DEF Served, PCs, Status
  <2>6. Led(r)' /\ Clean(r)'
    BY <2>2, <2>5 DEF Led, Clean
  <2>7. st => Backed(Key(r))'
    BY <2>1, <2>2, <2>5 DEF Commit, Backed
  <2>8. Promises(r)'
    BY <2>4, <2>5, <2>7 DEF Promises
  <2>9. Followed(r)'
    BY <2>2, <2>5, FollowedKept
  <2>10. QED
    BY <2>3, <2>4, <2>5, <2>6, <2>8, <2>9 DEF Faithful, Honest
<1>8. QED
  BY <1>3, <1>4, <1>5, <1>6, <1>7 DEF LeadLarge

(* A flight lands with what its leader was told.                           *)
LEMMA DefersFaithful ==
  ASSUME TypeOK, HInv, NEW r \in Reqs, ReleaseSlot(r) \/ Land(r)
  PROVE  Faithful(r)
<1>1. Led(r) /\ Clean(r) /\ Promises(r) /\ StoreRecorded /\ MemoryRecorded
  BY DEF HInv, Honest
<1>2. UNCHANGED <<store, committed, mem>>
  BY DEF ReleaseSlot, Land, Lands, bucket, memory
<1>3. PICK p \in {"land", "done"} :
        /\ Goto(r, p) /\ req[r].pc \in {"release", "land"}
        /\ p = "land" => flight' = flight
        /\ p = "done" => flight' = [flight EXCEPT ![r].done = TRUE]
  BY DEF ReleaseSlot, Land, Lands, At
<1>4. /\ req'[r].pc = p /\ req'[r].ans = req[r].ans
      /\ req'[r].on = req[r].on /\ Key(r)' = Key(r) /\ Others(r)
  BY <1>3, GotoKeeps DEF PCs
<1>5. /\ \A q \in Reqs \ {r} : flight'[q] = flight[q]
      /\ flight'[r].res = flight[r].res /\ flight'[r].body = flight[r].body
      /\ flight'[r].stored = flight[r].stored
      /\ flight'[r].done = (flight[r].done \/ p = "done")
  <2>1. flight \in [Reqs -> Flight] /\ flight[r] \in Flight
    BY DEF TypeOK
  <2>2. CASE p = "land"
    BY <1>3, <2>1, <2>2 DEF Flight
  <2>3. CASE p = "done"
    <3>1. flight'[r] = [flight[r] EXCEPT !.done = TRUE]
      BY <1>3, <2>1, <2>3
    <3>2. QED
      BY <1>3, <2>1, <2>3, <3>1 DEF Flight
  <2>4. QED
    BY <2>2, <2>3
<1>6. Led(r)'
  BY <1>1, <1>3, <1>4, <1>5 DEF Led
<1>7. Clean(r)' /\ Promises(r)'
  BY <1>1, <1>2, <1>4, <1>5 DEF Clean, Promises, Backed
<1>8. Followed(r)'
  <2>1. Key(r) \in Small => req[r].on = NoReq
    BY <1>1, <1>3 DEF Led
  <2>2. QED
    BY <1>4, <2>1, FollowedKept
<1>9. QED
  BY <1>1, <1>2, <1>4, <1>5, <1>6, <1>7, <1>8
     DEF Faithful, Honest, StoreRecorded, MemoryRecorded

LEMMA HandleFaithful ==
  ASSUME TypeOK, Shape, OnlyVerifiedStored, SingleFlight, HInv, NEW r \in Reqs, Handle(r)
  PROVE  Faithful(r)
BY LookupFaithful, BoardFaithful, FetchFaithful, LeadSmallFaithful, LeadLargeFaithful,
   DefersFaithful DEF Handle

LEMMA HandleBusy ==
  ASSUME NEW r \in Reqs, Handle(r)
  PROVE  req[r].pc # "done"
<1> USE DEF At
<1>1. CASE Lookup(r) \/ Board(r)
  BY <1>1 DEF Lookup, LookupMem, HeadStore, GetStore, StoreError, Presign, ProxyHead,
       Board, Join, Lead, StopWaiting, Follow, FollowTo, AcquireSlot, TakeSlot,
       StopQueueing, LeaveQueue
<1>2. CASE FetchOrAnswer(r) \/ LeadSmall(r) \/ ReleaseSlot(r) \/ Land(r)
  BY <1>2 DEF FetchOrAnswer, FetchFails, FetchNotFound, FetchOK, LeadSmall, ReadSmall,
       ReadSmallFails, WriteSmall, PutSmall, PutSmallFails, ReleaseSlot, Land, Lands
<1>3. CASE LeadLarge(r)
  BY <1>3 DEF LeadLarge, Expect, ExpectFails, UploadFails, PassThrough, Upload,
       UploadUnacknowledged, Drain, VerifyFails, BodyBreaks
<1>4. QED
  BY <1>1, <1>2, <1>3 DEF Handle

(* What a faithful step of r leaves true of everybody else.                *)
LEMMA OthersHonest ==
  ASSUME TypeOK, HInv, NEW r \in Reqs, Own(r), Faithful(r), req[r].pc # "done",
         NEW q \in Reqs
  PROVE  Honest(q)'
<1>1. CASE q = r
  BY <1>1 DEF Faithful
<1>2. CASE q # r
  <2>1. req'[q] = req[q] /\ flight'[q] = flight[q] /\ committed \subseteq committed'
    BY <1>2 DEF Own, Others, Faithful
  <2>2. Led(q) /\ Followed(q) /\ Clean(q) /\ Promises(q) /\ Led(r)
    BY DEF HInv, Honest
  <2>3. Led(q)' /\ Clean(q)' /\ Promises(q)'
    BY <2>1, <2>2 DEF Led, Clean, Promises, Backed, Key
  <2>4. Followed(q)'
    <3>1. SUFFICES ASSUME req[q].on # NoReq PROVE Followed(q)'
      BY <2>1 DEF Followed
    <3>2. PICK l \in Reqs : l = req[q].on
      BY <3>1 DEF TypeOK, Request
    <3>3. Key(l) = Key(q) /\ req'[l].key = req[l].key
      BY <2>2, <3>1, <3>2 DEF Followed, Own, Others
    <3>4. CASE Key(q) \in Small /\ req[q].ans.status = "ok"
      <4>1. flight[l].done /\ flight[l].res = "ok" /\ req[q].ans.body = flight[l].body
        BY <2>2, <3>1, <3>2, <3>4 DEF Followed
      <4>2. l # r
        BY <2>2, <3>3, <3>4, <4>1 DEF Led
      <4>3. flight'[l] = flight[l]
        BY <4>2 DEF Faithful
      <4>4. QED
        BY <2>1, <3>2, <3>3, <4>1, <4>3 DEF Followed, Key
    <3>5. CASE ~(Key(q) \in Small /\ req[q].ans.status = "ok")
      BY <2>1, <3>2, <3>3, <3>5 DEF Followed, Key
    <3>6. QED
      BY <3>4, <3>5
  <2>5. QED
    BY <2>3, <2>4 DEF Honest
<1>3. QED
  BY <1>1, <1>2

LEMMA HonestAll ==
  ASSUME TypeOK, HInv, NEW r \in Reqs, Own(r), Faithful(r), req[r].pc # "done"
  PROVE  HInv'
BY OthersHonest DEF HInv, Faithful

LEMMA ClientsHonest ==
  ASSUME TypeOK, HInv, Clients
  PROVE  HInv'
<1>1. ASSUME NEW r \in Reqs, Own(r),
             UNCHANGED <<store, committed, mem, flight>>,
             req'[r].on = req[r].on, req[r].pc # "done",
             \/ req'[r].ans = req[r].ans /\ req'[r].pc = req[r].pc /\ req'[r].body = req[r].body
             \/ req'[r].ans = req[r].ans /\ req'[r].pc \in {"mem", "store"} /\ req[r].pc = "idle"
             \/ req'[r].ans.status = "notFound" /\ req'[r].pc = "done"
      PROVE  HInv'
  <2>1. Key(r)' = Key(r) /\ Others(r)
    BY <1>1 DEF Own, Key
  <2>2. Led(r) /\ Followed(r) /\ Clean(r) /\ Promises(r)
    BY DEF HInv, Honest
  <2>3. Key(r) \in Small => ~flight[r].done
    BY <1>1, <2>2 DEF Led
  <2>4. Led(r)'
    BY <1>1, <2>1, <2>2, <2>3 DEF Led
  <2>5. Clean(r)' /\ Promises(r)'
    BY <1>1, <2>1, <2>2 DEF Clean, Promises, Backed
  <2>6. Followed(r)'
    <3>1. Key(r) \in Small /\ req[r].on # NoReq => req'[r].ans.status # "ok"
      BY <1>1, <2>2 DEF Led
    <3>2. QED
      BY <1>1, <2>1, <3>1, FollowedKept
  <2>7. Honest(r)' /\ StoreRecorded' /\ MemoryRecorded'
    BY <1>1, <2>4, <2>5, <2>6 DEF Honest, HInv, StoreRecorded, MemoryRecorded
  <2>8. ASSUME NEW q \in Reqs \ {r} PROVE Honest(q)'
    <3>1. req'[q] = req[q] /\ Led(q) /\ Followed(q) /\ Clean(q) /\ Promises(q)
      BY <2>1 DEF Others, HInv, Honest
    <3>2. Led(q)' /\ Clean(q)' /\ Promises(q)'
      BY <1>1, <3>1 DEF Led, Clean, Promises, Backed, Key
    <3>3. req[q].on # NoReq => req'[req[q].on].key = req[req[q].on].key
      BY <1>1, <3>1 DEF TypeOK, Request, Own, Others
    <3>4. Followed(q)'
      BY <1>1, <3>1, <3>3 DEF Followed, Key
    <3>5. QED
      BY <3>2, <3>4 DEF Honest
  <2>9. QED
    BY <2>7, <2>8 DEF HInv
<1>2. ASSUME NEW r \in Reqs, NEW h \in BOOLEAN, Arrive(r, h) PROVE HInv'
  <2>1. req \in [Reqs -> Request] /\ req[r] \in Request
    BY DEF TypeOK
  <2>2. UNCHANGED <<store, committed, mem, flight>> /\ req[r].pc = "idle"
    BY <1>2 DEF Arrive, At, Rest, bucket, memory, fetches
  <2>3. Own(r)
    BY <1>2, EditOwn DEF Own
  <2>4. \/ \E p \in {"mem", "store"} : req'[r] = [req[r] EXCEPT !.head = h, !.pc = p]
        \/ req'[r] = [req[r] EXCEPT !.head = h, !.pc = "done",
                                     !.ans = [status |-> "notFound", body |-> Absent]]
    BY <1>2, <2>1 DEF Arrive, Request
  <2>5. CASE \E p \in {"mem", "store"} : req'[r] = [req[r] EXCEPT !.head = h, !.pc = p]
    <3>1. /\ req'[r].on = req[r].on /\ req'[r].ans = req[r].ans
          /\ req'[r].pc \in {"mem", "store"}
      BY <2>1, <2>5 DEF Request
    <3>2. QED
      BY <1>1, <2>2, <2>3, <3>1
  <2>6. CASE req'[r] = [req[r] EXCEPT !.head = h, !.pc = "done",
                                      !.ans = [status |-> "notFound", body |-> Absent]]
    <3>1. /\ req'[r].on = req[r].on /\ req'[r].ans.status = "notFound"
          /\ req'[r].pc = "done"
      BY <2>1, <2>6 DEF Request
    <3>2. QED
      BY <1>1, <2>2, <2>3, <3>1
  <2>7. QED
    BY <2>4, <2>5, <2>6
<1>3. ASSUME NEW r \in Reqs, NEW c \in {"stalled", "gone"}, ClientBecomes(r, c) PROVE HInv'
  <2>1. req[r] \in Request
    BY DEF TypeOK
  <2>2. Others(r) /\ req'[r] = [req[r] EXCEPT !.client = c]
    BY <1>3, EditOwn
  <2>3. /\ req'[r].pc = req[r].pc /\ req'[r].key = req[r].key /\ req'[r].on = req[r].on
        /\ req'[r].ans = req[r].ans /\ req'[r].body = req[r].body
    BY <2>1, <2>2 DEF Request
  <2>4. UNCHANGED <<store, committed, mem, flight>> /\ req[r].pc # "done"
    BY <1>3 DEF ClientBecomes, bucket, memory, fetches
  <2>5. QED
    BY <1>1, <2>2, <2>3, <2>4 DEF Own
<1>4. QED
  BY <1>2, <1>3 DEF Clients

(* The bucket and memory lose and gain objects; nobody is told otherwise.  *)
LEMMA RequestsHonest ==
  ASSUME HInv, UNCHANGED <<flight, req>>, committed \subseteq committed'
  PROVE  \A r \in Reqs : Honest(r)'
<1> SUFFICES ASSUME NEW r \in Reqs PROVE Honest(r)'
  OBVIOUS
<1>1. Led(r) /\ Followed(r) /\ Clean(r) /\ Promises(r)
  BY DEF HInv, Honest
<1>2. Led(r)' /\ Followed(r)'
  BY <1>1 DEF Led, Followed, Key
<1>3. Clean(r)' /\ Promises(r)'
  BY <1>1 DEF Clean, Promises, Backed, Key
<1>4. QED
  BY <1>2, <1>3 DEF Honest

(* A restart answers nobody: what had been told stands.                    *)
LEMMA RestartHonest ==
  ASSUME TypeOK, HInv, Restart
  PROVE  HInv'
<1>1. UNCHANGED <<store, committed, flight>> /\ mem' = [k \in Small |-> Absent]
  BY DEF Restart, bucket
<1>2. StoreRecorded' /\ MemoryRecorded'
  BY <1>1 DEF HInv, StoreRecorded, MemoryRecorded
<1>3. ASSUME NEW r \in Reqs
      PROVE  /\ req'[r].on = req[r].on /\ req'[r].key = req[r].key
             /\ \/ req'[r] = req[r] /\ req[r].pc \in {"idle", "done"}
                \/ /\ req'[r].pc = "done" /\ req[r].pc # "done"
                   /\ req'[r].ans = req[r].ans \/ req'[r].ans.status = "lost"
  <2>1. req'[r] = Killed(r) /\ req[r] \in Request
    BY DEF Restart, TypeOK
  <2>2. CASE req[r].pc \in {"idle", "done"}
    BY <2>1, <2>2 DEF Killed
  <2>3. CASE req[r].pc \notin {"idle", "done"}
    <3>1. \E a \in {req[r].ans, Lost} : req'[r] = [req[r] EXCEPT !.pc = "done", !.ans = a]
      BY <2>1, <2>3 DEF Killed
    <3>2. QED
      BY <2>1, <2>3, <3>1 DEF Request, Lost
  <2>4. QED
    BY <2>2, <2>3
<1>4. ASSUME NEW r \in Reqs PROVE Honest(r)'
  <2>1. Led(r) /\ Followed(r) /\ Clean(r) /\ Promises(r)
    BY DEF HInv, Honest
  <2>2. Led(r)'
    BY <1>1, <1>3, <2>1 DEF Led, Key
  <2>3. Clean(r)' /\ Promises(r)'
    BY <1>1, <1>3, <2>1 DEF Clean, Promises, Backed, Key
  <2>4. req[r].on # NoReq => req'[req[r].on].key = req[req[r].on].key
    BY <1>3 DEF TypeOK, Request
  <2>5. Followed(r)'
    BY <1>1, <1>3, <2>1, <2>4 DEF Followed, Key
  <2>6. QED
    BY <2>2, <2>3, <2>5 DEF Honest
<1>5. QED
  BY <1>2, <1>4 DEF HInv

LEMMA SurroundingsHonest ==
  ASSUME TypeOK, HInv, Surroundings
  PROVE  HInv'
<1>0. StoreRecorded /\ MemoryRecorded
  BY DEF HInv
<1>1. ASSUME NEW k \in Keys, NEW b \in Whole, PeerCommits(k, b) PROVE HInv'
  <2>1. Commit(k, b) /\ UNCHANGED <<mem, flight, req>>
    BY <1>1 DEF PeerCommits, memory, fetches
  <2>2. committed \subseteq committed' /\ StoreRecorded' /\ MemoryRecorded'
    BY <1>0, <2>1 DEF Commit, StoreRecorded, MemoryRecorded, TypeOK
  <2>3. QED
    BY <2>1, <2>2, RequestsHonest DEF HInv
<1>2. ASSUME NEW k \in Keys, ObjectExpires(k) PROVE HInv'
  <2>1. store' = [store EXCEPT ![k] = Absent] /\ UNCHANGED <<committed, mem, flight, req>>
    BY <1>2 DEF ObjectExpires, memory, fetches
  <2>2. StoreRecorded' /\ MemoryRecorded'
    BY <1>0, <2>1 DEF StoreRecorded, MemoryRecorded, TypeOK
  <2>3. QED
    BY <2>1, <2>2, RequestsHonest DEF HInv
<1>3. ASSUME NEW k \in Small, MemEvicts(k) PROVE HInv'
  <2>1. mem' = [mem EXCEPT ![k] = Absent] /\ UNCHANGED <<committed, store, flight, req>>
    BY <1>3 DEF MemEvicts, bucket, fetches
  <2>2. StoreRecorded' /\ MemoryRecorded'
    BY <1>0, <2>1 DEF StoreRecorded, MemoryRecorded, TypeOK
  <2>3. QED
    BY <2>1, <2>2, RequestsHonest DEF HInv
<1>4. ASSUME \/ \E k \in Nars : PeerRecords(k) \/ RecordExpires(k)
             \/ \E k \in Keys : NegExpires(k)
      PROVE  HInv'
  <2>1. UNCHANGED <<store, committed, mem, flight, req>>
    BY <1>4 DEF PeerRecords, RecordExpires, NegExpires, bucket, memory, fetches
  <2>2. StoreRecorded' /\ MemoryRecorded'
    BY <1>0, <2>1 DEF StoreRecorded, MemoryRecorded
  <2>3. QED
    BY <2>1, <2>2, RequestsHonest DEF HInv
<1>5. QED
  BY <1>1, <1>2, <1>3, <1>4, RestartHonest DEF Surroundings

LEMMA HonestInit == Init => HInv
<1> SUFFICES ASSUME Init PROVE HInv
  OBVIOUS
<1>1. StoreRecorded /\ MemoryRecorded
  BY DEF Init, StoreRecorded, MemoryRecorded
<1>2. ASSUME NEW r \in Reqs PROVE Honest(r)
  <2>1. /\ req[r].pc = "idle" /\ req[r].on = NoReq /\ req[r].ans.status = "none"
        /\ flight[r].res = "failed" /\ ~flight[r].done /\ ~flight[r].stored
    BY <1>2 DEF Init, FreshRequest, FreshFlight, NoAnswer
  <2>2. QED
    BY <2>1 DEF Honest, Led, Followed, Clean, Promises
<1>3. QED
  BY <1>1, <1>2 DEF HInv

LEMMA HonestStep == IInv /\ HInv /\ [Next]_vars => HInv'
<1> SUFFICES ASSUME IInv, HInv, [Next]_vars PROVE HInv'
  OBVIOUS
<1> USE DEF IInv
<1>1. ASSUME NEW r \in Reqs, Handle(r) PROVE HInv'
  <2>1. Own(r) /\ Faithful(r) /\ req[r].pc # "done"
    BY <1>1, HandleOwn, HandleFaithful, HandleBusy
  <2>2. QED
    BY <2>1, HonestAll
<1>2. CASE UNCHANGED vars
  <2>1. UNCHANGED <<store, committed, mem, flight, req>>
    BY <1>2 DEF vars, bucket, memory, fetches
  <2>2. QED
    BY <2>1, RequestsHonest DEF HInv, StoreRecorded, MemoryRecorded
<1>3. QED
  BY <1>1, <1>2, ClientsHonest, SurroundingsHonest DEF Next, Finished

-----------------------------------------------------------------------------
(* Nobody waits for a flight that is neither led nor landed.               *)
LEMMA WaitersHandle ==
  ASSUME IInv, HInv, NoFollowerLeftBehind, NEW r \in Reqs, Handle(r)
  PROVE  NoFollowerLeftBehind'
<1> USE DEF IInv
<1>0. Own(r) /\ Faithful(r) /\ Key(r)' = Key(r)
  BY HandleOwn, HandleFaithful DEF Own, Key
<1> SUFFICES ASSUME NEW q \in Reqs, req'[q].pc = "wait"
             PROVE  flights'[Key(q)'] = req'[q].on \/ flight'[req'[q].on].done
  BY DEF NoFollowerLeftBehind
<1>1. CASE q = r
  BY <1>0, <1>1 DEF Faithful
<1>2. CASE q # r
  <2>1. req'[q] = req[q] /\ Key(q)' = Key(q)
    BY <1>0, <1>2 DEF Own, Others, Key
  <2>2. PICK l \in Reqs : l = req[q].on
    BY <2>1 DEF Shape, Fits
  <2>3. flights[Key(q)] = l \/ flight[l].done
    BY <2>1, <2>2 DEF NoFollowerLeftBehind
  <2>4. flight[l].done => flight'[l].done
    BY <1>0 DEF Faithful
  <2>5. CASE flights[Key(q)] = l
    <3>1. CASE Stays(r) \/ AcquireSlot(r) \/ ReleaseSlot(r)
      <4>1. flights' = flights
        BY <3>1 DEF Stays, AcquireSlot, TakeSlot, ReleaseSlot
      <4>2. QED
        BY <2>1, <2>2, <2>5, <4>1
    <3>2. CASE Lead(r)
      <4>1. flights[Key(r)] = NoReq /\ flights' = [flights EXCEPT ![Key(r)] = r]
        BY <3>2 DEF Lead
      <4>2. Key(q) # Key(r)
        BY <2>5, <4>1, ReqsAssumption
      <4>3. flights'[Key(q)] = flights[Key(q)]
        BY <4>1, <4>2, KeyType DEF TypeOK
      <4>4. QED
        BY <2>1, <2>2, <2>5, <4>3
    <3>3. CASE Land(r)
      <4>1. /\ flights[Key(r)] = r /\ flights' = [flights EXCEPT ![Key(r)] = NoReq]
            /\ flight' = [flight EXCEPT ![r].done = TRUE]
        BY <3>3 DEF Land, Lands, At, Leading, SingleFlight
      <4>2. CASE Key(q) = Key(r)
        <5>1. flight'[r].done
          BY <4>1 DEF TypeOK, Flight
        <5>2. QED
          BY <2>1, <2>2, <2>5, <4>1, <4>2, <5>1
      <4>3. CASE Key(q) # Key(r)
        <5>1. flights'[Key(q)] = flights[Key(q)]
          BY <4>1, <4>3, KeyType DEF TypeOK
        <5>2. QED
          BY <2>1, <2>2, <2>5, <5>1
      <4>4. QED
        BY <4>2, <4>3
    <3>4. QED
      BY <3>1, <3>2, <3>3, HandleOwn
  <2>6. QED
    BY <2>1, <2>2, <2>3, <2>4, <2>5
<1>3. QED
  BY <1>1, <1>2

LEMMA WaitersStep ==
  IInv /\ HInv /\ NoFollowerLeftBehind /\ [Next]_vars => NoFollowerLeftBehind'
<1> SUFFICES ASSUME IInv, HInv, NoFollowerLeftBehind, [Next]_vars
             PROVE  NoFollowerLeftBehind'
  OBVIOUS
<1> USE DEF IInv
<1>1. ASSUME UNCHANGED <<flights, flight, req>> PROVE NoFollowerLeftBehind'
  BY <1>1 DEF NoFollowerLeftBehind, Key
<1>2. CASE Restart
  BY <1>2, RestartOwn DEF NoFollowerLeftBehind
<1>3. CASE Clients
  <2>1. UNCHANGED <<flights, flight>>
    BY <1>3 DEF Clients, Arrive, ClientBecomes, Rest, fetches
  <2>2. ASSUME NEW q \in Reqs, req'[q].pc = "wait"
        PROVE  req[q].pc = "wait" /\ req'[q].key = req[q].key /\ req'[q].on = req[q].on
    <3>1. ASSUME NEW r \in Reqs, NEW h \in BOOLEAN, Arrive(r, h)
          PROVE  req'[q] = req[q]
      BY <2>2, <3>1, EditOwn DEF Others
    <3>2. ASSUME NEW r \in Reqs, NEW c \in {"stalled", "gone"}, ClientBecomes(r, c)
          PROVE  /\ req'[q].pc = req[q].pc /\ req'[q].key = req[q].key
                 /\ req'[q].on = req[q].on
      <4>1. Others(r) /\ req'[r] = [req[r] EXCEPT !.client = c] /\ req[r] \in Request
        BY <3>2, EditOwn DEF TypeOK
      <4>2. QED
        BY <4>1 DEF Others, Request
    <3>3. QED
      BY <1>3, <2>2, <3>1, <3>2 DEF Clients
  <2>3. QED
    BY <2>1, <2>2 DEF NoFollowerLeftBehind, Key
<1>4. QED
  BY <1>1, <1>2, <1>3, WaitersHandle, SurroundingsOwn
     DEF Next, Finished, vars, fetches

-----------------------------------------------------------------------------
(* The second invariant, which the first one carries: what was told, and   *)
(* what is waited for.                                                     *)
JInv == HInv /\ NoFollowerLeftBehind

LEMMA Told == Spec => []JInv
<1>1. Init => JInv
  <2>1. Init => \A r \in Reqs : req[r].pc = "idle"
    BY DEF Init, FreshRequest
  <2>2. QED
    BY <2>1, HonestInit DEF JInv, NoFollowerLeftBehind
<1>2. IInv /\ JInv /\ [Next]_vars => JInv'
  BY HonestStep, WaitersStep DEF JInv
<1>3. QED
  BY <1>1, <1>2, Invariance, PTL DEF Spec

(* Whichever way a leader ends (an answer, an error, a panic, a client     *)
(* that left the queue), no follower is left with a flight that is neither *)
(* registered nor closed (cache.go:239-277).                               *)
THEOREM NoFollowerTheorem == Spec => []NoFollowerLeftBehind
<1>1. JInv => NoFollowerLeftBehind
  BY DEF JInv
<1>2. QED
  BY <1>1, Told, PTL

(* The holder of a slot, and whoever lands, waits for nobody.              *)
LEMMA HolderIsFree ==
  ASSUME NEW r \in Reqs, req[r].pc \in Holding \cup {"land"}
  PROVE  Free(r)
BY DEF Free, Underway, At, Holding

(* A full semaphore is held by somebody.                                   *)
LEMMA SlotHeld ==
  ASSUME IInv, slots = MaxFetches
  PROVE  \E q \in Reqs : req[q].pc \in Holding
<1> SUFFICES ASSUME {q \in Reqs : req[q].pc \in Holding} = {} PROVE FALSE
  OBVIOUS
<1>1. slots = 0
  BY FS_EmptySet DEF IInv, SlotsAccounted
<1>2. QED
  BY <1>1, MaxFetchesAssumption

(* A leader in the queue moves on, or waits for one that does.             *)
LEMMA LeaderWaits ==
  ASSUME IInv, NEW r \in Reqs, req[r].pc \in Leading
  PROVE  \E f \in Reqs : (f = r \/ WaitsFor(r, f)) /\ Free(f)
<1>1. CASE req[r].pc = "slot" /\ slots = MaxFetches
  <2>1. PICK q \in Reqs : req[q].pc \in Holding
    BY <1>1, SlotHeld
  <2>2. WaitsFor(r, q) /\ Free(q)
    BY <1>1, <2>1, HolderIsFree DEF WaitsFor, At
  <2>3. QED
    BY <2>2
<1>2. CASE req[r].pc = "slot" /\ slots # MaxFetches
  <2>1. slots < MaxFetches
    BY <1>2, MaxFetchesAssumption DEF IInv, TypeOK
  <2>2. Free(r)
    BY <1>2, <2>1 DEF Free, Underway, At
  <2>3. QED
    BY <2>2
<1>3. CASE req[r].pc # "slot"
  <2>1. Free(r)
    BY <1>3, HolderIsFree DEF Leading
  <2>2. QED
    BY <2>1
<1>4. QED
  BY <1>1, <1>2, <1>3

(* Nobody waits in a circle: every wait for a flight or a slot leads, two  *)
(* steps down at most, to a request that waits for nobody.                 *)
THEOREM WaitTheorem == Spec => []EveryWaitHasAnEnd
<1>1. IInv /\ JInv => EveryWaitHasAnEnd
  <2> SUFFICES ASSUME IInv, JInv, NEW r \in Reqs, Underway(r)
               PROVE  \E q, f \in Reqs :
                        /\ q = r \/ WaitsFor(r, q)
                        /\ f = q \/ WaitsFor(q, f)
                        /\ Free(f)
    BY DEF EveryWaitHasAnEnd
  <2>1. CASE Free(r)
    BY <2>1
  <2>2. CASE req[r].pc = "slot"
    <3>1. \E f \in Reqs : (f = r \/ WaitsFor(r, f)) /\ Free(f)
      BY <2>2, LeaderWaits DEF Leading
    <3>2. QED
      BY <3>1
  <2>3. CASE req[r].pc = "wait" /\ ~Free(r)
    <3>1. PICK l \in Reqs : l = req[r].on
      BY <2>3 DEF IInv, Shape, Fits
    <3>2. ~flight[l].done
      BY <2>3, <3>1 DEF Free, Underway, At
    <3>3. flights[Key(r)] = l
      BY <2>3, <3>1, <3>2 DEF JInv, NoFollowerLeftBehind
    <3>4. Key(r) \in Keys
      BY KeyType DEF IInv
    <3>5. req[l].pc \in Leading
      BY <3>3, <3>4, ReqsAssumption DEF IInv, SingleFlight
    <3>6. \E f \in Reqs : (f = l \/ WaitsFor(l, f)) /\ Free(f)
      BY <3>5, LeaderWaits
    <3>7. WaitsFor(r, l)
      BY <2>3, <3>1 DEF WaitsFor, At
    <3>8. QED
      BY <3>6, <3>7
  <2>4. CASE req[r].pc \notin {"slot", "wait"}
    BY <2>4 DEF Free, At
  <2>5. QED
    BY <2>1, <2>2, <2>3, <2>4
<1>2. QED
  BY <1>1, Invariance, Told, PTL

(* A follower of a small object is served the bytes its leader was, across *)
(* failed Puts, clients that leave and restarts (cache.go:279-345).        *)
THEOREM ShareTheorem == Spec => []FollowersShareTheBody
<1>1. TypeOK /\ JInv => FollowersShareTheBody
  <2> SUFFICES ASSUME TypeOK, JInv, NEW r \in Reqs, Key(r) \in Small,
                      req[r].on # NoReq, req[r].ans.status = "ok"
               PROVE  req[req[r].on].ans = req[r].ans
    BY DEF FollowersShareTheBody
  <2>1. PICK l \in Reqs : l = req[r].on
    BY DEF TypeOK, Request
  <2>2. Followed(r) /\ Led(l)
    BY DEF JInv, HInv, Honest
  <2>3. /\ req[l].ans.status = "ok" /\ req[l].ans.body = flight[l].body
        /\ req[r].ans.body = flight[l].body
    BY <2>1, <2>2 DEF Followed, Led
  <2>4. req[l].ans \in Answers /\ req[r].ans \in Answers
    BY DEF TypeOK, Request
  <2>5. QED
    BY <2>1, <2>3, <2>4 DEF Answers
<1>2. IInv => TypeOK
  BY DEF IInv
<1>3. QED
  BY <1>1, <1>2, Invariance, Told, PTL

(* No response ends cleanly with a body that was cut, stalled or too long, *)
(* whether it came from upstream, a flight, memory or the bucket           *)
(* (cache.go:296-437).                                                     *)
THEOREM CleanEndTheorem == Spec => []CleanEndIsWhole
<1>1. JInv => CleanEndIsWhole
  BY DEF JInv, HInv, Honest, Clean, CleanEndIsWhole
<1>2. QED
  BY <1>1, Told, PTL

(* A client is redirected, and memory answers, only for what the bucket    *)
(* has held (cache.go:196-236 and 279-345).                                *)
THEOREM PromiseTheorem == Spec => []OnlyStoredIsPromised
<1>1. JInv => OnlyStoredIsPromised
  BY DEF JInv, HInv, Honest, Promises, Backed, MemoryRecorded, OnlyStoredIsPromised
<1>2. QED
  BY <1>1, Told, PTL

-----------------------------------------------------------------------------
(* PullThrough implements ImmutableCache.                                  *)

(* The places from which nothing is said any more.                         *)
Final == {"put", "release", "land", "done"}
Unsaid(r) == req[r].pc \notin Final => req[r].ans = NoAnswer
Keeps(k, b) == VerifiedFor(k, b) /\ committed' = committed \cup {<<k, b>>}

(* An answer that is justified, in PullThrough's terms.                    *)
Right(r, a) ==
  /\ a.status \notin {"none", "lost"}
  /\ a.status = "ok" => a.body \in Whole
  /\ a.status = "broken" => a.body \notin Whole /\ Key(r) \in Large
  /\ a.status \notin {"ok", "broken"} => a.body = Absent
  /\ a.status = "redirect" => Key(r) \in Large /\ Backed(Key(r))

(* What a step of r's handler may look like from outside: nothing, an      *)
(* object stored, an answer, or an answer and the object it carries.       *)
Silent(r) == req'[r].ans = req[r].ans /\ committed' = committed
Stored(r) == req'[r].ans = req[r].ans /\ \E b \in Whole : Keeps(Key(r), b)
Hears(r, a) == req[r].ans = NoAnswer /\ req'[r].ans = a /\ Right(r, a)
Answered(r) == committed' = committed /\ \E a \in Answers : Hears(r, a)
Relayed(r) ==
  /\ Key(r) \in Large
  /\ \E b \in Whole : Hears(r, [status |-> "ok", body |-> b]) /\ Keeps(Key(r), b)
Outcome(r) == Unsaid(r)' /\ (Silent(r) \/ Stored(r) \/ Answered(r) \/ Relayed(r))

LEMMA MovesOn ==
  ASSUME TypeOK, NEW r \in Reqs, Unsaid(r), NEW p \in PCs, Goto(r, p),
         committed' = committed, req[r].pc \notin Final \/ p \in Final
  PROVE  Outcome(r)
<1>1. req'[r].pc = p /\ req'[r].ans = req[r].ans
  BY GotoKeeps
<1>2. Unsaid(r)'
  BY <1>1 DEF Unsaid
<1>3. QED
  BY <1>1, <1>2 DEF Outcome, Silent

LEMMA Says ==
  ASSUME TypeOK, NEW r \in Reqs, Unsaid(r), req[r].pc \notin Final,
         NEW p \in Final, NEW s \in Status, NEW b \in Body \cup {Absent},
         Answer(r, s, b, p), committed' = committed,
         Right(r, [status |-> s, body |-> b])
  PROVE  Outcome(r)
<1>1. req'[r].pc = p /\ req'[r].ans = [status |-> s, body |-> b]
  BY AnswerKeeps DEF Final, PCs
<1>2. Unsaid(r)'
  BY <1>1 DEF Unsaid
<1>3. [status |-> s, body |-> b] \in Answers
  BY DEF Answers
<1>4. Hears(r, [status |-> s, body |-> b])
  BY <1>1 DEF Hears, Unsaid
<1>5. Answered(r)
  BY <1>3, <1>4 DEF Answered
<1>6. QED
  BY <1>2, <1>5 DEF Outcome

(* Most answers carry no body and need no justification.                   *)
LEMMA SaysNo ==
  ASSUME TypeOK, NEW r \in Reqs, Unsaid(r), req[r].pc \notin Final, NEW p \in Final,
         NEW s \in {"headOk", "notFound", "storeError", "upstreamError", "left"},
         Answer(r, s, Absent, p), committed' = committed
  PROVE  Outcome(r)
<1>1. Right(r, [status |-> s, body |-> Absent])
  BY DEF Right
<1>2. s \in Status
  BY DEF Status
<1>3. QED
  BY <1>1, <1>2, Says

LEMMA SaysWhole ==
  ASSUME TypeOK, NEW r \in Reqs, Unsaid(r), req[r].pc \notin Final, NEW p \in Final,
         NEW b \in Whole, Answer(r, "ok", b, p), committed' = committed
  PROVE  Outcome(r)
<1>1. Right(r, [status |-> "ok", body |-> b])
  BY DEF Right
<1>2. "ok" \in Status /\ b \in Body
  BY DEF Status, Body
<1>3. QED
  BY <1>1, <1>2, Says

LEMMA LookupOutcome ==
  ASSUME TypeOK, Shape, OnlyVerifiedStored, HInv, NEW r \in Reqs, Unsaid(r), Lookup(r)
  PROVE  Outcome(r)
<1>1. Promises(r) /\ MemoryRecorded /\ Key(r) \in Keys
  BY KeyType DEF HInv, Honest
<1>2. "done" \in Final /\ {"store", "presign", "proxy", "pull", "done"} \subseteq PCs
  BY DEF Final, PCs
<1>3. CASE LookupMem(r)
  <2>1. req[r].pc \notin Final /\ Key(r) \in Small /\ committed' = committed
    BY <1>3 DEF LookupMem, At, Final, Shape, Fits
  <2>2. CASE mem[Key(r)] # Absent
    BY <1>1, <1>2, <1>3, <2>1, <2>2, SaysWhole DEF LookupMem, MemoryRecorded
  <2>3. CASE mem[Key(r)] = Absent
    BY <1>2, <1>3, <2>1, <2>3, MovesOn DEF LookupMem
  <2>4. QED
    BY <2>2, <2>3
<1>4. CASE HeadStore(r)
  <2>1. req[r].pc \notin Final /\ committed' = committed
    BY <1>4 DEF HeadStore, At, Final, Rest, bucket
  <2>2. \/ Answer(r, "headOk", Absent, "done")
        \/ Goto(r, "presign") \/ Goto(r, "proxy") \/ Goto(r, "pull")
    BY <1>4 DEF HeadStore
  <2>3. CASE Answer(r, "headOk", Absent, "done")
    BY <1>2, <2>1, <2>3, SaysNo
  <2>4. CASE Goto(r, "presign") \/ Goto(r, "proxy") \/ Goto(r, "pull")
    BY <1>2, <2>1, <2>4, MovesOn
  <2>5. QED
    BY <2>2, <2>3, <2>4
<1>5. CASE GetStore(r)
  <2>1. req[r].pc \notin Final /\ committed' = committed
    BY <1>5 DEF GetStore, At, Final
  <2>2. CASE store[Key(r)] # Absent
    BY <1>1, <1>2, <1>5, <2>1, <2>2, SaysWhole DEF GetStore, OnlyVerifiedStored
  <2>3. CASE store[Key(r)] = Absent
    BY <1>2, <1>5, <2>1, <2>3, MovesOn DEF GetStore
  <2>4. QED
    BY <2>2, <2>3
<1>6. CASE StoreError(r)
  <2>1. req[r].pc \notin Final /\ committed' = committed
    BY <1>6 DEF StoreError, At, Final, Rest, bucket
  <2>2. QED
    BY <1>2, <1>6, <2>1, SaysNo DEF StoreError
<1>7. CASE Presign(r)
  <2>1. /\ req[r].pc \notin Final /\ committed' = committed
        /\ Key(r) \in Large /\ Backed(Key(r))
    BY <1>1, <1>7 DEF Presign, At, Final, Rest, bucket, Promises, Shape, Fits
  <2>2. Right(r, [status |-> "redirect", body |-> Absent])
    BY <2>1 DEF Right
  <2>3. QED
    BY <1>2, <1>7, <2>1, <2>2, Says DEF Presign, Status
<1>8. CASE ProxyHead(r)
  <2>1. req[r].pc \notin Final /\ committed' = committed
    BY <1>8 DEF ProxyHead, At, Final, Rest, bucket
  <2>2. QED
    BY <1>2, <1>8, <2>1, SaysNo DEF ProxyHead
<1>9. QED
  BY <1>3, <1>4, <1>5, <1>6, <1>7, <1>8 DEF Lookup

LEMMA BoardOutcome ==
  ASSUME TypeOK, Shape, HInv, NEW r \in Reqs, Unsaid(r), Board(r)
  PROVE  Outcome(r)
<1>1. "done" \in Final /\ "land" \in Final
      /\ {"slot", "presign", "pull", "expect", "fetch"} \subseteq PCs
  BY DEF Final, PCs
<1>2. req[r].pc \notin Final /\ committed' = committed
  BY DEF Board, Join, Lead, StopWaiting, Follow, FollowTo, AcquireSlot, TakeSlot,
         StopQueueing, LeaveQueue, At, Final, Rest, bucket
<1>3. CASE Join(r)
  <2>1. req \in [Reqs -> Request]
    BY DEF TypeOK
  <2>2. req'[r] = [req[r] EXCEPT !.pc = "wait", !.on = flights[Key(r)]]
    BY <1>3, <2>1 DEF Join
  <2>3. req'[r].ans = req[r].ans
    BY <2>1, <2>2 DEF Request
  <2>4. Unsaid(r)'
    BY <1>2, <2>3 DEF Unsaid
  <2>5. QED
    BY <1>2, <2>3, <2>4 DEF Outcome, Silent
<1>4. CASE Lead(r)
  BY <1>1, <1>2, <1>4, MovesOn DEF Lead
<1>5. CASE StopWaiting(r)
  BY <1>1, <1>2, <1>5, SaysNo DEF StopWaiting
<1>6. CASE Follow(r)
  <2>1. PICK l \in Reqs : l = req[r].on
    BY <1>6 DEF Follow, FollowTo, At, Shape, Fits
  <2>2. PICK p \in {"presign", "pull"} : FollowTo(r, p)
    BY <1>6 DEF Follow
  <2>3. flight[l].res \in {"failed", "ok", "notFound"}
    BY DEF TypeOK, Flight
  <2>4. \/ flight[l].res = "ok" /\ Key(r) \in Small /\ Answer(r, "ok", flight[l].body, "done")
        \/ Goto(r, p)
        \/ \E s \in {"notFound", "upstreamError"} : Answer(r, s, Absent, "done")
    BY <2>1, <2>2, <2>3, KeyType DEF FollowTo, Keys
  <2>5. CASE flight[l].res = "ok" /\ Key(r) \in Small /\ Answer(r, "ok", flight[l].body, "done")
    <3>1. Key(l) = Key(r) /\ Led(l)
      BY <2>1, ReqsAssumption DEF HInv, Honest, Followed
    <3>2. flight[l].body \in Whole
      BY <2>5, <3>1 DEF Led
    <3>3. QED
      BY <1>1, <1>2, <2>5, <3>2, SaysWhole
  <2>6. CASE Goto(r, p)
    BY <1>1, <1>2, <2>6, MovesOn
  <2>7. CASE \E s \in {"notFound", "upstreamError"} : Answer(r, s, Absent, "done")
    BY <1>1, <1>2, <2>7, SaysNo
  <2>8. QED
    BY <2>4, <2>5, <2>6, <2>7
<1>7. CASE AcquireSlot(r)
  <2>1. Goto(r, "expect") \/ Goto(r, "fetch")
    BY <1>7 DEF AcquireSlot, TakeSlot
  <2>2. QED
    BY <1>1, <1>2, <2>1, MovesOn
<1>8. CASE StopQueueing(r)
  BY <1>1, <1>2, <1>8, SaysNo DEF StopQueueing, LeaveQueue
<1>9. QED
  BY <1>3, <1>4, <1>5, <1>6, <1>7, <1>8 DEF Board

LEMMA FetchOutcome ==
  ASSUME TypeOK, NEW r \in Reqs, Unsaid(r), FetchOrAnswer(r)
  PROVE  Outcome(r)
<1>1. "release" \in Final /\ {"read", "pass", "upload"} \subseteq PCs
  BY DEF Final, PCs
<1>2. req[r].pc \notin Final /\ committed' = committed
  BY DEF FetchOrAnswer, FetchFails, FetchNotFound, FetchOK, At, Final, Rest, bucket
<1>3. CASE FetchFails(r)
  BY <1>1, <1>2, <1>3, SaysNo DEF FetchFails
<1>4. CASE FetchNotFound(r)
  BY <1>1, <1>2, <1>4, SaysNo DEF FetchNotFound
<1>5. CASE FetchOK(r)
  <2>1. Goto(r, "read") \/ Goto(r, "pass") \/ Goto(r, "upload")
    BY <1>5 DEF FetchOK
  <2>2. QED
    BY <1>1, <1>2, <2>1, MovesOn
<1>6. QED
  BY <1>3, <1>4, <1>5 DEF FetchOrAnswer

LEMMA SmallOutcome ==
  ASSUME TypeOK, Shape, NEW r \in Reqs, Unsaid(r), LeadSmall(r)
  PROVE  Outcome(r)
<1>1. {"put", "release"} \subseteq Final /\ {"put", "release"} \subseteq PCs
  BY DEF Final, PCs
<1>2. Fits(r)
  BY DEF Shape
<1>3. ASSUME NEW b \in Body, ReadSmall(r, b) PROVE Outcome(r)
  <2>1. req \in [Reqs -> Request]
    BY DEF TypeOK
  <2>2. req'[r] = [req[r] EXCEPT !.pc = "write", !.body = b]
    BY <1>3, <2>1 DEF ReadSmall
  <2>3. req'[r].ans = req[r].ans
    BY <2>1, <2>2 DEF Request
  <2>4. req[r].pc \notin Final /\ committed' = committed
    BY <1>3 DEF ReadSmall, At, Final
  <2>5. Unsaid(r)'
    BY <2>3, <2>4 DEF Unsaid
  <2>6. QED
    BY <2>3, <2>4, <2>5 DEF Outcome, Silent
<1>4. ASSUME NEW b \in Body, ReadSmallFails(r, b) PROVE Outcome(r)
  <2>1. req[r].pc \notin Final /\ committed' = committed
    BY <1>4 DEF ReadSmallFails, At, Final, Rest, bucket
  <2>2. QED
    BY <1>1, <1>4, <2>1, SaysNo DEF ReadSmallFails
<1>5. CASE WriteSmall(r)
  <2>1. req[r].pc \notin Final /\ committed' = committed /\ req[r].body \in Whole
    BY <1>2, <1>5 DEF WriteSmall, At, Final, Fits, Rest, bucket
  <2>2. QED
    BY <1>1, <1>5, <2>1, SaysWhole DEF WriteSmall
<1>6. CASE PutSmall(r) \/ PutSmallFails(r)
  <2>1. Goto(r, "release") /\ PerhapsCommit(Key(r), req[r].body)
    BY <1>6 DEF PutSmall, PutSmallFails, PerhapsCommit
  <2>2. req[r].body \in Whole /\ VerifiedFor(Key(r), req[r].body)
    BY <1>2, <1>6, KeysAssumption DEF PutSmall, PutSmallFails, At, Fits, VerifiedFor
  <2>3. req'[r].pc = "release" /\ req'[r].ans = req[r].ans
    BY <1>1, <2>1, GotoKeeps
  <2>4. Unsaid(r)'
    BY <1>1, <2>3 DEF Unsaid
  <2>5. CASE Commit(Key(r), req[r].body)
    <3>1. Keeps(Key(r), req[r].body)
      BY <2>2, <2>5 DEF Commit, Keeps
    <3>2. QED
      BY <2>2, <2>3, <2>4, <3>1 DEF Outcome, Stored
  <2>6. CASE committed' = committed
    BY <2>3, <2>4, <2>6 DEF Outcome, Silent
  <2>7. QED
    BY <2>1, <2>5, <2>6 DEF PerhapsCommit
<1>7. QED
  BY <1>3, <1>4, <1>5, <1>6 DEF LeadSmall

LEMMA LargeOutcome ==
  ASSUME TypeOK, Shape, NEW r \in Reqs, Unsaid(r), LeadLarge(r)
  PROVE  Outcome(r)
<1>1. "release" \in Final /\ {"release", "drain"} \subseteq PCs
  BY DEF Final, PCs
<1>2. Fits(r) /\ req[r].want \in {"unchecked", "none", "record"}
  BY DEF Shape, TypeOK, Request
<1>3. CASE Expect(r)
  <2>1. req \in [Reqs -> Request]
    BY DEF TypeOK
  <2>2. PICK w : req'[r] = [req[r] EXCEPT !.pc = "fetch", !.want = w]
    BY <1>3, <2>1 DEF Expect
  <2>3. req'[r].ans = req[r].ans
    BY <2>1, <2>2 DEF Request
  <2>4. req[r].pc \notin Final /\ committed' = committed
    BY <1>3 DEF Expect, At, Final, Rest, bucket
  <2>5. Unsaid(r)'
    BY <2>3, <2>4 DEF Unsaid
  <2>6. QED
    BY <2>3, <2>4, <2>5 DEF Outcome, Silent
<1>4. CASE ExpectFails(r)
  <2>1. req[r].pc \notin Final /\ committed' = committed
    BY <1>4 DEF ExpectFails, At, Final, Rest, bucket
  <2>2. QED
    BY <1>1, <1>4, <2>1, SaysNo DEF ExpectFails
<1>5. CASE UploadFails(r)
  <2>1. req[r].pc \notin Final /\ committed' = committed
    BY <1>5 DEF UploadFails, At, Final, Rest, bucket
  <2>2. QED
    BY <1>1, <1>5, <2>1, MovesOn DEF UploadFails
<1>6. ASSUME NEW b \in Whole \cup {"cut"}, BodyBreaks(r, b) PROVE Outcome(r)
  <2>1. /\ req[r].pc \notin Final /\ committed' = committed
        /\ Key(r) \in Large /\ b \notin Whole /\ Answer(r, "broken", b, "release")
    BY <1>2, <1>6 DEF BodyBreaks, At, Final, Rest, bucket, Fits, FrEnd
  <2>2. Right(r, [status |-> "broken", body |-> b])
    BY <2>1 DEF Right
  <2>3. "broken" \in Status /\ b \in Body
    BY DEF Status, Body
  <2>4. QED
    BY <1>1, <2>1, <2>2, <2>3, Says
<1>7. ASSUME NEW b \in Whole \cup {"cut"},
             \/ PassThrough(r, b) \/ Drain(r, b) \/ VerifyFails(r, b)
             \/ Upload(r, b) \/ UploadUnacknowledged(r, b)
      PROVE  Outcome(r)
  <2>1. /\ req[r].pc \notin Final /\ Key(r) \in Large
        /\ Answer(r, "ok", b, "release") /\ b \in Whole
    BY <1>2, <1>7 DEF PassThrough, Upload, UploadUnacknowledged, Drain, VerifyFails, Served,
         At, Final, Fits, FrEnd
  <2>2. CASE committed' = committed
    BY <1>1, <2>1, <2>2, SaysWhole
  <2>3. CASE committed' # committed
    <3>1. Commit(Key(r), b) /\ VerifiedFor(Key(r), b)
      <4>1. Upload(r, b) \/ (UploadUnacknowledged(r, b) /\ PerhapsCommit(Key(r), b))
        BY <1>7, <2>3 DEF PassThrough, Drain, VerifyFails, UploadUnacknowledged
      <4>2. Commit(Key(r), b)
        BY <2>3, <4>1 DEF Upload, PerhapsCommit
      <4>3. VerifiedFor(Key(r), b)
        BY <1>2, <2>1, <4>1 DEF Upload, UploadUnacknowledged, At, Fits, FrEnd, VerifiedFor
      <4>4. QED
        BY <4>2, <4>3
    <3>2. /\ req'[r].pc = "release" /\ req'[r].ans = [status |-> "ok", body |-> b]
      BY <1>1, <2>1, AnswerKeeps DEF Status, Body
    <3>3. Unsaid(r)'
      BY <1>1, <3>2 DEF Unsaid
    <3>4. Hears(r, [status |-> "ok", body |-> b])
      BY <2>1, <3>2 DEF Hears, Right, Unsaid
    <3>5. Relayed(r)
      BY <2>1, <3>1, <3>4 DEF Relayed, Keeps, Commit
    <3>6. QED
      BY <3>3, <3>5 DEF Outcome
  <2>4. QED
    BY <2>2, <2>3
<1>8. QED
  BY <1>3, <1>4, <1>5, <1>6, <1>7 DEF LeadLarge

LEMMA HandleOutcome ==
  ASSUME IInv, HInv, NEW r \in Reqs, Unsaid(r), Handle(r)
  PROVE  Outcome(r)
<1> USE DEF IInv
<1>1. ASSUME ReleaseSlot(r) \/ Land(r) PROVE Outcome(r)
  <2>1. committed' = committed /\ (Goto(r, "land") \/ Goto(r, "done"))
    BY <1>1 DEF ReleaseSlot, Land, Lands, bucket
  <2>2. {"land", "done"} \subseteq Final /\ {"land", "done"} \subseteq PCs
    BY DEF Final, PCs
  <2>3. QED
    BY <2>1, <2>2, MovesOn
<1>2. QED
  BY <1>1, LookupOutcome, BoardOutcome, FetchOutcome, SmallOutcome, LargeOutcome DEF Handle

(* A client that arrives may be told of a missing object at once.          *)
LEMMA ClientsOutcome ==
  ASSUME TypeOK, \A r \in Reqs : Unsaid(r), Clients
  PROVE  \E r \in Reqs : Own(r) /\ Outcome(r)
<1>1. ASSUME NEW r \in Reqs, NEW h \in BOOLEAN, Arrive(r, h) PROVE Own(r) /\ Outcome(r)
  <2>1. req[r] \in Request /\ req \in [Reqs -> Request]
    BY DEF TypeOK
  <2>2. Own(r) /\ committed' = committed /\ req[r].ans = NoAnswer
    BY <1>1, EditOwn DEF Own, Arrive, At, Rest, bucket, Unsaid, Final
  <2>3. \/ \E p \in {"mem", "store"} : req'[r] = [req[r] EXCEPT !.head = h, !.pc = p]
        \/ req'[r] = [req[r] EXCEPT !.head = h, !.pc = "done",
                                     !.ans = [status |-> "notFound", body |-> Absent]]
    BY <1>1, <2>1 DEF Arrive, Request
  <2>4. CASE \E p \in {"mem", "store"} : req'[r] = [req[r] EXCEPT !.head = h, !.pc = p]
    <3>1. req'[r].ans = req[r].ans
      BY <2>1, <2>4 DEF Request
    <3>2. Unsaid(r)'
      BY <2>2, <3>1 DEF Unsaid
    <3>3. QED
      BY <2>2, <3>1, <3>2 DEF Outcome, Silent
  <2>5. CASE req'[r] = [req[r] EXCEPT !.head = h, !.pc = "done",
                                      !.ans = [status |-> "notFound", body |-> Absent]]
    <3>1. req'[r].pc = "done" /\ req'[r].ans = [status |-> "notFound", body |-> Absent]
      BY <2>1, <2>5 DEF Request
    <3>2. Unsaid(r)'
      BY <3>1 DEF Unsaid, Final
    <3>3. [status |-> "notFound", body |-> Absent] \in Answers
      BY DEF Answers, Status
    <3>4. Hears(r, [status |-> "notFound", body |-> Absent])
      BY <2>2, <3>1 DEF Hears, Right
    <3>5. Answered(r)
      BY <2>2, <3>3, <3>4 DEF Answered
    <3>6. QED
      BY <2>2, <3>2, <3>5 DEF Outcome
  <2>6. QED
    BY <2>3, <2>4, <2>5
<1>2. ASSUME NEW r \in Reqs, NEW c \in {"stalled", "gone"}, ClientBecomes(r, c)
      PROVE  Own(r) /\ Outcome(r)
  <2>1. req[r] \in Request
    BY DEF TypeOK
  <2>2. Others(r) /\ req'[r] = [req[r] EXCEPT !.client = c]
    BY <1>2, EditOwn
  <2>3. req'[r].pc = req[r].pc /\ req'[r].key = req[r].key /\ req'[r].ans = req[r].ans
    BY <2>1, <2>2 DEF Request
  <2>4. committed' = committed
    BY <1>2 DEF ClientBecomes, bucket
  <2>5. Unsaid(r)'
    BY <2>3 DEF Unsaid
  <2>6. QED
    BY <2>2, <2>3, <2>4, <2>5 DEF Own, Outcome, Silent
<1>3. QED
  BY <1>1, <1>2 DEF Clients

LEMMA NextOutcome ==
  ASSUME IInv, HInv, \A r \in Reqs : Unsaid(r), [Next]_vars
  PROVE  \/ \E r \in Reqs : Own(r) /\ Outcome(r)
         \/ Restart
         \/ /\ req' = req
            /\ committed' = committed \/ \E k \in Keys, b \in Whole : Keeps(k, b)
<1>1. ASSUME NEW r \in Reqs, Handle(r) PROVE Own(r) /\ Outcome(r)
  BY <1>1, HandleOwn, HandleOutcome DEF IInv
<1>2. ASSUME Surroundings, ~Restart
      PROVE  /\ req' = req
             /\ committed' = committed \/ \E k \in Keys, b \in Whole : Keeps(k, b)
  <2>1. req' = req
    BY <1>2, SurroundingsOwn
  <2>2. ASSUME NEW k \in Keys, NEW b \in Whole, PeerCommits(k, b) PROVE Keeps(k, b)
    BY <2>2 DEF PeerCommits, Commit, Keeps, VerifiedFor
  <2>3. QED
    BY <1>2, <2>1, <2>2 DEF Surroundings, PeerRecords, RecordExpires, ObjectExpires,
         NegExpires, MemEvicts, bucket
<1>3. CASE Finished \/ UNCHANGED vars
  BY <1>3 DEF Finished, vars, bucket
<1>4. QED
  BY <1>1, <1>2, <1>3, ClientsOutcome DEF Next, IInv

(* The third invariant: nothing is said early.                             *)
LEMMA UnsaidInvariance == Spec => [](\A r \in Reqs : Unsaid(r))
<1>1. Init => \A r \in Reqs : Unsaid(r)
  BY DEF Init, FreshRequest, Unsaid
<1>2. IInv /\ HInv /\ (\A r \in Reqs : Unsaid(r)) /\ [Next]_vars
        => (\A r \in Reqs : Unsaid(r))'
  <2> SUFFICES ASSUME IInv, HInv, \A r \in Reqs : Unsaid(r), [Next]_vars, NEW q \in Reqs
               PROVE  Unsaid(q)'
    OBVIOUS
  <2>1. ASSUME NEW r \in Reqs, Own(r), Outcome(r) PROVE Unsaid(q)'
    <3>1. CASE q = r
      BY <2>1, <3>1 DEF Outcome
    <3>2. CASE q # r
      <4>1. req'[q] = req[q] /\ Unsaid(q)
        BY <2>1, <3>2 DEF Own, Others
      <4>2. QED
        BY <4>1 DEF Unsaid
    <3>3. QED
      BY <3>1, <3>2
  <2>2. CASE Restart
    <3>1. req'[q] = req[q] \/ req'[q].pc = "done"
      BY <2>2, RestartOwn DEF IInv
    <3>2. QED
      BY <3>1 DEF Unsaid, Final
  <2>3. CASE req' = req
    BY <2>3 DEF Unsaid
  <2>4. QED
    BY <2>1, <2>2, <2>3, NextOutcome
<1>3. JInv => HInv
  BY DEF JInv
<1>4. QED
  BY <1>1, <1>2, <1>3, Invariance, Told, PTL DEF Spec

(* Each outcome is a step of ImmutableCache, or none.                      *)
LEMMA OutcomeImplements ==
  ASSUME TypeOK, NEW r \in Reqs, Own(r), Outcome(r)
  PROVE  [Cache!Next]_(Cache!vars)
<1> DEFINE said == [q \in Reqs |-> req[q].ans]
           asked == [q \in Reqs |-> req[q].key]
<1>1. asked' = asked
  BY DEF Own, Others
<1>2. said' = [said EXCEPT ![r] = req'[r].ans]
  BY DEF Own, Others
<1>3. ASSUME NEW a, Hears(r, a) PROVE Cache!Tell(r, a)
  <2>1. said[r] = Cache!Nothing
    BY <1>3 DEF Hears, NoAnswer, Absent, Cache!Nothing
  <2>2. Backed(Key(r)) => \E e \in committed : e[1] = asked[r]
    BY DEF Backed, Key
  <2>3. Cache!Justified(r, a)
    BY <1>3, <2>2 DEF Hears, Right, Cache!Justified, Key, Absent
  <2>4. QED
    BY <1>1, <1>2, <1>3, <2>1, <2>3 DEF Hears, Right, Cache!Tell
<1>4. ASSUME NEW b \in Whole, Keeps(Key(r), b) PROVE Cache!Put(Key(r), b)
  BY <1>4 DEF Keeps, VerifiedFor, Cache!Put, Cache!Storable
<1>5. CASE Silent(r)
  BY <1>1, <1>2, <1>5 DEF Silent, Cache!vars
<1>6. CASE Stored(r)
  <2>1. said' = said
    BY <1>2, <1>6 DEF Stored
  <2>2. Cache!Store
    BY <1>1, <1>4, <1>6, <2>1, KeyType DEF Stored, Cache!Store
  <2>3. QED
    BY <2>2 DEF Cache!Next
<1>7. CASE Answered(r)
  <2>1. Cache!Reply
    BY <1>3, <1>7 DEF Answered, Cache!Reply
  <2>2. QED
    BY <2>1 DEF Cache!Next
<1>8. CASE Relayed(r)
  <2>1. Cache!Relay
    <3>1. asked[r] = Key(r)
      BY DEF Key
    <3>2. QED
      BY <1>3, <1>4, <1>8, <3>1 DEF Relayed, Cache!Relay
  <2>2. QED
    BY <2>1 DEF Cache!Next
<1>9. QED
  BY <1>5, <1>6, <1>7, <1>8 DEF Outcome

(* A restart loses the answers nobody had yet, and no other.               *)
LEMMA RestartImplements ==
  ASSUME TypeOK, Restart
  PROVE  Cache!Crash
<1> DEFINE said == [q \in Reqs |-> req[q].ans]
           asked == [q \in Reqs |-> req[q].key]
           R == {q \in Reqs : said[q] = Cache!Nothing /\ req[q].pc \notin {"idle", "done"}}
<1>1. committed' = committed
  BY DEF Restart, bucket
<1>2. asked' = asked
  BY RestartOwn
<1>3. ASSUME NEW q \in Reqs
      PROVE  req'[q].ans = IF q \in R THEN Cache!Lost ELSE req[q].ans
  <2>1. req'[q] = Killed(q) /\ req[q] \in Request
    BY DEF Restart, TypeOK
  <2>2. CASE req[q].pc \in {"idle", "done"}
    BY <2>1, <2>2 DEF Killed
  <2>3. CASE req[q].pc \notin {"idle", "done"} /\ req[q].ans = NoAnswer
    <3>1. q \in R
      BY <2>3 DEF NoAnswer, Cache!Nothing, Absent
    <3>2. req'[q] = [req[q] EXCEPT !.pc = "done", !.ans = Lost]
      BY <2>1, <2>3 DEF Killed
    <3>3. QED
      BY <2>1, <3>1, <3>2 DEF Request, Lost, Cache!Lost, Absent
  <2>4. CASE req[q].pc \notin {"idle", "done"} /\ req[q].ans # NoAnswer
    <3>1. q \notin R
      BY <2>4 DEF NoAnswer, Cache!Nothing, Absent
    <3>2. req'[q] = [req[q] EXCEPT !.pc = "done", !.ans = req[q].ans]
      BY <2>1, <2>4 DEF Killed
    <3>3. QED
      BY <2>1, <3>1, <3>2 DEF Request
  <2>5. QED
    BY <2>2, <2>3, <2>4
<1>4. said' = [q \in Reqs |-> IF q \in R THEN Cache!Lost ELSE said[q]]
  BY <1>3
<1>5. R \in SUBSET {q \in Reqs : said[q] = Cache!Nothing}
  OBVIOUS
<1>6. QED
  BY <1>1, <1>2, <1>4, <1>5 DEF Cache!Crash

(* Whatever flights, slots, memory, clients, other replicas and restarts   *)
(* do: every request is told one thing at most, which was justified when   *)
(* it was said, and what the bucket gets is whole, verified and what the   *)
(* client of a relayed object had (cache.go:136-437).                      *)
THEOREM PullThroughImplementsCache == Spec => KeepsPromise
<1>1. Init => Cache!Init
  BY DEF Init, FreshRequest, NoAnswer, Absent, Cache!Init, Cache!Nothing
<1>2. ASSUME IInv, HInv, \A r \in Reqs : Unsaid(r), [Next]_vars
      PROVE  [Cache!Next]_(Cache!vars)
  <2>1. CASE \E r \in Reqs : Own(r) /\ Outcome(r)
    BY <1>2, <2>1, OutcomeImplements DEF IInv
  <2>2. CASE Restart
    BY <1>2, <2>2, RestartImplements DEF IInv, Cache!Next
  <2>3. CASE req' = req /\ committed' = committed
    BY <2>3 DEF Cache!vars
  <2>4. ASSUME req' = req, NEW k \in Keys, NEW b \in Whole, Keeps(k, b)
        PROVE  Cache!Store
    BY <2>4 DEF Cache!Store, Cache!Put, Cache!Storable, Keeps, VerifiedFor
  <2>5. QED
    BY <1>2, <2>1, <2>2, <2>3, <2>4, NextOutcome DEF Cache!Next
<1>3. JInv => HInv
  BY DEF JInv
<1>4. QED
  BY <1>1, <1>2, <1>3, Invariance, Told, UnsaidInvariance, PTL
     DEF Spec, KeepsPromise, Cache!Spec
=============================================================================
