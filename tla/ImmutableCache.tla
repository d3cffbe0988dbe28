---------------------------- MODULE ImmutableCache ----------------------------
(***************************************************************************)
(* What a replica promises its clients and the bucket about immutable      *)
(* objects (cache.go), with nothing of how: no flights, slots, memory or   *)
(* upstream.  A request is told one thing, once, and it is justified; the  *)
(* bucket gets whole and verified bodies only, and keeps what clients were *)
(* pointed to.  Other replicas fill the same bucket.                       *)
(***************************************************************************)
CONSTANTS
  Reqs, Keys,
  Large,    \* keys of objects a client may be redirected to
  Nars,     \* large keys whose body must match an index record
  Whole,    \* the bodies that arrived whole
  Answers   \* [status, body]: what a client can be told

VARIABLES
  held,     \* every <<key, body>> the bucket ever made visible
  said,     \* what each request was told
  asked     \* the key each request is for

vars == <<held, said, asked>>

Nothing == [status |-> "none", body |-> "absent"]
Lost    == [status |-> "lost", body |-> "absent"]

Init ==
  /\ held = {}
  /\ said = [r \in Reqs |-> Nothing]
  /\ asked \in [Reqs -> Keys]

(* Under a NAR's key belongs the body its narinfo announced, and no other. *)
Storable(k, b) == b \in Whole /\ (k \in Nars => b = "true")

(* A response that ends cleanly carries a whole body, one that breaks off  *)
(* does not; small bodies are read before anything is said, so only large  *)
(* ones break off; a redirect points to something the bucket has had.      *)
Justified(r, a) ==
  /\ a.status = "ok" => a.body \in Whole
  /\ a.status = "broken" => a.body \notin Whole /\ asked[r] \in Large
  /\ a.status \notin {"ok", "broken"} => a.body = "absent"
  /\ a.status = "redirect" => asked[r] \in Large /\ \E e \in held : e[1] = asked[r]

Tell(r, a) ==
  /\ said[r] = Nothing /\ a.status \notin {"none", "lost"}
  /\ Justified(r, a)
  /\ said' = [said EXCEPT ![r] = a]
  /\ UNCHANGED asked

Reply == UNCHANGED held /\ \E r \in Reqs, a \in Answers : Tell(r, a)

Put(k, b) == Storable(k, b) /\ held' = held \cup {<<k, b>>}

(* The replica, after it has answered, or another one, stores an object.   *)
Store == UNCHANGED <<said, asked>> /\ \E k \in Keys, b \in Whole : Put(k, b)

(* A large body goes to the client and to the bucket: the same one.        *)
Relay ==
  \E r \in Reqs, b \in Whole :
    /\ asked[r] \in Large
    /\ Put(asked[r], b)
    /\ Tell(r, [status |-> "ok", body |-> b])

(* The process dies: some of those not yet answered never will be.         *)
Crash ==
  /\ \E R \in SUBSET {r \in Reqs : said[r] = Nothing} :
       said' = [r \in Reqs |-> IF r \in R THEN Lost ELSE said[r]]
  /\ UNCHANGED <<held, asked>>

Next == Reply \/ Store \/ Relay \/ Crash

Spec == Init /\ [][Next]_vars
=============================================================================
