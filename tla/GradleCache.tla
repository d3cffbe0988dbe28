----------------------------- MODULE GradleCache -----------------------------
(***************************************************************************)
(* The Gradle front-end (gradle.go) for one key: jobs, through any replica,*)
(* PUT and GET an entry that lives in the bucket alone.  A PUT looks for   *)
(* an entry first (store.Head) and stores its own (store.Put) afterwards:  *)
(* two calls, with nothing held in between.  store.Put is what Store       *)
(* promises (ObjectStore): all of the body or nothing, and an error may    *)
(* hide a success.                                                         *)
(***************************************************************************)
EXTENDS Naturals

CONSTANTS
  Puts,       \* the PUT requests; each brings an entry of its own
  Gets,       \* the GET and HEAD requests
  Nothing,    \* no entry
  MaxExpiries \* bound: how often the bucket expires the entry

ASSUME GradleAssumption == Nothing \notin Puts /\ MaxExpiries \in Nat

VARIABLES
  entry,   \* whose body the bucket holds under the key
  put,     \* each PUT: where it is, or its answer
  get,     \* each GET: where it is, or its answer
  ever,    \* history: the PUTs whose body was the entry
  late,    \* history: the PUTs that came when there was an entry
  acked,   \* history: a PUT was answered 204, and nothing expired since
  owed,    \* history: the GETs that came after such a 204
  expired  \* how often the entry expired

history == <<ever, late, acked, owed>>
vars == <<entry, put, get, history, expired>>

(* "204", "411" or "413", "502" are answers.                               *)
TypeOK ==
  /\ entry \in Puts \cup {Nothing}
  /\ put \in [Puts -> {"new", "head", "put", "204", "refused", "502"}]
  /\ get \in [Gets -> {"new", "head", "presign", "redirect", "200", "404", "502"}]
  /\ acked \in BOOLEAN
  /\ ever \subseteq Puts /\ late \subseteq Puts /\ owed \subseteq Gets
  /\ expired \in 0 .. MaxExpiries

Init ==
  /\ entry = Nothing
  /\ put = [p \in Puts |-> "new"]
  /\ get = [g \in Gets |-> "new"]
  /\ ever = {} /\ late = {} /\ acked = FALSE /\ owed = {}
  /\ expired = 0

PutGoes(p, from, to) == put[p] = from /\ put' = [put EXCEPT ![p] = to]
GetGoes(g, from, to) == get[g] = from /\ get' = [get EXCEPT ![g] = to]
Stores(p) == entry' = p /\ ever' = ever \cup {p}

-----------------------------------------------------------------------------
(* PUT.                                                                    *)

(* A body without a length, or over maxEntry, is refused.                  *)
PutArrives(p) ==
  /\ PutGoes(p, "new", "head") \/ PutGoes(p, "new", "refused")
  /\ late' = IF entry # Nothing THEN late \cup {p} ELSE late
  /\ UNCHANGED <<entry, get, ever, acked, owed, expired>>

(* Mutant: the entry that is there is not looked for.                      *)
PutHeadBlindly(p) ==
  /\ PutGoes(p, "head", "put")
  /\ UNCHANGED <<entry, get, history, expired>>

(* store.Head: an entry that is there stays, and the PUT is answered 204.  *)
PutHead(p) ==
  /\ \/ entry # Nothing /\ PutGoes(p, "head", "204")
     \/ entry = Nothing /\ PutGoes(p, "head", "put")
     \/ PutGoes(p, "head", "502")
  /\ acked' = (acked \/ put'[p] = "204")
  /\ UNCHANGED <<entry, get, ever, late, owed, expired>>

PutStores(p) ==
  /\ PutGoes(p, "put", "204")
  /\ Stores(p)
  /\ acked' = TRUE
  /\ UNCHANGED <<get, late, owed, expired>>

(* Mutant: a failed Put is answered as a stored one.                       *)
PutFailsQuietly(p) ==
  /\ PutGoes(p, "put", "204")
  /\ acked' = TRUE
  /\ UNCHANGED <<entry, get, ever, late, owed, expired>>

(* The body is cut short or stalls, or the store fails: nothing is stored, *)
(* or all of it and the answer was lost.                                   *)
PutFails(p) ==
  /\ PutGoes(p, "put", "502")
  /\ Stores(p) \/ UNCHANGED <<entry, ever>>
  /\ UNCHANGED <<get, late, acked, owed, expired>>

-----------------------------------------------------------------------------
(* GET: Head, and a redirect to the entry; HEAD: Head.                     *)

GetArrives(g) ==
  /\ GetGoes(g, "new", "head")
  /\ owed' = IF acked THEN owed \cup {g} ELSE owed
  /\ UNCHANGED <<entry, put, ever, late, acked, expired>>

GetHead(g) ==
  /\ \/ entry # Nothing /\ (GetGoes(g, "head", "presign") \/ GetGoes(g, "head", "200"))
     \/ entry = Nothing /\ GetGoes(g, "head", "404")
     \/ GetGoes(g, "head", "502")
  /\ UNCHANGED <<entry, put, history, expired>>

GetPresign(g) ==
  /\ GetGoes(g, "presign", "redirect") \/ GetGoes(g, "presign", "502")
  /\ UNCHANGED <<entry, put, history, expired>>

(* The bucket's lifecycle expires the entry; what it promised is void.     *)
Expire ==
  /\ entry # Nothing /\ expired < MaxExpiries
  /\ entry' = Nothing /\ expired' = expired + 1
  /\ ever' = {} /\ late' = {} /\ acked' = FALSE /\ owed' = {}
  /\ UNCHANGED <<put, get>>

Done ==
  /\ \A p \in Puts : put[p] \in {"204", "refused", "502"}
  /\ \A g \in Gets : get[g] \in {"redirect", "200", "404", "502"}
  /\ UNCHANGED vars

Next ==
  \/ \E p \in Puts : PutArrives(p) \/ PutHead(p) \/ PutStores(p) \/ PutFails(p)
  \/ \E g \in Gets : GetArrives(g) \/ GetHead(g) \/ GetPresign(g)
  \/ Expire \/ Done

Spec == Init /\ [][Next]_vars

-----------------------------------------------------------------------------
(* A job that PUTs a key which has an entry changes nothing, however the   *)
(* other PUTs of the key are interleaved with it (gradle.go:36-38).        *)
LatePutChangesNothing == late \cap ever = {}

(* 204 means the key has an entry, until it expires: whoever asks after    *)
(* the answer is not told that there is none.                              *)
FoundAfterwards == \A g \in owed : get[g] # "404"
=============================================================================
