------------------------------ MODULE NarIndex ------------------------------
(***************************************************************************)
(* narIndex (nix.go) over its memory (lru.go): what ties a NAR to the      *)
(* narinfo that announced it.  Serving a narinfo records the hash of its   *)
(* NAR in the bucket and in the replica's memory, a miss of a NAR looks it *)
(* up.  The two requests may reach different replicas.                     *)
(*                                                                         *)
(* A record is its URL and its hash.  The bucket may also hold something   *)
(* unreadable, the record of another URL, or one of the URL that no        *)
(* narinfo of these replicas carried.                                      *)
(***************************************************************************)
EXTENDS Naturals, Sequences, SequencesExt

CONSTANTS
  Ops,        \* requests at work at a time, in any replica
  Replicas,
  Records,    \* the records narinfos carry: [url, hash]
  SizeOf,     \* what the entry of a record takes in memory
  Budget,     \* max of the memory
  EntryMax,   \* its largest entry: an eighth of max, or entryMax
  MaxEvents   \* bound: losses, spoilt objects and restarts

URLs == {rec.url : rec \in Records}

Nothing == [url |-> "none", hash |-> "none"]
Garbage == [url |-> "garbage", hash |-> "garbage"]

ASSUME NarIndexAssumption ==
  /\ Nothing \notin Records /\ Garbage \notin Records
  /\ SizeOf \in [Records -> Nat \ {0}]
  /\ Budget \in Nat /\ EntryMax \in Nat /\ MaxEvents \in Nat
  /\ Replicas # {}

VARIABLES
  op,         \* each request
  mem,        \* each replica's memory, the most recently used entry first
  size,       \* and the size its lru keeps
  bucket,     \* the object under each URL's key
  announced,  \* history: the records of the narinfos served
  foreign,    \* history: the records somebody else wrote under their URL's key
  served,     \* history: the URLs whose record has returned
  excused,    \* history: URLs whose object was not written, lost or spoilt
  events      \* bound: how much of that has happened

memory == <<mem, size>>
history == <<announced, foreign, served, excused, events>>
vars == <<op, memory, bucket, history>>

Idle == [pc |-> "idle", replica |-> CHOOSE r \in Replicas : TRUE, rec |-> Nothing, answer |-> Nothing]

TypeOK ==
  /\ op \in [Ops -> [pc: {"idle", "compare", "put", "remember", "memory", "store", "keep"},
                     replica: Replicas, rec: Records \cup {Nothing} \cup [url: URLs, hash: {"none"}],
                     answer: Records \cup {Nothing}]]
  /\ mem \in [Replicas -> Seq(Records)] /\ size \in [Replicas -> Nat]
  /\ bucket \in [URLs -> Records \cup {Nothing, Garbage}]
  /\ announced \subseteq Records /\ foreign \subseteq Records
  /\ served \subseteq URLs /\ excused \subseteq URLs
  /\ events \in 0 .. MaxEvents

Init ==
  /\ op = [o \in Ops |-> Idle]
  /\ mem = [r \in Replicas |-> <<>>] /\ size = [r \in Replicas |-> 0]
  /\ bucket = [u \in URLs |-> Nothing]
  /\ announced = {} /\ foreign = {} /\ served = {} /\ excused = {} /\ events = 0

At(o, p) == op[o].pc = p
Goes(o, p) == op' = [op EXCEPT ![o].pc = p]
Returns(o) == op' = [op EXCEPT ![o] = Idle]

-----------------------------------------------------------------------------
(* lru.go                                                                  *)

Index(es, u) == {i \in DOMAIN es : es[i].url = u}
Where(es, u) == CHOOSE i \in Index(es, u) : TRUE
Sums(es) ==  \* what the first entries take, for each number of them
  LET sum[n \in 1 .. Len(es)] == SizeOf[es[n]] + (IF n = 1 THEN 0 ELSE sum[n - 1]) IN sum
Total(es) == IF es = <<>> THEN 0 ELSE Sums(es)[Len(es)]
Without(es, u) == IF Index(es, u) = {} THEN es ELSE RemoveAt(es, Where(es, u))

(* Get: a hit moves to the front.                                          *)
Hit(r, u) == Index(mem[r], u) # {}
Got(r, u) == mem[r][Where(mem[r], u)]
MovedToFront(r, u) == [mem EXCEPT ![r] = <<Got(r, u)>> \o Without(@, u)]

(* The entries es become r's, without those at the back that have to go    *)
(* until the size that is kept fits.                                       *)
Evicts(r, es, n) ==
  LET Left(i) == n - Total(SubSeq(es, i + 1, Len(es))) IN
  \E last \in 0 .. Len(es) :
    /\ Left(last) <= Budget /\ \A i \in last + 1 .. Len(es) : Left(i) > Budget
    /\ mem' = [mem EXCEPT ![r] = SubSeq(es, 1, last)]
    /\ size' = [size EXCEPT ![r] = Left(last)]

(* Mutant: the entry that is replaced stays in the sum.                    *)
PutWithoutRemove(r, rec) ==
  IF SizeOf[rec] > EntryMax THEN UNCHANGED memory
  ELSE Evicts(r, <<rec>> \o Without(mem[r], rec.url), size[r] + SizeOf[rec])

(* An entry that is too large is not kept, and the older one stays.        *)
Put(r, rec) ==
  LET removed == IF Hit(r, rec.url) THEN SizeOf[Got(r, rec.url)] ELSE 0 IN
  IF SizeOf[rec] > EntryMax THEN UNCHANGED memory
  ELSE Evicts(r, <<rec>> \o Without(mem[r], rec.url), size[r] - removed + SizeOf[rec])

(* Mutant: the record's own URL is not compared.                           *)
Readable(raw, u) == raw \notin {Nothing, Garbage}

(* decodeRecord, and the record is the NAR's own.                          *)
Usable(raw, u) == raw \notin {Nothing, Garbage} /\ raw.url = u

-----------------------------------------------------------------------------
(* record, for a narinfo that is served.                                   *)

Narinfo(o, r, rec) ==
  /\ At(o, "idle")
  /\ op' = [op EXCEPT ![o] = [pc |-> "compare", replica |-> r, rec |-> rec, answer |-> Nothing]]
  /\ announced' = announced \cup {rec}
  /\ UNCHANGED <<memory, bucket, foreign, served, excused, events>>

(* Mutant: memory is told before the store.                                *)
CompareAndRemember(o) ==
  LET r == op[o].replica rec == op[o].rec IN
  /\ At(o, "compare")
  /\ IF Hit(r, rec.url) /\ Got(r, rec.url) = rec
     THEN Returns(o) /\ served' = served \cup {rec.url} /\ UNCHANGED memory
     ELSE Goes(o, "put") /\ UNCHANGED served /\ Put(r, rec)
  /\ UNCHANGED <<bucket, announced, foreign, excused, events>>

(* The record this replica already holds is not written again.             *)
Compare(o) ==
  LET r == op[o].replica rec == op[o].rec IN
  /\ At(o, "compare")
  /\ mem' = IF Hit(r, rec.url) THEN MovedToFront(r, rec.url) ELSE mem
  /\ IF Hit(r, rec.url) /\ Got(r, rec.url) = rec
     THEN Returns(o) /\ served' = served \cup {rec.url}
     ELSE Goes(o, "put") /\ UNCHANGED served
  /\ UNCHANGED <<size, bucket, announced, foreign, excused, events>>

StorePut(o) ==
  /\ At(o, "put")
  /\ bucket' = [bucket EXCEPT ![op[o].rec.url] = op[o].rec]
  /\ excused' = excused \ {op[o].rec.url}
  /\ Goes(o, "remember")
  /\ UNCHANGED <<memory, announced, foreign, served, events>>

(* An error is logged, and memory remembers the record all the same.  (An  *)
(* error after S3 stored the object is StorePut.)                          *)
StorePutFails(o) ==
  LET u == op[o].rec.url IN
  /\ At(o, "put")
  /\ excused' = IF Usable(bucket[u], u) THEN excused ELSE excused \cup {u}
  /\ Goes(o, "remember")
  /\ UNCHANGED <<memory, bucket, announced, foreign, served, events>>

Remember(o) ==
  /\ At(o, "remember")
  /\ Put(op[o].replica, op[o].rec)
  /\ served' = served \cup {op[o].rec.url}
  /\ Returns(o)
  /\ UNCHANGED <<bucket, announced, foreign, excused, events>>

-----------------------------------------------------------------------------
(* lookup, for a NAR that is not in the store.                             *)

Lookup(o, r, u) ==
  /\ At(o, "idle")
  /\ op' = [op EXCEPT ![o] = [pc |-> "memory", replica |-> r,
                              rec |-> [url |-> u, hash |-> "none"], answer |-> Nothing]]
  /\ UNCHANGED <<memory, bucket, history>>

LookInMemory(o) ==
  LET r == op[o].replica u == op[o].rec.url IN
  /\ At(o, "memory")
  /\ IF Hit(r, u)
     THEN mem' = MovedToFront(r, u) /\ Returns(o)
     ELSE UNCHANGED mem /\ Goes(o, "store")
  /\ UNCHANGED <<size, bucket, history>>

LookInStore(o) ==
  LET u == op[o].rec.url IN
  /\ At(o, "store")
  /\ IF Usable(bucket[u], u)
     THEN op' = [op EXCEPT ![o].pc = "keep", ![o].answer = bucket[u]]
     ELSE Returns(o)
  /\ UNCHANGED <<memory, bucket, history>>

(* Any error but a miss is returned.                                       *)
LookFails(o) ==
  /\ At(o, "store")
  /\ Returns(o)
  /\ UNCHANGED <<memory, bucket, history>>

Keep(o) ==
  /\ At(o, "keep")
  /\ Put(op[o].replica, op[o].answer)
  /\ Returns(o)
  /\ UNCHANGED <<bucket, history>>

-----------------------------------------------------------------------------
(* The surroundings: an object expires, is spoilt or is written by someone *)
(* else, a replica restarts.                                               *)

Event == events < MaxEvents /\ events' = events + 1

BucketChanges(u) ==
  /\ Event
  /\ \E raw \in Records \cup {Nothing, Garbage} :
       /\ bucket' = [bucket EXCEPT ![u] = raw]
       /\ foreign' = IF Usable(raw, u) THEN foreign \cup {raw} ELSE foreign
       /\ excused' = IF Usable(raw, u) THEN excused ELSE excused \cup {u}
  /\ UNCHANGED <<op, memory, announced, served>>

Restart(r) ==
  /\ Event
  /\ mem' = [mem EXCEPT ![r] = <<>>] /\ size' = [size EXCEPT ![r] = 0]
  /\ op' = [o \in Ops |-> IF op[o].replica = r THEN Idle ELSE op[o]]
  /\ UNCHANGED <<bucket, announced, foreign, served, excused>>

Step(o) ==
  \/ \E r \in Replicas, rec \in Records : Narinfo(o, r, rec)
  \/ \E r \in Replicas, u \in URLs : Lookup(o, r, u)
  \/ Compare(o) \/ StorePut(o) \/ StorePutFails(o) \/ Remember(o)
  \/ LookInMemory(o) \/ LookInStore(o) \/ LookFails(o) \/ Keep(o)

Next ==
  \/ \E o \in Ops : Step(o)
  \/ \E u \in URLs : BucketChanges(u)
  \/ \E r \in Replicas : Restart(r)

Spec == Init /\ [][Next]_vars

-----------------------------------------------------------------------------
Sourced == announced \cup foreign

(* A NAR is verified against a record of its own URL, which a narinfo      *)
(* announced or somebody else wrote as that URL's: so are the one a lookup *)
(* found in the bucket and all a replica's memory would answer.  Nothing   *)
(* unreadable, and no other URL's record, comes through.  The code looks   *)
(* at no more than the URL, so whoever can write to the bucket is trusted  *)
(* with the hash.                                                          *)
AnswersAreTheURLsOwn ==
  /\ \A o \in Ops :
       At(o, "keep") => op[o].answer \in Sourced /\ op[o].answer.url = op[o].rec.url
  /\ \A r \in Replicas : \A i \in DOMAIN mem[r] : mem[r][i] \in Sourced

(* "The narinfo request and the NAR request can reach different replicas": *)
(* once a narinfo was served, and whenever a replica holds the record and  *)
(* so will not write it again, every replica finds one in the bucket.  The *)
(* exception is the code's: a write that failed is not repeated while the  *)
(* record is in memory, nor is one whose object was lost.                  *)
EveryReplicaFinds ==
  \A u \in URLs \ excused :
    u \in served \/ (\E r \in Replicas : Hit(r, u)) => Usable(bucket[u], u)

(* The lru's size is that of its entries, of which there is one for a key, *)
(* and within its budget, whatever is replaced, refused and evicted.       *)
MemoryAccounted ==
  \A r \in Replicas :
    /\ size[r] = Total(mem[r]) /\ size[r] <= Budget
    /\ \A u \in URLs : \A i, j \in Index(mem[r], u) : i = j
=============================================================================
