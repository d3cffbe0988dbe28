----------------------------- MODULE NarIndex_proofs -----------------------------
(***************************************************************************)
(* What holds of NarIndex for any number of requests and replicas, any     *)
(* records, any sizes and any number of events.                            *)
(***************************************************************************)
EXTENDS NarIndex, SequenceTheorems, WellFoundedInduction, TLAPS

Asked == Records \cup {Nothing} \cup [url : URLs, hash : {"none"}]
Operation == [pc : {"idle", "compare", "put", "remember", "memory", "store", "keep"},
              replica : Replicas, rec : Asked, answer : Records \cup {Nothing}]

Types ==
  /\ op \in [Ops -> Operation]
  /\ mem \in [Replicas -> Seq(Records)]
  /\ bucket \in [URLs -> Records \cup {Nothing, Garbage}]
  /\ announced \subseteq Records /\ foreign \subseteq Records
  /\ served \subseteq URLs /\ excused \subseteq URLs

(* A URL one of whose records is known somewhere, so that it need not be   *)
(* written again, has a usable object.                                     *)
Kept(u) == u \notin excused => Usable(bucket[u], u)

(* What is under way when a request writes or reads a record.              *)
OpKnown(o) ==
  /\ At(o, "compare") \/ At(o, "put") \/ At(o, "remember") =>
       op[o].rec \in announced
  /\ At(o, "memory") \/ At(o, "store") \/ At(o, "keep") => op[o].rec.url \in URLs
  /\ At(o, "remember") => Kept(op[o].rec.url)
  /\ At(o, "keep") => /\ op[o].answer \in Sourced /\ op[o].answer.url = op[o].rec.url
                      /\ Kept(op[o].answer.url)

EntryKnown(rec) == rec \in Sourced /\ Kept(rec.url)

MemoryKnown == \A r \in Replicas : \A i \in DOMAIN mem[r] : EntryKnown(mem[r][i])
BucketKnown == \A u \in URLs : Usable(bucket[u], u) => bucket[u] \in Sourced
ServedKnown == \A u \in served : Kept(u)

IInv == Types /\ (\A o \in Ops : OpKnown(o)) /\ MemoryKnown /\ BucketKnown /\ ServedKnown

-----------------------------------------------------------------------------
(* The entry of a URL leaves a gap that closes.                            *)
LEMMA WithoutIs ==
  ASSUME NEW es \in Seq(Records), NEW u, Index(es, u) # {}
  PROVE  /\ Where(es, u) \in 1 .. Len(es) /\ es[Where(es, u)].url = u /\ Len(es) \in Nat
         /\ Without(es, u) \in Seq(Records) /\ Len(Without(es, u)) = Len(es) - 1
         /\ \A i \in 1 .. Len(es) - 1 :
              Without(es, u)[i] = IF i < Where(es, u) THEN es[i] ELSE es[i + 1]
<1> DEFINE w == Where(es, u)
           front == SubSeq(es, 1, w - 1)
           back == SubSeq(es, w + 1, Len(es))
<1>1. w \in 1 .. Len(es) /\ Len(es) \in Nat /\ es[w].url = u
  <2>1. w \in Index(es, u)
    BY DEF Where
  <2> QED
    BY <2>1, LenProperties DEF Index
<1> HIDE DEF w
<1>2. \A i \in 1 .. Len(es) : es[i] \in Records
  BY ElementOfSeq
<1>3. /\ front \in Seq(Records) /\ Len(front) = w - 1
      /\ \A i \in 1 .. w - 1 : front[i] = es[i]
  BY <1>1, <1>2, SubSeqProperties
<1>4. /\ back \in Seq(Records) /\ Len(back) = Len(es) - w
      /\ \A i \in 1 .. Len(es) - w : back[i] = es[w + i]
  BY <1>1, <1>2, SubSeqProperties
<1>5. Without(es, u) = front \o back
  BY DEF Without, RemoveAt, w
<1> HIDE DEF front, back
<1>6. /\ front \o back \in Seq(Records) /\ Len(front \o back) = Len(front) + Len(back)
      /\ \A i \in 1 .. Len(front) + Len(back) :
           (front \o back)[i] = IF i <= Len(front) THEN front[i] ELSE back[i - Len(front)]
  BY <1>3, <1>4, ConcatProperties
<1>7. ASSUME NEW i \in 1 .. Len(es) - 1 PROVE (front \o back)[i] = IF i < w THEN es[i] ELSE es[i + 1]
  <2>1. (front \o back)[i] = IF i <= w - 1 THEN front[i] ELSE back[i - (w - 1)]
    BY <1>1, <1>3, <1>4, <1>6
  <2>2. CASE i < w
    BY <1>1, <1>3, <2>1, <2>2
  <2>3. CASE ~(i < w)
    <3>1. PICK k \in 1 .. Len(es) - w : k = i - (w - 1) /\ w + k = i + 1
      BY <1>1, <2>3
    <3>2. back[k] = es[i + 1]
      BY <1>4, <3>1
    <3> QED
      BY <1>1, <2>1, <2>3, <3>1, <3>2
  <2> QED
    BY <2>2, <2>3
<1>8. Len(front \o back) = Len(es) - 1
  BY <1>1, <1>3, <1>4, <1>6
<1> QED
  BY <1>1, <1>5, <1>6, <1>7, <1>8 DEF w

-----------------------------------------------------------------------------
(* The lru: whatever is moved, replaced and evicted, an entry was there    *)
(* before or is the one that is put.                                       *)

LEMMA WithoutEntries ==
  ASSUME NEW es \in Seq(Records), NEW u
  PROVE  /\ Without(es, u) \in Seq(Records)
         /\ \A i \in DOMAIN Without(es, u) : \E j \in DOMAIN es : Without(es, u)[i] = es[j]
<1>1. CASE Index(es, u) = {}
  BY <1>1 DEF Without
<1>2. CASE Index(es, u) # {}
  <2>1. /\ Where(es, u) \in 1 .. Len(es) /\ Len(es) \in Nat
        /\ Without(es, u) \in Seq(Records) /\ Len(Without(es, u)) = Len(es) - 1
        /\ \A i \in 1 .. Len(es) - 1 :
             Without(es, u)[i] = IF i < Where(es, u) THEN es[i] ELSE es[i + 1]
    BY <1>2, WithoutIs
  <2>2. DOMAIN Without(es, u) = 1 .. Len(es) - 1 /\ DOMAIN es = 1 .. Len(es)
    BY <2>1, LenProperties
  <2>3. \A i \in 1 .. Len(es) - 1 : i \in 1 .. Len(es) /\ i + 1 \in 1 .. Len(es)
    BY <2>1
  <2> QED
    BY <2>1, <2>2, <2>3
<1> QED
  BY <1>1, <1>2

LEMMA PushedFront ==
  ASSUME NEW es \in Seq(Records), NEW rec \in Records
  PROVE  /\ <<rec>> \o es \in Seq(Records)
         /\ \A i \in DOMAIN (<<rec>> \o es) :
              (<<rec>> \o es)[i] = rec \/ \E j \in DOMAIN es : (<<rec>> \o es)[i] = es[j]
<1>1. <<rec>> \in Seq(Records) /\ Len(<<rec>>) = 1 /\ <<rec>>[1] = rec /\ Len(es) \in Nat
  BY LenProperties
<1>2. /\ <<rec>> \o es \in Seq(Records) /\ Len(<<rec>> \o es) = 1 + Len(es)
      /\ \A i \in 1 .. 1 + Len(es) :
           (<<rec>> \o es)[i] = IF i <= 1 THEN rec ELSE es[i - 1]
  BY <1>1, ConcatProperties
<1>3. ASSUME NEW i \in 1 .. 1 + Len(es)
      PROVE  (<<rec>> \o es)[i] = rec \/ \E j \in 1 .. Len(es) : (<<rec>> \o es)[i] = es[j]
  BY <1>1, <1>2
<1> QED
  BY <1>2, <1>3, LenProperties

LEMMA MovedEntries ==
  ASSUME Types, NEW r \in Replicas, NEW u, Hit(r, u), mem' = MovedToFront(r, u)
  PROVE  /\ mem' \in [Replicas -> Seq(Records)]
         /\ \A q \in Replicas : \A i \in DOMAIN mem'[q] : \E j \in DOMAIN mem[q] : mem'[q][i] = mem[q][j]
<1> DEFINE es == mem[r]
           rest == Without(es, u)
           got == Got(r, u)
<1>1. es \in Seq(Records)
  BY DEF Types
<1>2. \E j \in DOMAIN es : got = es[j] /\ got \in Records
  BY <1>1, ElementOfSeq, LenProperties DEF Hit, Got, Where, Index
<1>3. rest \in Seq(Records) /\ \A i \in DOMAIN rest : \E j \in DOMAIN es : rest[i] = es[j]
  BY <1>1, WithoutEntries
<1>4. mem' = [mem EXCEPT ![r] = <<got>> \o rest]
  BY DEF MovedToFront
<1> HIDE DEF got, rest
<1>5. /\ <<got>> \o rest \in Seq(Records)
      /\ \A i \in DOMAIN (<<got>> \o rest) :
           (<<got>> \o rest)[i] = got \/ \E j \in DOMAIN rest : (<<got>> \o rest)[i] = rest[j]
  BY <1>2, <1>3, PushedFront
<1>6. \A i \in DOMAIN (<<got>> \o rest) : \E j \in DOMAIN es : (<<got>> \o rest)[i] = es[j]
  BY <1>2, <1>3, <1>5
<1>7. mem'[r] = <<got>> \o rest /\ \A q \in Replicas \ {r} : mem'[q] = mem[q]
  BY <1>4 DEF Types
<1> QED
  BY <1>4, <1>5, <1>6, <1>7 DEF Types

LEMMA PutEntries ==
  ASSUME Types, NEW r \in Replicas, NEW rec \in Records, Put(r, rec)
  PROVE  /\ mem' \in [Replicas -> Seq(Records)]
         /\ \A q \in Replicas : \A i \in DOMAIN mem'[q] :
              mem'[q][i] = rec \/ \E j \in DOMAIN mem[q] : mem'[q][i] = mem[q][j]
<1> DEFINE rest == Without(mem[r], rec.url)
           es == <<rec>> \o rest
<1>1. CASE UNCHANGED mem
  BY <1>1 DEF Types
<1>2. CASE \E last \in 0 .. Len(es) : mem' = [mem EXCEPT ![r] = SubSeq(es, 1, last)]
  <2>1. mem[r] \in Seq(Records)
    BY DEF Types
  <2>2. rest \in Seq(Records) /\ \A i \in DOMAIN rest : \E j \in DOMAIN mem[r] : rest[i] = mem[r][j]
    BY <2>1, WithoutEntries
  <2> HIDE DEF rest
  <2>3. /\ es \in Seq(Records)
        /\ \A i \in DOMAIN es : es[i] = rec \/ \E j \in DOMAIN rest : es[i] = rest[j]
    BY <2>2, PushedFront
  <2> HIDE DEF es
  <2>4. PICK last \in 0 .. Len(es) : mem' = [mem EXCEPT ![r] = SubSeq(es, 1, last)]
    BY <1>2
  <2>5. Len(es) \in Nat /\ \A i \in 1 .. last : es[i] \in Records
    BY <2>3, <2>4, ElementOfSeq, LenProperties
  <2>6. /\ SubSeq(es, 1, last) \in Seq(Records) /\ DOMAIN SubSeq(es, 1, last) = 1 .. last
        /\ \A i \in 1 .. last : SubSeq(es, 1, last)[i] = es[i]
    BY <2>3, <2>4, <2>5, SubSeqProperties, LenProperties
  <2>7. \A i \in 1 .. last : i \in DOMAIN es
    BY <2>3, <2>4, <2>5, LenProperties
  <2>8. mem'[r] = SubSeq(es, 1, last) /\ \A q \in Replicas \ {r} : mem'[q] = mem[q]
    BY <2>4 DEF Types
  <2> QED
    BY <2>2, <2>3, <2>4, <2>6, <2>7, <2>8 DEF Types
<1> QED
  BY <1>1, <1>2 DEF Put, Evicts, memory

-----------------------------------------------------------------------------
(* A memory that a step adds to, at most, an entry that is known.          *)
LEMMA MemoryStays ==
  ASSUME MemoryKnown, NEW e,
         \A q \in Replicas : \A i \in DOMAIN mem'[q] :
           mem'[q][i] = e \/ \E j \in DOMAIN mem[q] : mem'[q][i] = mem[q][j],
         EntryKnown(e), UNCHANGED <<bucket, announced, foreign, excused>>
  PROVE  MemoryKnown'
<1>1. ASSUME NEW q \in Replicas, NEW i \in DOMAIN mem'[q] PROVE EntryKnown(mem[q][i])'
  <2>1. EntryKnown(mem'[q][i])
    BY <1>1 DEF MemoryKnown
  <2> QED
    BY <2>1 DEF EntryKnown, Kept, Sourced
<1> QED
  BY <1>1 DEF MemoryKnown

LEMMA InitInv == Init => IInv
<1> SUFFICES ASSUME Init PROVE IInv
  OBVIOUS
<1>1. Idle \in Operation /\ Idle.pc = "idle"
  BY NarIndexAssumption DEF Idle, Operation, Asked
<1>2. \A r \in Replicas : mem[r] = <<>> /\ DOMAIN mem[r] = {}
  BY DEF Init
<1>3. Types
  BY <1>1, EmptySeq DEF Init, Types
<1>4. \A u \in URLs : ~Usable(bucket[u], u)
  BY DEF Init, Usable
<1> QED
  BY <1>1, <1>2, <1>3, <1>4 DEF Init, IInv, OpKnown, At, MemoryKnown, BucketKnown, ServedKnown

(* A request that goes on, and one that returns.                           *)
LEMMA GoesOn ==
  ASSUME Types, NEW o \in Ops, NEW p \in {"put", "store", "remember"}, Goes(o, p)
  PROVE  /\ op' \in [Ops -> Operation] /\ \A q \in Ops \ {o} : op'[q] = op[q]
         /\ op'[o].pc = p /\ op'[o].rec = op[o].rec
BY DEF Types, Operation, Goes

LEMMA IsBack ==
  ASSUME Types, NEW o \in Ops, Returns(o)
  PROVE  /\ op' \in [Ops -> Operation] /\ \A q \in Ops \ {o} : op'[q] = op[q]
         /\ op'[o].pc = "idle"
<1>1. Idle \in Operation /\ Idle.pc = "idle"
  BY NarIndexAssumption DEF Idle, Operation, Asked
<1> QED
  BY <1>1 DEF Types, Returns

-----------------------------------------------------------------------------
(* record.                                                                 *)

LEMMA NarinfoInv ==
  ASSUME IInv, NEW o \in Ops, NEW r \in Replicas, NEW rec \in Records, Narinfo(o, r, rec)
  PROVE  IInv'
<1> USE DEF IInv, memory, Sourced
<1> DEFINE new == [pc |-> "compare", replica |-> r, rec |-> rec, answer |-> Nothing]
<1>1. op' = [op EXCEPT ![o] = new] /\ announced' = announced \cup {rec}
      /\ UNCHANGED <<mem, bucket, foreign, served, excused>>
  BY DEF Narinfo
<1>2. new \in Operation /\ new.pc = "compare" /\ new.rec = rec
  BY DEF Operation, Asked
<1> HIDE DEF new
<1>3. op' \in [Ops -> Operation] /\ op'[o] = new /\ \A q \in Ops \ {o} : op'[q] = op[q]
  BY <1>1, <1>2 DEF Types
<1>4. \A q \in Ops : OpKnown(q)'
  BY <1>1, <1>2, <1>3 DEF OpKnown, At, Kept, Usable
<1>5. MemoryKnown' /\ BucketKnown' /\ ServedKnown'
  BY <1>1 DEF MemoryKnown, BucketKnown, ServedKnown, EntryKnown, Kept
<1> QED
  BY <1>1, <1>3, <1>4, <1>5 DEF Types

LEMMA CompareInv ==
  ASSUME IInv, NEW o \in Ops, Compare(o)
  PROVE  IInv'
<1> USE DEF IInv, Sourced
<1>1. PICK r \in Replicas, rec \in Records : r = op[o].replica /\ rec = op[o].rec /\ rec \in announced
  BY DEF Compare, Types, Operation, OpKnown
<1>2. /\ At(o, "compare") /\ UNCHANGED <<bucket, announced, foreign, excused>>
      /\ mem' = IF Hit(r, rec.url) THEN MovedToFront(r, rec.url) ELSE mem
      /\ \/ Hit(r, rec.url) /\ Returns(o) /\ served' = served \cup {rec.url}
         \/ Goes(o, "put") /\ UNCHANGED served
  BY <1>1 DEF Compare
<1>3. /\ mem' \in [Replicas -> Seq(Records)]
      /\ \A q \in Replicas : \A i \in DOMAIN mem'[q] : \E j \in DOMAIN mem[q] : mem'[q][i] = mem[q][j]
  <2>1. CASE Hit(r, rec.url) /\ mem' = MovedToFront(r, rec.url)
    BY <2>1, MovedEntries
  <2>2. CASE UNCHANGED mem
    BY <2>2 DEF Types
  <2> QED
    BY <1>2, <2>1, <2>2
<1>4. MemoryKnown'
  BY <1>2, <1>3 DEF MemoryKnown, EntryKnown, Kept
<1>5. /\ op' \in [Ops -> Operation] /\ \A q \in Ops \ {o} : op'[q] = op[q]
      /\ op'[o].pc = "idle" \/ (op'[o].pc = "put" /\ op'[o].rec = rec)
  BY <1>1, <1>2, GoesOn, IsBack
<1>6. \A q \in Ops : OpKnown(q)'
  BY <1>1, <1>2, <1>5 DEF OpKnown, At, Kept
<1>7. served' \subseteq URLs /\ ServedKnown'
  <2>1. CASE Hit(r, rec.url) /\ served' = served \cup {rec.url}
    <3>1. rec.url \in URLs
      BY DEF URLs
    <3>2. PICK i \in DOMAIN mem[r] : mem[r][i].url = rec.url
      BY <2>1 DEF Hit, Index
    <3>3. Kept(rec.url)
      BY <3>2 DEF MemoryKnown, EntryKnown
    <3> QED
      BY <1>2, <2>1, <3>1, <3>3 DEF Types, ServedKnown, Kept
  <2>2. CASE UNCHANGED served
    BY <1>2, <2>2 DEF Types, ServedKnown, Kept
  <2> QED
    BY <1>2, <2>1, <2>2
<1> QED
  BY <1>2, <1>3, <1>4, <1>5, <1>6, <1>7 DEF Types, BucketKnown

(* The object is written: from here on every replica finds the record.     *)
LEMMA StorePutInv ==
  ASSUME IInv, NEW o \in Ops, StorePut(o)
  PROVE  IInv'
<1> USE DEF IInv, memory, Sourced
<1>1. PICK rec \in Records : rec = op[o].rec /\ rec \in announced /\ rec.url \in URLs
  BY DEF StorePut, OpKnown, Types, URLs
<1>2. /\ At(o, "put") /\ bucket' = [bucket EXCEPT ![rec.url] = rec] /\ excused' = excused \ {rec.url}
      /\ UNCHANGED <<mem, announced, foreign, served>>
  BY <1>1 DEF StorePut
<1>3. /\ op' \in [Ops -> Operation] /\ \A q \in Ops \ {o} : op'[q] = op[q]
      /\ op'[o].pc = "remember" /\ op'[o].rec = rec
  BY <1>1, GoesOn DEF StorePut
<1>4. Usable(bucket'[rec.url], rec.url) /\ bucket' \in [URLs -> Records \cup {Nothing, Garbage}]
      /\ \A u \in URLs \ {rec.url} : bucket'[u] = bucket[u]
  BY <1>1, <1>2, NarIndexAssumption DEF Usable, Types
<1>5. ASSUME NEW u \in URLs, Kept(u) \/ u = rec.url PROVE Kept(u)'
  BY <1>2, <1>4, <1>5 DEF Kept
<1>6. \A e \in Sourced : e.url \in URLs
  BY DEF Types, URLs
<1>7. MemoryKnown'
  <2>1. ASSUME NEW q \in Replicas, NEW i \in DOMAIN mem[q] PROVE EntryKnown(mem[q][i])'
    <3>1. PICK e \in Sourced : e = mem[q][i] /\ Kept(e.url)
      BY DEF MemoryKnown, EntryKnown
    <3>2. Kept(e.url)'
      BY <1>5, <1>6, <3>1
    <3> QED
      BY <1>2, <3>1, <3>2 DEF EntryKnown, Kept
  <2> QED
    BY <1>2, <2>1 DEF MemoryKnown
<1>8. \A q \in Ops : OpKnown(q)'
  <2>1. OpKnown(o)'
    BY <1>1, <1>2, <1>3, <1>5 DEF OpKnown, At, Kept
  <2>2. ASSUME NEW q \in Ops \ {o} PROVE OpKnown(q)'
    <3>1. op'[q] = op[q] /\ OpKnown(q)
      BY <1>3
    <3>2. ASSUME NEW u \in URLs, Kept(u) PROVE u \notin excused' => Usable(bucket'[u], u)
      BY <1>5, <3>2 DEF Kept
    <3> QED
      BY <1>2, <1>6, <3>1, <3>2 DEF OpKnown, At, Kept
  <2> QED
    BY <2>1, <2>2
<1>9. BucketKnown'
  BY <1>1, <1>2, <1>4 DEF BucketKnown, Types
<1>10. ServedKnown'
  BY <1>2, <1>5 DEF ServedKnown, Types
<1> QED
  BY <1>2, <1>3, <1>4, <1>7, <1>8, <1>9, <1>10 DEF Types

(* The object is not written: the URL is excused, unless it has one.       *)
LEMMA StorePutFailsInv ==
  ASSUME IInv, NEW o \in Ops, StorePutFails(o)
  PROVE  IInv'
<1> USE DEF IInv, memory, Sourced
<1>1. PICK rec \in Records : rec = op[o].rec /\ rec \in announced /\ rec.url \in URLs
  BY DEF StorePutFails, OpKnown, Types, URLs
<1>2. /\ At(o, "put")
      /\ excused \subseteq excused' /\ excused' \subseteq excused \cup {rec.url}
      /\ Usable(bucket[rec.url], rec.url) \/ rec.url \in excused'
      /\ UNCHANGED <<mem, bucket, announced, foreign, served>>
  BY <1>1 DEF StorePutFails
<1>3. /\ op' \in [Ops -> Operation] /\ \A q \in Ops \ {o} : op'[q] = op[q]
      /\ op'[o].pc = "remember" /\ op'[o].rec = rec
  BY <1>1, GoesOn DEF StorePutFails
<1>4. \A q \in Ops : OpKnown(q)'
  BY <1>1, <1>2, <1>3 DEF OpKnown, At, Kept
<1>5. MemoryKnown' /\ BucketKnown' /\ ServedKnown'
  BY <1>2 DEF MemoryKnown, BucketKnown, ServedKnown, EntryKnown, Kept
<1> QED
  BY <1>1, <1>2, <1>3, <1>4, <1>5 DEF Types

LEMMA RememberInv ==
  ASSUME IInv, NEW o \in Ops, Remember(o)
  PROVE  IInv'
<1> USE DEF IInv, Sourced
<1>1. PICK r \in Replicas, rec \in Records :
        /\ r = op[o].replica /\ rec = op[o].rec /\ rec \in announced /\ rec.url \in URLs /\ Kept(rec.url)
  BY DEF Remember, Types, Operation, OpKnown, URLs
<1>2. /\ At(o, "remember") /\ UNCHANGED <<bucket, announced, foreign, excused>>
      /\ Put(r, rec) /\ served' = served \cup {rec.url}
  BY <1>1 DEF Remember
<1>3. /\ op' \in [Ops -> Operation] /\ \A q \in Ops \ {o} : op'[q] = op[q]
      /\ op'[o].pc = "idle"
  BY IsBack DEF Remember
<1>4. /\ mem' \in [Replicas -> Seq(Records)]
      /\ \A q \in Replicas : \A i \in DOMAIN mem'[q] :
           mem'[q][i] = rec \/ \E j \in DOMAIN mem[q] : mem'[q][i] = mem[q][j]
  BY <1>2, PutEntries
<1>5. EntryKnown(rec)
  BY <1>1 DEF EntryKnown
<1>6. MemoryKnown'
  BY <1>2, <1>4, <1>5, MemoryStays
<1>7. \A q \in Ops : OpKnown(q)'
  BY <1>2, <1>3 DEF OpKnown, At, Kept
<1>8. ServedKnown' /\ BucketKnown'
  BY <1>1, <1>2 DEF ServedKnown, BucketKnown, Kept
<1> QED
  BY <1>1, <1>2, <1>3, <1>4, <1>6, <1>7, <1>8 DEF Types

-----------------------------------------------------------------------------
(* lookup.                                                                 *)

LEMMA LookupInv ==
  ASSUME IInv, NEW o \in Ops, NEW r \in Replicas, NEW u \in URLs, Lookup(o, r, u)
  PROVE  IInv'
<1> USE DEF IInv, memory, history, Sourced
<1> DEFINE new == [pc |-> "memory", replica |-> r, rec |-> [url |-> u, hash |-> "none"], answer |-> Nothing]
<1>1. op' = [op EXCEPT ![o] = new] /\ UNCHANGED <<mem, bucket, announced, foreign, served, excused>>
  BY DEF Lookup
<1>2. new \in Operation /\ new.pc = "memory" /\ new.rec.url = u
  BY DEF Operation, Asked
<1> HIDE DEF new
<1>3. op' \in [Ops -> Operation] /\ op'[o] = new /\ \A q \in Ops \ {o} : op'[q] = op[q]
  BY <1>1, <1>2 DEF Types
<1>4. \A q \in Ops : OpKnown(q)'
  BY <1>1, <1>2, <1>3 DEF OpKnown, At, Kept
<1>5. MemoryKnown' /\ BucketKnown' /\ ServedKnown'
  BY <1>1 DEF MemoryKnown, BucketKnown, ServedKnown, EntryKnown, Kept
<1> QED
  BY <1>1, <1>3, <1>4, <1>5 DEF Types

LEMMA LookInv ==
  ASSUME IInv, NEW o \in Ops, LookInMemory(o) \/ LookInStore(o) \/ LookFails(o)
  PROVE  IInv'
<1> USE DEF IInv, memory, history, Sourced
<1>1. UNCHANGED <<bucket, announced, foreign, served, excused>>
  BY DEF LookInMemory, LookInStore, LookFails
<1>2. PICK r \in Replicas, u \in URLs : r = op[o].replica /\ u = op[o].rec.url
  BY DEF LookInMemory, LookInStore, LookFails, OpKnown, Types, Operation
<1>3. /\ mem' \in [Replicas -> Seq(Records)]
      /\ \A q \in Replicas : \A i \in DOMAIN mem'[q] : \E j \in DOMAIN mem[q] : mem'[q][i] = mem[q][j]
  <2>1. CASE Hit(r, u) /\ mem' = MovedToFront(r, u)
    BY <2>1, MovedEntries
  <2>2. CASE UNCHANGED mem
    BY <2>2 DEF Types
  <2> QED
    BY <1>2, <2>1, <2>2 DEF LookInMemory, LookInStore, LookFails
<1>4. /\ op' \in [Ops -> Operation] /\ \A q \in Ops \ {o} : op'[q] = op[q]
      /\ \/ op'[o].pc = "idle"
         \/ op'[o].pc = "store" /\ op'[o].rec.url = u
         \/ op'[o].pc = "keep" /\ op'[o].rec.url = u /\ op'[o].answer = bucket[u] /\ Usable(bucket[u], u)
  <2>1. CASE LookInStore(o) /\ Usable(bucket[u], u)
    <3>1. op' = [op EXCEPT ![o].pc = "keep", ![o].answer = bucket[u]]
      BY <1>2, <2>1 DEF LookInStore
    <3>2. bucket[u] \in Records
      BY <2>1 DEF Types, Usable
    <3> QED
      BY <1>2, <2>1, <3>1, <3>2 DEF Types, Operation
  <2>2. CASE Goes(o, "store") \/ Returns(o)
    BY <1>2, <2>2, GoesOn, IsBack
  <2> QED
    BY <1>2, <2>1, <2>2 DEF LookInMemory, LookInStore, LookFails
<1>5. \A q \in Ops : OpKnown(q)'
  <2>1. Usable(bucket[u], u) => bucket[u] \in Sourced /\ bucket[u].url = u
    BY DEF BucketKnown, Usable
  <2> QED
    BY <1>1, <1>4, <2>1 DEF OpKnown, At, Kept
<1>6. MemoryKnown'
  BY <1>1, <1>3 DEF MemoryKnown, EntryKnown, Kept
<1> QED
  BY <1>1, <1>3, <1>4, <1>5, <1>6 DEF Types, BucketKnown, ServedKnown, Kept

LEMMA KeepInv ==
  ASSUME IInv, NEW o \in Ops, Keep(o)
  PROVE  IInv'
<1> USE DEF IInv, history, Sourced
<1>1. PICK r \in Replicas, rec \in Records : r = op[o].replica /\ rec = op[o].answer /\ EntryKnown(rec)
  BY DEF Keep, Types, Operation, OpKnown, EntryKnown
<1>2. UNCHANGED <<bucket, announced, foreign, served, excused>> /\ Put(r, rec)
  BY <1>1 DEF Keep
<1>3. /\ op' \in [Ops -> Operation] /\ \A q \in Ops \ {o} : op'[q] = op[q]
      /\ op'[o].pc = "idle"
  BY IsBack DEF Keep
<1>4. /\ mem' \in [Replicas -> Seq(Records)]
      /\ \A q \in Replicas : \A i \in DOMAIN mem'[q] :
           mem'[q][i] = rec \/ \E j \in DOMAIN mem[q] : mem'[q][i] = mem[q][j]
  BY <1>2, PutEntries
<1>5. MemoryKnown'
  BY <1>1, <1>2, <1>4, MemoryStays
<1>6. \A q \in Ops : OpKnown(q)'
  BY <1>2, <1>3 DEF OpKnown, At, Kept
<1> QED
  BY <1>2, <1>3, <1>4, <1>5, <1>6 DEF Types, BucketKnown, ServedKnown, Kept

-----------------------------------------------------------------------------
(* The surroundings: whose object is spoilt is excused.                    *)
LEMMA BucketChangesInv ==
  ASSUME IInv, NEW u \in URLs, BucketChanges(u)
  PROVE  IInv'
<1> USE DEF IInv, memory
<1>1. PICK raw \in Records \cup {Nothing, Garbage} :
        /\ bucket' = [bucket EXCEPT ![u] = raw]
        /\ foreign' = IF Usable(raw, u) THEN foreign \cup {raw} ELSE foreign
        /\ excused' = IF Usable(raw, u) THEN excused ELSE excused \cup {u}
  BY DEF BucketChanges
<1>2. UNCHANGED <<op, mem, announced, served>>
  BY DEF BucketChanges
<1>3. /\ bucket' \in [URLs -> Records \cup {Nothing, Garbage}]
      /\ foreign' \subseteq Records /\ excused' \subseteq URLs
      /\ foreign \subseteq foreign' /\ excused \subseteq excused'
      /\ Usable(bucket'[u], u) => bucket'[u] \in foreign'
      /\ Usable(bucket'[u], u) \/ u \in excused'
      /\ \A v \in URLs \ {u} : bucket'[v] = bucket[v]
  BY <1>1 DEF Types, Usable
<1>4. ASSUME NEW v \in URLs, Kept(v) PROVE v \notin excused' => Usable(bucket'[v], v)
  BY <1>3, <1>4 DEF Kept
<1>5. /\ \A e \in Sourced : e.url \in URLs
      /\ Sourced \subseteq Sourced'
  BY <1>2, <1>3 DEF Types, URLs, Sourced
<1>6. ASSUME NEW q \in Ops PROVE OpKnown(q)'
  <2>1. op[q].rec \in announced => op[q].rec.url \in URLs
    BY DEF Types, URLs
  <2>2. op[q].answer \in Sourced => op[q].answer.url \in URLs /\ op[q].answer \in Sourced'
    BY <1>5
  <2> QED
    BY <1>2, <1>4, <2>1, <2>2 DEF OpKnown, At, Kept
<1>7. MemoryKnown'
  <2>1. ASSUME NEW q \in Replicas, NEW i \in DOMAIN mem[q] PROVE EntryKnown(mem[q][i])'
    <3>1. mem[q][i] \in Sourced /\ mem[q][i].url \in URLs /\ Kept(mem[q][i].url)
      BY <1>5 DEF MemoryKnown, EntryKnown
    <3> QED
      BY <1>2, <1>4, <1>5, <3>1 DEF EntryKnown, Kept
  <2> QED
    BY <1>2, <2>1 DEF MemoryKnown
<1>8. BucketKnown' /\ ServedKnown'
  <2>1. ASSUME NEW v \in URLs, Usable(bucket'[v], v) PROVE bucket'[v] \in Sourced'
    BY <1>3, <1>5, <2>1 DEF BucketKnown, Sourced
  <2>2. ServedKnown'
    BY <1>2, <1>4 DEF ServedKnown, Kept, Types
  <2> QED
    BY <2>1, <2>2 DEF BucketKnown
<1> QED
  BY <1>2, <1>3, <1>6, <1>7, <1>8 DEF Types

LEMMA RestartInv ==
  ASSUME IInv, NEW r \in Replicas, Restart(r)
  PROVE  IInv'
<1> USE DEF IInv, Sourced
<1>1. /\ mem' = [mem EXCEPT ![r] = <<>>] /\ op' = [o \in Ops |-> IF op[o].replica = r THEN Idle ELSE op[o]]
      /\ UNCHANGED <<bucket, announced, foreign, served, excused>>
  BY DEF Restart
<1>2. Idle \in Operation /\ Idle.pc = "idle"
  BY NarIndexAssumption DEF Idle, Operation, Asked
<1>3. op' \in [Ops -> Operation] /\ \A o \in Ops : OpKnown(o)'
  BY <1>1, <1>2 DEF Types, OpKnown, At, Kept
<1>4. mem' \in [Replicas -> Seq(Records)] /\ mem'[r] = <<>> /\ \A q \in Replicas \ {r} : mem'[q] = mem[q]
  BY <1>1, EmptySeq DEF Types
<1>5. MemoryKnown'
  BY <1>1, <1>4 DEF MemoryKnown, EntryKnown, Kept
<1> QED
  BY <1>1, <1>3, <1>4, <1>5 DEF Types, BucketKnown, ServedKnown, Kept

LEMMA NextInv == IInv /\ [Next]_vars => IInv'
<1>1. ASSUME IInv, UNCHANGED vars PROVE IInv'
  BY <1>1 DEF IInv, Types, MemoryKnown, BucketKnown, ServedKnown, OpKnown, EntryKnown, Sourced, Kept, At,
              vars, memory, history
<1>2. ASSUME IInv, Next PROVE IInv'
  BY <1>2, NarinfoInv, CompareInv, StorePutInv, StorePutFailsInv, RememberInv, LookupInv, LookInv, KeepInv,
     BucketChangesInv, RestartInv DEF Next, Step
<1> QED
  BY <1>1, <1>2

(* The invariant holds in every state of every behaviour.                  *)
THEOREM Invariance == Spec => []IInv
BY InitInv, NextInv, PTL DEF Spec

-----------------------------------------------------------------------------
(* A NAR is verified against a record of its own URL, from a narinfo or    *)
(* from whoever else wrote under that URL's key, for any replicas.         *)
THEOREM OwnRecordTheorem == Spec => []AnswersAreTheURLsOwn
<1>1. IInv => AnswersAreTheURLsOwn
  BY DEF IInv, OpKnown, MemoryKnown, EntryKnown, AnswersAreTheURLsOwn
<1> QED
  BY <1>1, Invariance, PTL

(* Every replica finds the record of a narinfo that was served, for any    *)
(* number of replicas, but where the code excuses itself.                  *)
THEOREM EveryReplicaTheorem == Spec => []EveryReplicaFinds
<1>1. ASSUME IInv, NEW u \in URLs \ excused, u \in served \/ \E r \in Replicas : Hit(r, u)
      PROVE  Usable(bucket[u], u)
  <2>1. CASE u \in served
    BY <1>1, <2>1 DEF IInv, ServedKnown, Kept
  <2>2. ASSUME NEW r \in Replicas, Hit(r, u) PROVE Kept(u)
    BY <1>1, <2>2 DEF Hit, Index, IInv, MemoryKnown, EntryKnown
  <2> QED
    BY <1>1, <2>1, <2>2 DEF Kept
<1>2. IInv => EveryReplicaFinds
  BY <1>1 DEF EveryReplicaFinds
<1> QED
  BY <1>2, Invariance, PTL

-----------------------------------------------------------------------------
(* Induction over the numbers, from the least element of a set of them.    *)

Less == {ss \in Nat \X Nat : ss[1] < ss[2]}

LEMMA LeastNumber ==
  ASSUME NEW S \in SUBSET Nat, S # {}
  PROVE  \E n \in S : \A m \in S : n <= m
<1>1. IsWellFoundedOn(Less, Nat)
  BY NatLessThanWellFounded DEF OpToRel, Less
<1>2. \E n \in S : \A m \in S : <<m, n>> \notin Less
  BY <1>1, WFMin
<1>3. \A m, n \in Nat : <<m, n>> \notin Less => n <= m
  BY DEF Less
<1> QED
  BY <1>2, <1>3

LEMMA AllNumbers ==
  ASSUME NEW S \in SUBSET Nat, 0 \in S, \A n \in S : n + 1 \in S
  PROVE  S = Nat
<1> SUFFICES ASSUME Nat \ S # {} PROVE FALSE
  OBVIOUS
<1>1. PICK n \in Nat \ S : \A m \in Nat \ S : n <= m
  BY LeastNumber
<1>2. n # 0 /\ n - 1 \in Nat /\ n - 1 < n /\ n - 1 + 1 = n
  BY <1>1
<1>3. n - 1 \in S
  BY <1>1, <1>2
<1> QED
  BY <1>1, <1>2, <1>3

(* The sums of the first entries: they exist, and each adds one entry.     *)

SumsUpTo(f, es, n) ==
  /\ f \in [1 .. n -> Nat]
  /\ \A i \in 1 .. n : f[i] = SizeOf[es[i]] + (IF i = 1 THEN 0 ELSE f[i - 1])

LEMMA EntrySize ==
  ASSUME NEW es \in Seq(Records), NEW i \in 1 .. Len(es)
  PROVE  es[i] \in Records /\ SizeOf[es[i]] \in Nat
BY NarIndexAssumption, ElementOfSeq

LEMMA SumsExist ==
  ASSUME NEW es \in Seq(Records)
  PROVE  \E f : SumsUpTo(f, es, Len(es))
<1> DEFINE S == {n \in Nat : n <= Len(es) => \E f : SumsUpTo(f, es, n)}
<1>1. Len(es) \in Nat
  BY LenProperties
<1>2. 0 \in S
  <2>1. SumsUpTo([i \in 1 .. 0 |-> 0], es, 0)
    BY DEF SumsUpTo
  <2> QED
    BY <2>1
<1>3. ASSUME NEW n \in S PROVE n + 1 \in S
  <2> SUFFICES ASSUME n + 1 <= Len(es) PROVE \E f : SumsUpTo(f, es, n + 1)
    OBVIOUS
  <2>1. PICK f : SumsUpTo(f, es, n)
    BY <1>1
  <2> DEFINE last == SizeOf[es[n + 1]] + (IF n = 0 THEN 0 ELSE f[n])
             g == [i \in 1 .. n + 1 |-> IF i <= n THEN f[i] ELSE last]
  <2>2. last \in Nat
    BY <1>1, <2>1, EntrySize DEF SumsUpTo
  <2> HIDE DEF last
  <2>3. g \in [1 .. n + 1 -> Nat]
    BY <2>1, <2>2 DEF SumsUpTo
  <2>4. (\A i \in 1 .. n : g[i] = f[i]) /\ g[n + 1] = last
    OBVIOUS
  <2> HIDE DEF g
  <2>5. ASSUME NEW i \in 1 .. n + 1
        PROVE  g[i] = SizeOf[es[i]] + (IF i = 1 THEN 0 ELSE g[i - 1])
    <3>1. CASE i = n + 1
      <4>1. n # 0 => n \in 1 .. n
        OBVIOUS
      <4> QED
        BY <2>4, <3>1, <4>1 DEF last
    <3>2. CASE i # n + 1
      <4>1. i \in 1 .. n /\ (i # 1 => i - 1 \in 1 .. n)
        BY <3>2
      <4> QED
        BY <2>1, <2>4, <4>1 DEF SumsUpTo
    <3> QED
      BY <3>1, <3>2
  <2>6. SumsUpTo(g, es, n + 1)
    BY <2>3, <2>5 DEF SumsUpTo
  <2> QED
    BY <2>6
<1> HIDE DEF S
<1>4. S = Nat
  <2>1. S \subseteq Nat
    BY DEF S
  <2> QED
    BY <1>2, <1>3, <2>1, AllNumbers
<1> QED
  BY <1>1, <1>4 DEF S

LEMMA SumsAre ==
  ASSUME NEW es \in Seq(Records)
  PROVE  SumsUpTo(Sums(es), es, Len(es))
<1> DEFINE Next1(f) == [n \in 1 .. Len(es) |-> SizeOf[es[n]] + (IF n = 1 THEN 0 ELSE f[n - 1])]
<1>1. Len(es) \in Nat
  BY LenProperties
<1>2. PICK f : SumsUpTo(f, es, Len(es))
  BY SumsExist
<1>3. f = Next1(f)
  BY <1>1, <1>2 DEF SumsUpTo
<1>4. Sums(es) = CHOOSE g : g = Next1(g)
  BY DEF Sums
<1> HIDE DEF Next1
<1>5. PICK g : g = Sums(es) /\ g = Next1(g)
  BY <1>3, <1>4
<1>6. /\ DOMAIN g = 1 .. Len(es) /\ g = [n \in 1 .. Len(es) |-> g[n]]
      /\ \A n \in 1 .. Len(es) : g[n] = SizeOf[es[n]] + (IF n = 1 THEN 0 ELSE g[n - 1])
  BY <1>5, Zenon DEF Next1
<1>7. \A n \in 1 .. Len(es) : g[n] \in Nat
  <2> DEFINE S == {n \in Nat : n \in 1 .. Len(es) => g[n] \in Nat}
  <2>1. 0 \in S
    OBVIOUS
  <2>2. ASSUME NEW n \in S PROVE n + 1 \in S
    <3> SUFFICES ASSUME NEW k \in 1 .. Len(es), k = n + 1 PROVE g[k] \in Nat
      OBVIOUS
    <3>1. SizeOf[es[k]] \in Nat
      BY EntrySize
    <3>2. CASE k = 1
      <4>1. g[k] = SizeOf[es[k]] + 0
        BY <1>6, <3>2
      <4> QED
        BY <3>1, <4>1
    <3>3. CASE k # 1
      <4>1. k - 1 = n /\ n \in 1 .. Len(es)
        BY <1>1, <3>3
      <4>2. g[k] = SizeOf[es[k]] + g[k - 1]
        BY <1>6, <3>3, Zenon
      <4>3. g[n] \in Nat
        BY <4>1
      <4> QED
        BY <3>1, <4>1, <4>2, <4>3
    <3> QED
      BY <3>2, <3>3
  <2> HIDE DEF S
  <2>3. S = Nat
    <3>1. S \subseteq Nat
      BY DEF S
    <3> QED
      BY <2>1, <2>2, <3>1, AllNumbers
  <2> QED
    BY <1>1, <2>3 DEF S
<1>8. g \in [1 .. Len(es) -> Nat]
  BY <1>6, <1>7
<1> QED
  BY <1>5, <1>6, <1>8 DEF SumsUpTo

(* What the first n entries take.                                          *)
Upto(es, n) == IF n = 0 THEN 0 ELSE Sums(es)[n]

LEMMA UptoIs ==
  ASSUME NEW es \in Seq(Records)
  PROVE  /\ Len(es) \in Nat /\ Total(es) = Upto(es, Len(es)) /\ Upto(es, 0) = 0
         /\ \A n \in 0 .. Len(es) : Upto(es, n) \in Nat
         /\ \A n \in 1 .. Len(es) :
              SizeOf[es[n]] \in Nat /\ Upto(es, n) = SizeOf[es[n]] + Upto(es, n - 1)
<1>1. Len(es) \in Nat /\ (es = <<>> <=> Len(es) = 0)
  BY EmptySeq, LenProperties
<1>2. PICK g : g = Sums(es) /\ SumsUpTo(g, es, Len(es))
  BY SumsAre
<1>3. \A n \in 1 .. Len(es) : g[n] \in Nat /\ g[n] = SizeOf[es[n]] + (IF n = 1 THEN 0 ELSE g[n - 1])
  BY <1>2 DEF SumsUpTo
<1>4. Upto(es, 0) = 0 /\ \A n \in 1 .. Len(es) : Upto(es, n) = g[n]
  BY <1>2 DEF Upto
<1>5. Total(es) = Upto(es, Len(es))
  BY <1>1, <1>2 DEF Total, Upto
<1>6. \A n \in 0 .. Len(es) : Upto(es, n) \in Nat
  BY <1>1, <1>3, <1>4
<1>7. ASSUME NEW n \in 1 .. Len(es)
      PROVE  SizeOf[es[n]] \in Nat /\ Upto(es, n) = SizeOf[es[n]] + Upto(es, n - 1)
  <2>1. SizeOf[es[n]] \in Nat
    BY EntrySize
  <2>2. CASE n = 1
    BY <1>3, <1>4, <2>1, <2>2
  <2>3. CASE n # 1
    <3>1. n - 1 \in 1 .. Len(es)
      BY <1>1, <2>3
    <3> QED
      BY <1>3, <1>4, <2>1, <2>3, <3>1
  <2> QED
    BY <2>2, <2>3
<1> QED
  BY <1>1, <1>4, <1>5, <1>6, <1>7

(* The same k entries, after a of es and after b of fs.                    *)
SameRun(es, a, fs, b, k) == \A i \in 1 .. k : es[a + i] = fs[b + i]

(* The same entries take the same, wherever they are.                      *)
LEMMA SameEntries ==
  ASSUME NEW es \in Seq(Records), NEW fs \in Seq(Records),
         NEW a \in Nat, NEW b \in Nat, NEW k \in Nat, NEW c, NEW d, c = a + k, d = b + k,
         c <= Len(es), d <= Len(fs), SameRun(es, a, fs, b, k)
  PROVE  Upto(es, c) + Upto(fs, b) = Upto(fs, d) + Upto(es, a)
<1> DEFINE Same(j) == \A x, y \in Nat :
             x = a + j /\ y = b + j => Upto(es, x) + Upto(fs, b) = Upto(fs, y) + Upto(es, a)
           S == {j \in Nat : j <= k => Same(j)}
<1>1. /\ Len(es) \in Nat /\ \A n \in 0 .. Len(es) : Upto(es, n) \in Nat
      /\ Len(fs) \in Nat /\ \A n \in 0 .. Len(fs) : Upto(fs, n) \in Nat
  BY UptoIs
<1>2. 0 \in S
  BY <1>1
<1>3. ASSUME NEW j \in S PROVE j + 1 \in S
  <2> SUFFICES ASSUME j + 1 <= k, NEW x \in Nat, NEW y \in Nat, x = a + (j + 1), y = b + (j + 1)
               PROVE  Upto(es, x) + Upto(fs, b) = Upto(fs, y) + Upto(es, a)
    OBVIOUS
  <2>1. PICK i \in Nat : i = j + 1
    OBVIOUS
  <2>2. /\ i \in 1 .. k /\ x \in 1 .. Len(es) /\ y \in 1 .. Len(fs)
        /\ x - 1 = a + j /\ y - 1 = b + j /\ x = a + i /\ y = b + i
    BY <1>1, <2>1
  <2>3. es[x] = fs[y]
    BY <2>2 DEF SameRun
  <2>4. SizeOf[es[x]] \in Nat /\ Upto(es, x) = SizeOf[es[x]] + Upto(es, x - 1)
    BY <2>2, UptoIs
  <2>5. Upto(fs, y) = SizeOf[es[x]] + Upto(fs, y - 1)
    BY <2>2, <2>3, UptoIs
  <2>6. /\ Upto(es, x - 1) \in Nat /\ Upto(es, a) \in Nat
        /\ Upto(fs, y - 1) \in Nat /\ Upto(fs, b) \in Nat
    <3>1. a \in 0 .. Len(es) /\ b \in 0 .. Len(fs) /\ x - 1 \in 0 .. Len(es) /\ y - 1 \in 0 .. Len(fs)
      BY <1>1, <2>2
    <3> QED
      BY <1>1, <3>1
  <2>7. Upto(es, x - 1) + Upto(fs, b) = Upto(fs, y - 1) + Upto(es, a)
    <3>1. j <= k /\ x - 1 \in Nat /\ y - 1 \in Nat
      BY <2>2
    <3> QED
      BY <2>2, <3>1
  <2> HIDE DEF S, Same
  <2>8. PICK p \in Nat, q \in Nat, t \in Nat, u \in Nat, v \in Nat :
          /\ p = Upto(es, x - 1) /\ q = Upto(fs, b) /\ t = Upto(fs, y - 1) /\ u = Upto(es, a)
          /\ v = SizeOf[es[x]]
    BY <2>4, <2>6
  <2>9. p + q = t + u /\ Upto(es, x) = v + p /\ Upto(fs, y) = v + t
    BY <2>4, <2>5, <2>7, <2>8
  <2> QED
    <3>1. v + p + q = v + t + u
      BY <2>9
    <3> QED
      BY <2>8, <2>9, <3>1
<1> HIDE DEF S
<1>4. S = Nat
  <2>1. S \subseteq Nat
    BY DEF S
  <2> QED
    BY <1>2, <1>3, <2>1, AllNumbers
<1>5. Same(k)
  <2>1. k \in S /\ k <= k
    BY <1>4
  <2> HIDE DEF Same
  <2> QED
    BY <2>1 DEF S
<1> QED
  BY <1>1, <1>5

LEMMA FirstEntries ==
  ASSUME NEW es \in Seq(Records), NEW last \in 0 .. Len(es)
  PROVE  /\ SubSeq(es, 1, last) \in Seq(Records) /\ Len(SubSeq(es, 1, last)) = last
         /\ \A i \in 1 .. last : SubSeq(es, 1, last)[i] = es[i]
         /\ Total(SubSeq(es, 1, last)) \in Nat
         /\ Total(es) - Total(SubSeq(es, last + 1, Len(es))) = Total(SubSeq(es, 1, last))
<1> DEFINE front == SubSeq(es, 1, last)
           back == SubSeq(es, last + 1, Len(es))
<1>1. Len(es) \in Nat /\ last \in Nat /\ \A i \in 1 .. Len(es) : es[i] \in Records
  BY UptoIs, ElementOfSeq
<1>2. front \in Seq(Records) /\ Len(front) = last /\ \A i \in 1 .. last : front[i] = es[i]
  BY <1>1, SubSeqProperties
<1>3. /\ back \in Seq(Records) /\ Len(back) = Len(es) - last
      /\ \A i \in 1 .. Len(es) - last : back[i] = es[last + i]
  BY <1>1, SubSeqProperties
<1> HIDE DEF front, back
<1>4. Upto(es, last) + Upto(front, 0) = Upto(front, last) + Upto(es, 0)
  <2>1. last = 0 + last /\ SameRun(es, 0, front, 0, last)
    BY <1>1, <1>2 DEF SameRun
  <2> QED
    BY <1>1, <1>2, <2>1, SameEntries
<1>5. Upto(es, Len(es)) + Upto(back, 0) = Upto(back, Len(back)) + Upto(es, last)
  <2>1. Len(back) \in Nat /\ Len(es) = last + Len(back) /\ Len(back) = 0 + Len(back)
    BY <1>1, <1>3
  <2>2. PICK m \in Nat, n \in Nat : m = Len(back) /\ n = Len(es) /\ n = last + m /\ m = 0 + m
    BY <1>1, <2>1
  <2>3. SameRun(es, last, back, 0, m)
    BY <1>1, <1>3, <2>2 DEF SameRun
  <2> QED
    BY <1>1, <1>3, <2>2, <2>3, SameEntries
<1>6. /\ Total(es) = Upto(es, Len(es)) /\ Total(front) = Upto(front, last) /\ Total(back) = Upto(back, Len(back))
      /\ Upto(es, 0) = 0 /\ Upto(front, 0) = 0 /\ Upto(back, 0) = 0
      /\ Upto(es, Len(es)) \in Nat /\ Upto(es, last) \in Nat /\ Upto(front, last) \in Nat
      /\ Upto(back, Len(back)) \in Nat
  BY <1>1, <1>2, <1>3, UptoIs
<1>8. Total(front) \in Nat /\ Total(es) - Total(back) = Total(front)
  BY <1>4, <1>5, <1>6
<1> QED
  BY <1>2, <1>8 DEF front, back

LEMMA TotalIsNumber ==
  ASSUME NEW es \in Seq(Records)
  PROVE  Total(es) \in Nat
<1>1. Len(es) \in 0 .. Len(es)
  BY UptoIs
<1> QED
  BY <1>1, UptoIs

-----------------------------------------------------------------------------
(* One entry for a URL, and what moving, replacing and evicting keep.      *)

OneEach(es) == \A i, j \in DOMAIN es : es[i].url = es[j].url => i = j

(* It takes its size away, and with it the only entry of its URL.          *)
LEMMA WithoutTotal ==
  ASSUME NEW es \in Seq(Records), NEW u, Index(es, u) # {}
  PROVE  Total(Without(es, u)) + SizeOf[es[Where(es, u)]] = Total(es)
<1> DEFINE w == Where(es, u)
           ws == Without(es, u)
<1>1. /\ w \in 1 .. Len(es) /\ Len(es) \in Nat /\ ws \in Seq(Records) /\ Len(ws) = Len(es) - 1
      /\ \A i \in 1 .. Len(es) - 1 : ws[i] = IF i < w THEN es[i] ELSE es[i + 1]
  BY WithoutIs
<1> HIDE DEF w, ws
<1>2. PICK m \in Nat, n \in Nat, k \in Nat : m = w - 1 /\ n = Len(ws) /\ n = m + k
  <2>1. w - 1 \in Nat /\ Len(ws) \in Nat /\ Len(ws) - (w - 1) \in Nat
        /\ Len(ws) = (w - 1) + (Len(ws) - (w - 1))
    BY <1>1
  <2> QED
    BY <2>1
<1>3. Len(es) = w + k /\ m = 0 + m
  BY <1>1, <1>2
<1>4. Upto(es, m) + Upto(ws, 0) = Upto(ws, m) + Upto(es, 0)
  <2>1. SameRun(es, 0, ws, 0, m)
    BY <1>1, <1>2 DEF SameRun
  <2>2. ws \in Seq(Records) /\ m <= Len(es) /\ m <= Len(ws) /\ m = 0 + m /\ 0 \in Nat
    BY <1>1, <1>2
  <2> QED
    BY <2>1, <2>2, SameEntries
<1>5. Upto(es, Len(es)) + Upto(ws, m) = Upto(ws, n) + Upto(es, w)
  <2>1. ASSUME NEW i \in 1 .. k PROVE es[w + i] = ws[m + i]
    <3>1. m + i \in 1 .. Len(es) - 1 /\ ~(m + i < w) /\ m + i + 1 = w + i
      BY <1>1, <1>2, <1>3
    <3> QED
      BY <1>1, <3>1
  <2>2. SameRun(es, w, ws, m, k)
    BY <2>1 DEF SameRun
  <2>3. /\ ws \in Seq(Records) /\ w \in Nat /\ n = m + k
        /\ Len(es) = w + k /\ Len(es) <= Len(es) /\ n <= Len(ws)
    BY <1>1, <1>2, <1>3
  <2> QED
    BY <2>2, <2>3, SameEntries
<1>6. SizeOf[es[w]] \in Nat /\ Upto(es, w) = SizeOf[es[w]] + Upto(es, m)
  BY <1>1, <1>2, UptoIs
<1>7. /\ Total(es) = Upto(es, Len(es)) /\ Total(ws) = Upto(ws, n) /\ Upto(es, 0) = 0 /\ Upto(ws, 0) = 0
      /\ Upto(es, Len(es)) \in Nat /\ Upto(ws, n) \in Nat /\ Upto(ws, m) \in Nat /\ Upto(es, m) \in Nat
  <2>1. Len(es) \in 0 .. Len(es) /\ n \in 0 .. Len(ws) /\ m \in 0 .. Len(ws) /\ m \in 0 .. Len(es)
    BY <1>1, <1>2
  <2> QED
    BY <1>1, <1>2, <2>1, UptoIs
<1>8. PICK a \in Nat, b \in Nat, c \in Nat, d \in Nat, e \in Nat :
        /\ a = Total(es) /\ b = Total(ws) /\ c = Upto(ws, m) /\ d = Upto(es, m) /\ e = SizeOf[es[w]]
  BY <1>6, <1>7
<1>9. a + c = b + (e + d) /\ d = c
  BY <1>4, <1>5, <1>6, <1>7, <1>8
<1>10. b + e = a
  BY <1>9
<1> QED
  BY <1>8, <1>10 DEF w, ws

LEMMA WithoutOne ==
  ASSUME NEW es \in Seq(Records), NEW u, OneEach(es)
  PROVE  OneEach(Without(es, u)) /\ Index(Without(es, u), u) = {}
<1>1. CASE Index(es, u) = {}
  BY <1>1 DEF Without
<1>2. CASE Index(es, u) # {}
  <2> DEFINE w == Where(es, u)
             ws == Without(es, u)
  <2>1. /\ w \in 1 .. Len(es) /\ es[w].url = u /\ Len(es) \in Nat /\ ws \in Seq(Records) /\ Len(ws) = Len(es) - 1
        /\ \A i \in 1 .. Len(es) - 1 : ws[i] = IF i < w THEN es[i] ELSE es[i + 1]
    BY <1>2, WithoutIs
  <2> HIDE DEF w, ws
  <2>2. DOMAIN es = 1 .. Len(es) /\ DOMAIN ws = 1 .. Len(es) - 1
    BY <2>1, LenProperties
  <2> DEFINE At1(i) == IF i < w THEN i ELSE i + 1
  <2>3. \A i \in DOMAIN ws : At1(i) \in DOMAIN es /\ At1(i) # w /\ ws[i] = es[At1(i)]
    BY <2>1, <2>2
  <2>4. \A i, j \in DOMAIN ws : At1(i) = At1(j) => i = j
    BY <2>1, <2>2
  <2> HIDE DEF At1
  <2>5. OneEach(ws)
    BY <2>3, <2>4 DEF OneEach
  <2>6. ASSUME NEW i \in DOMAIN ws PROVE ws[i].url # u
    BY <2>1, <2>2, <2>3 DEF OneEach
  <2> QED
    BY <2>5, <2>6 DEF ws, Index
<1> QED
  BY <1>1, <1>2

(* A record in front, of a URL that has no entry, adds what it takes.      *)
LEMMA PushedTotal ==
  ASSUME NEW es \in Seq(Records), NEW rec \in Records, OneEach(es), Index(es, rec.url) = {}
  PROVE  /\ <<rec>> \o es \in Seq(Records) /\ OneEach(<<rec>> \o es)
         /\ Total(<<rec>> \o es) = SizeOf[rec] + Total(es)
<1> DEFINE fs == <<rec>> \o es
<1>1. <<rec>> \in Seq(Records) /\ Len(<<rec>>) = 1 /\ <<rec>>[1] = rec /\ Len(es) \in Nat
  BY LenProperties
<1>2. /\ fs \in Seq(Records) /\ Len(fs) = 1 + Len(es)
      /\ \A i \in 1 .. 1 + Len(es) : fs[i] = IF i <= 1 THEN rec ELSE es[i - 1]
  BY <1>1, ConcatProperties
<1> HIDE DEF fs
<1>3. fs[1] = rec /\ \A i \in 1 .. Len(es) : fs[1 + i] = es[i]
  <2>1. fs[1] = rec
    BY <1>1, <1>2
  <2>2. ASSUME NEW i \in 1 .. Len(es) PROVE fs[1 + i] = es[i]
    <3>1. 1 + i \in 1 .. 1 + Len(es) /\ ~(1 + i <= 1) /\ 1 + i - 1 = i
      BY <1>1
    <3> QED
      BY <1>2, <3>1
  <2> QED
    BY <2>1, <2>2
<1>4. DOMAIN fs = 1 .. 1 + Len(es) /\ DOMAIN es = 1 .. Len(es)
  BY <1>1, <1>2, LenProperties
<1>5. OneEach(fs)
  <2>1. \A i \in DOMAIN es : es[i].url # rec.url
    BY DEF Index
  <2>2. ASSUME NEW i \in DOMAIN fs, NEW j \in DOMAIN fs, fs[i].url = fs[j].url PROVE i = j
    <3>1. \A x \in DOMAIN fs : x = 1 \/ (x - 1 \in DOMAIN es /\ x = 1 + (x - 1) /\ fs[x] = es[x - 1])
      BY <1>1, <1>2, <1>4
    <3>2. (i = 1 \/ i - 1 \in DOMAIN es) /\ (j = 1 \/ j - 1 \in DOMAIN es)
      BY <3>1
    <3>3. CASE i = 1 \/ j = 1
      BY <1>3, <2>1, <2>2, <3>1, <3>3
    <3>4. CASE i # 1 /\ j # 1
      <4>1. i - 1 = j - 1
        BY <2>2, <3>1, <3>4 DEF OneEach
      <4> QED
        BY <1>1, <1>4, <4>1
    <3> QED
      BY <3>3, <3>4
  <2> QED
    BY <2>2 DEF OneEach
<1>6. Total(fs) = SizeOf[rec] + Total(es)
  <2>1. PICK n \in Nat, k \in Nat : n = Len(fs) /\ k = Len(es) /\ n = 1 + k /\ k = 0 + k
    <3>1. 1 + Len(es) \in Nat /\ Len(es) = 0 + Len(es)
      BY <1>1
    <3> QED
      BY <1>1, <1>2, <3>1
  <2>2. SameRun(fs, 1, es, 0, k)
    BY <1>3, <2>1 DEF SameRun
  <2>3. Upto(fs, n) + Upto(es, 0) = Upto(es, k) + Upto(fs, 1)
    BY <1>2, <2>1, <2>2, SameEntries
  <2>4. SizeOf[rec] \in Nat /\ Upto(fs, 1) = SizeOf[rec] + Upto(fs, 1 - 1)
    <3>1. 1 \in 1 .. Len(fs)
      BY <1>1, <1>2
    <3> QED
      BY <1>2, <1>3, <3>1, UptoIs
  <2>5. /\ Total(fs) = Upto(fs, n) /\ Total(es) = Upto(es, k) /\ Upto(es, 0) = 0 /\ Upto(fs, 0) = 0
        /\ Upto(fs, n) \in Nat /\ Upto(es, k) \in Nat
    <3>1. n \in 0 .. Len(fs) /\ k \in 0 .. Len(es)
      BY <2>1
    <3> QED
      BY <1>2, <2>1, <3>1, UptoIs
  <2> QED
    BY <2>3, <2>4, <2>5
<1> QED
  BY <1>2, <1>5, <1>6 DEF fs

-----------------------------------------------------------------------------
(* The size that is kept is the sum of the entries, one for a URL, and is  *)
(* within the budget.                                                      *)
Accounted(es, n) == n = Total(es) /\ n \in Nat /\ n <= Budget /\ OneEach(es)

MInv == /\ size \in [Replicas -> Nat]
        /\ \A r \in Replicas : Accounted(mem[r], size[r])

(* What remains of es after an eviction is as accounted as es.             *)
LEMMA EvictsAccounted ==
  ASSUME Types, MInv, NEW r \in Replicas, NEW es \in Seq(Records), OneEach(es), Evicts(r, es, Total(es))
  PROVE  MInv'
<1> DEFINE front(last) == SubSeq(es, 1, last)
           Left(last) == Total(es) - Total(SubSeq(es, last + 1, Len(es)))
<1>1. PICK last \in 0 .. Len(es) :
        /\ Left(last) <= Budget
        /\ mem' = [mem EXCEPT ![r] = front(last)] /\ size' = [size EXCEPT ![r] = Left(last)]
  BY DEF Evicts
<1>2. /\ Left(last) = Total(front(last)) /\ Total(front(last)) \in Nat
      /\ front(last) \in Seq(Records) /\ Len(front(last)) = last
      /\ \A i \in 1 .. last : front(last)[i] = es[i]
  BY FirstEntries
<1> HIDE DEF front, Left
<1>3. DOMAIN front(last) = 1 .. last /\ DOMAIN es = 1 .. Len(es) /\ Len(es) \in Nat
  BY <1>2, LenProperties
<1>4. OneEach(front(last))
  <2>1. \A i \in 1 .. last : i \in DOMAIN es
    BY <1>3
  <2> QED
    BY <1>2, <1>3, <2>1 DEF OneEach
<1>5. Accounted(front(last), Left(last))
  BY <1>1, <1>2, <1>4 DEF Accounted
<1>6. /\ mem'[r] = front(last) /\ \A q \in Replicas \ {r} : mem'[q] = mem[q]
      /\ size'[r] = Left(last) /\ \A q \in Replicas \ {r} : size'[q] = size[q]
      /\ size' \in [Replicas -> Nat]
  BY <1>1, <1>2 DEF Types, MInv
<1>7. ASSUME NEW q \in Replicas PROVE Accounted(mem'[q], size'[q])
  BY <1>5, <1>6 DEF MInv
<1> QED
  BY <1>6, <1>7 DEF MInv, Accounted

LEMMA PutAccounted ==
  ASSUME Types, MInv, NEW r \in Replicas, NEW rec \in Records, Put(r, rec)
  PROVE  MInv'
<1> DEFINE es == mem[r]
           ws == Without(es, rec.url)
           removed == IF Hit(r, rec.url) THEN SizeOf[Got(r, rec.url)] ELSE 0
<1>1. es \in Seq(Records) /\ size[r] = Total(es) /\ Total(es) \in Nat /\ OneEach(es)
  BY DEF Types, MInv, Accounted
<1>2. SizeOf[rec] \in Nat
  BY NarIndexAssumption
<1>3. CASE UNCHANGED memory
  BY <1>3 DEF memory, MInv, Accounted
<1>4. CASE Evicts(r, <<rec>> \o ws, size[r] - removed + SizeOf[rec])
  <2>1. ws \in Seq(Records) /\ Total(ws) \in Nat /\ Total(ws) + removed = Total(es) /\ removed \in Nat
    <3>1. CASE Hit(r, rec.url)
      <4>1. ws \in Seq(Records) /\ Where(es, rec.url) \in 1 .. Len(es)
        BY <1>1, <3>1, WithoutIs DEF Hit
      <4>2. removed = SizeOf[es[Where(es, rec.url)]] /\ SizeOf[es[Where(es, rec.url)]] \in Nat
        BY <1>1, <3>1, <4>1, EntrySize DEF Got
      <4>3. Total(ws) + SizeOf[es[Where(es, rec.url)]] = Total(es)
        BY <1>1, <3>1, WithoutTotal DEF Hit
      <4>4. Total(ws) \in Nat
        BY <4>1, TotalIsNumber
      <4> QED
        BY <4>1, <4>2, <4>3, <4>4
    <3>2. CASE ~Hit(r, rec.url)
      <4>1. ws = es /\ removed = 0
        BY <3>2 DEF Hit, Without
      <4> QED
        BY <1>1, <4>1
    <3> QED
      BY <3>1, <3>2
  <2>2. OneEach(ws) /\ Index(ws, rec.url) = {}
    BY <1>1, WithoutOne
  <2> HIDE DEF ws, removed
  <2>3. /\ <<rec>> \o ws \in Seq(Records) /\ OneEach(<<rec>> \o ws)
        /\ Total(<<rec>> \o ws) = SizeOf[rec] + Total(ws)
    BY <2>1, <2>2, PushedTotal
  <2>4. size[r] - removed + SizeOf[rec] = Total(<<rec>> \o ws)
    BY <1>1, <1>2, <2>1, <2>3
  <2> QED
    BY <1>4, <2>3, <2>4, EvictsAccounted
<1> QED
  BY <1>3, <1>4 DEF Put

(* A hit takes its entry out and puts it in front: the sum is the same.    *)
LEMMA MovedAccounted ==
  ASSUME Types, MInv, NEW r \in Replicas, NEW u, Hit(r, u), mem' = MovedToFront(r, u), UNCHANGED size
  PROVE  MInv'
<1> DEFINE es == mem[r]
           ws == Without(es, u)
           got == Got(r, u)
<1>1. es \in Seq(Records) /\ size[r] = Total(es) /\ Total(es) \in Nat /\ OneEach(es)
      /\ size[r] \in Nat /\ size[r] <= Budget
  BY DEF Types, MInv, Accounted
<1>2. /\ ws \in Seq(Records) /\ got = es[Where(es, u)] /\ Where(es, u) \in 1 .. Len(es)
      /\ es[Where(es, u)].url = u
  BY <1>1, WithoutIs DEF Hit, Got
<1>3. got \in Records /\ SizeOf[got] \in Nat /\ got.url = u
  BY <1>1, <1>2, EntrySize
<1>4. Total(ws) + SizeOf[got] = Total(es) /\ Total(ws) \in Nat
  BY <1>1, <1>2, WithoutTotal, TotalIsNumber DEF Hit
<1>5. OneEach(ws) /\ Index(ws, u) = {}
  BY <1>1, WithoutOne
<1>6. mem' = [mem EXCEPT ![r] = <<got>> \o ws]
  BY DEF MovedToFront
<1> HIDE DEF ws, got
<1>7. OneEach(<<got>> \o ws) /\ Total(<<got>> \o ws) = SizeOf[got] + Total(ws)
  BY <1>2, <1>3, <1>5, PushedTotal
<1>8. Accounted(<<got>> \o ws, size[r])
  BY <1>1, <1>3, <1>4, <1>7 DEF Accounted
<1>9. mem'[r] = <<got>> \o ws /\ \A q \in Replicas \ {r} : mem'[q] = mem[q]
  BY <1>6 DEF Types
<1>10. ASSUME NEW q \in Replicas PROVE Accounted(mem'[q], size'[q])
  BY <1>8, <1>9 DEF MInv
<1> QED
  BY <1>10 DEF MInv, Accounted

LEMMA EmptyAccounted == Accounted(<<>>, 0)
<1>1. DOMAIN <<>> = {} /\ Total(<<>>) = 0
  BY DEF Total
<1> QED
  BY <1>1, NarIndexAssumption DEF Accounted, OneEach

LEMMA RestartAccounted ==
  ASSUME Types, MInv, NEW r \in Replicas, Restart(r)
  PROVE  MInv'
<1>1. /\ mem'[r] = <<>> /\ \A q \in Replicas \ {r} : mem'[q] = mem[q]
      /\ size'[r] = 0 /\ \A q \in Replicas \ {r} : size'[q] = size[q]
      /\ size' \in [Replicas -> Nat]
  BY DEF Restart, Types, MInv
<1>2. ASSUME NEW q \in Replicas PROVE Accounted(mem'[q], size'[q])
  BY <1>1, EmptyAccounted DEF MInv
<1> QED
  BY <1>1, <1>2 DEF MInv, Accounted

(* No step does anything else to a memory.                                 *)
LEMMA MemoryNext == IInv /\ MInv /\ [Next]_vars => MInv'
<1> SUFFICES ASSUME IInv, MInv, [Next]_vars PROVE MInv'
  OBVIOUS
<1>1. Types
  BY DEF IInv
<1>2. CASE UNCHANGED memory
  BY <1>2 DEF memory, MInv, Accounted
<1>3. ASSUME NEW o \in Ops, Compare(o) PROVE MInv'
  <2>1. op[o].replica \in Replicas
    BY <1>1 DEF Types, Operation
  <2>2. CASE Hit(op[o].replica, op[o].rec.url) /\ mem' = MovedToFront(op[o].replica, op[o].rec.url)
    BY <1>1, <1>3, <2>1, <2>2, MovedAccounted DEF Compare
  <2> QED
    BY <1>2, <1>3, <2>2 DEF Compare, memory
<1>4. ASSUME NEW o \in Ops, LookInMemory(o) PROVE MInv'
  <2>1. op[o].replica \in Replicas
    BY <1>1 DEF Types, Operation
  <2>2. CASE Hit(op[o].replica, op[o].rec.url) /\ mem' = MovedToFront(op[o].replica, op[o].rec.url)
    BY <1>1, <1>4, <2>1, <2>2, MovedAccounted DEF LookInMemory
  <2> QED
    BY <1>2, <1>4, <2>2 DEF LookInMemory, memory
<1>5. ASSUME NEW o \in Ops, Remember(o) \/ Keep(o) PROVE MInv'
  <2>1. PICK rec \in Records : Put(op[o].replica, rec)
    BY <1>1, <1>5 DEF IInv, Types, OpKnown, Sourced, Remember, Keep
  <2>2. op[o].replica \in Replicas
    BY <1>1 DEF Types, Operation
  <2> QED
    BY <1>1, <2>1, <2>2, PutAccounted
<1>6. ASSUME NEW r \in Replicas, Restart(r) PROVE MInv'
  BY <1>1, <1>6, RestartAccounted
<1>7. ASSUME NEW o \in Ops,
             \/ StorePut(o) \/ StorePutFails(o) \/ LookInStore(o) \/ LookFails(o)
             \/ \E r \in Replicas, rec \in Records : Narinfo(o, r, rec)
             \/ \E r \in Replicas, u \in URLs : Lookup(o, r, u)
      PROVE  MInv'
  BY <1>2, <1>7 DEF StorePut, StorePutFails, LookInStore, LookFails, Narinfo, Lookup
<1>8. ASSUME NEW u \in URLs, BucketChanges(u) PROVE MInv'
  BY <1>2, <1>8 DEF BucketChanges
<1>9. CASE UNCHANGED vars
  BY <1>2, <1>9 DEF vars
<1> QED
  BY <1>3, <1>4, <1>5, <1>6, <1>7, <1>8, <1>9 DEF Next, Step

(* Whatever is replaced, refused and evicted, the size a memory keeps is   *)
(* that of its entries, within the budget, and a URL has one entry.        *)
THEOREM MemoryAccountedTheorem == Spec => []MemoryAccounted
<1>1. Init => MInv
  <2> SUFFICES ASSUME Init PROVE MInv
    OBVIOUS
  <2>1. size \in [Replicas -> Nat] /\ \A r \in Replicas : mem[r] = <<>> /\ size[r] = 0
    BY DEF Init
  <2> QED
    BY <2>1, EmptyAccounted DEF MInv
<1>2. MInv => MemoryAccounted
  BY DEF MInv, Accounted, OneEach, MemoryAccounted, Index
<1> QED
  BY <1>1, <1>2, MemoryNext, Invariance, PTL DEF Spec
=============================================================================
