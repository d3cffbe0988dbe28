-------------------------- MODULE GradleCache_proofs --------------------------
(***************************************************************************)
(* What GradleCache promises of the PUTs and GETs of a key, for any number *)
(* of them and however they are interleaved.                               *)
(***************************************************************************)
EXTENDS GradleCache, TLAPS

(* A body that was stored came from a PUT that has been answered; a PUT    *)
(* that came when there was an entry never gets to store its own.          *)
StoredIsAnswered == \A p \in ever : put[p] \in {"204", "502"}
LateNeverStores == \A p \in late : put[p] # "put" /\ p \notin ever

(* What a 204 promised, and what a late PUT relies on, lasts as long as    *)
(* the entry does.                                                         *)
PromisesRest == acked \/ owed # {} \/ late # {} => entry # Nothing

IInv ==
  TypeOK /\ StoredIsAnswered /\ LateNeverStores /\ PromisesRest /\ FoundAfterwards

LEMMA InitIInv == Init => IInv
<1> SUFFICES ASSUME Init PROVE IInv
  OBVIOUS
<1>1. 0 \in 0 .. MaxExpiries
  BY GradleAssumption
<1>2. TypeOK
  BY <1>1 DEF Init, TypeOK
<1>3. StoredIsAnswered /\ LateNeverStores /\ FoundAfterwards
  BY DEF Init, StoredIsAnswered, LateNeverStores, FoundAfterwards
<1>4. PromisesRest
  BY DEF Init, PromisesRest
<1>5. QED BY <1>2, <1>3, <1>4 DEF IInv

(* One request moves, the others stay where they are.                      *)
LEMMA PutMoves ==
  ASSUME TypeOK, NEW p \in Puts, NEW from, NEW to, PutGoes(p, from, to)
  PROVE  /\ put[p] = from
         /\ put'[p] = to
         /\ \A q \in Puts \ {p} : put'[q] = put[q]
         /\ to \in {"head", "put", "204", "refused", "502"} =>
              put' \in [Puts -> {"new", "head", "put", "204", "refused", "502"}]
  BY DEF TypeOK, PutGoes

LEMMA GetMoves ==
  ASSUME TypeOK, NEW g \in Gets, NEW from, NEW to, GetGoes(g, from, to)
  PROVE  /\ get[g] = from
         /\ get'[g] = to
         /\ \A q \in Gets \ {g} : get'[q] = get[q]
         /\ to \in {"head", "presign", "redirect", "200", "404", "502"} =>
              get' \in [Gets -> {"new", "head", "presign", "redirect", "200", "404", "502"}]
  BY DEF TypeOK, GetGoes

LEMMA PutStep ==
  ASSUME IInv, NEW p \in Puts,
         PutArrives(p) \/ PutHead(p) \/ PutStores(p) \/ PutFails(p)
  PROVE  IInv'
<1> USE DEF IInv, StoredIsAnswered, LateNeverStores, PromisesRest, FoundAfterwards
<1> TypeOK BY DEF IInv
<1>1. CASE PutArrives(p)
  <2>1. PICK to \in {"head", "refused"} : PutGoes(p, "new", to)
    BY <1>1 DEF PutArrives
  <2>2. /\ put[p] = "new" /\ put'[p] \in {"head", "refused"}
        /\ \A q \in Puts \ {p} : put'[q] = put[q]
        /\ put' \in [Puts -> {"new", "head", "put", "204", "refused", "502"}]
    BY <2>1, PutMoves
  <2>3. TypeOK' BY <1>1, <2>2 DEF PutArrives, TypeOK
  <2>4. QED BY <1>1, <2>2, <2>3 DEF PutArrives, TypeOK
<1>2. CASE PutHead(p)
  <2>1. /\ put[p] = "head"
        /\ \A q \in Puts \ {p} : put'[q] = put[q]
        /\ put' \in [Puts -> {"new", "head", "put", "204", "refused", "502"}]
        /\ \/ entry # Nothing /\ put'[p] = "204"
           \/ entry = Nothing /\ put'[p] = "put"
           \/ put'[p] = "502"
    <3>1. CASE entry # Nothing /\ PutGoes(p, "head", "204") BY <3>1, PutMoves
    <3>2. CASE entry = Nothing /\ PutGoes(p, "head", "put") BY <3>2, PutMoves
    <3>3. CASE PutGoes(p, "head", "502") BY <3>3, PutMoves
    <3>4. QED BY <1>2, <3>1, <3>2, <3>3 DEF PutHead
  <2>2. TypeOK' BY <1>2, <2>1 DEF PutHead, TypeOK
  <2>3. QED BY <1>2, <2>1, <2>2 DEF PutHead, TypeOK
<1>3. CASE PutStores(p)
  <2>1. /\ put[p] = "put" /\ put'[p] = "204"
        /\ \A q \in Puts \ {p} : put'[q] = put[q]
        /\ put' \in [Puts -> {"new", "head", "put", "204", "refused", "502"}]
    BY <1>3, PutMoves DEF PutStores
  <2>2. TypeOK' BY <1>3, <2>1 DEF PutStores, Stores, TypeOK
  <2>3. QED BY <1>3, <2>1, <2>2, GradleAssumption DEF PutStores, Stores, TypeOK
<1>4. CASE PutFails(p)
  <2>1. /\ put[p] = "put" /\ put'[p] = "502"
        /\ \A q \in Puts \ {p} : put'[q] = put[q]
        /\ put' \in [Puts -> {"new", "head", "put", "204", "refused", "502"}]
    BY <1>4, PutMoves DEF PutFails
  <2>2. TypeOK' BY <1>4, <2>1 DEF PutFails, Stores, TypeOK
  <2>3. QED BY <1>4, <2>1, <2>2, GradleAssumption DEF PutFails, Stores, TypeOK
<1>5. QED BY <1>1, <1>2, <1>3, <1>4

LEMMA GetStep ==
  ASSUME IInv, NEW g \in Gets, GetArrives(g) \/ GetHead(g) \/ GetPresign(g)
  PROVE  IInv'
<1> USE DEF IInv, StoredIsAnswered, LateNeverStores, PromisesRest, FoundAfterwards
<1> TypeOK BY DEF IInv
<1>1. CASE GetArrives(g)
  <2>1. /\ get'[g] = "head" /\ \A q \in Gets \ {g} : get'[q] = get[q]
        /\ get' \in [Gets -> {"new", "head", "presign", "redirect", "200", "404", "502"}]
    BY <1>1, GetMoves DEF GetArrives
  <2>2. TypeOK' BY <1>1, <2>1 DEF GetArrives, TypeOK
  <2>3. QED BY <1>1, <2>1, <2>2 DEF GetArrives, TypeOK
<1>2. CASE GetHead(g)
  <2>1. /\ entry # Nothing => get'[g] # "404"
        /\ \A q \in Gets \ {g} : get'[q] = get[q]
        /\ get' \in [Gets -> {"new", "head", "presign", "redirect", "200", "404", "502"}]
    <3>1. CASE entry = Nothing /\ GetGoes(g, "head", "404") BY <3>1, GetMoves
    <3>2. CASE GetGoes(g, "head", "presign") BY <3>2, GetMoves
    <3>3. CASE GetGoes(g, "head", "200") BY <3>3, GetMoves
    <3>4. CASE GetGoes(g, "head", "502") BY <3>4, GetMoves
    <3>5. QED BY <1>2, <3>1, <3>2, <3>3, <3>4 DEF GetHead
  <2>2. TypeOK' BY <1>2, <2>1 DEF GetHead, history, TypeOK
  <2>3. QED BY <1>2, <2>1, <2>2 DEF GetHead, history, TypeOK
<1>3. CASE GetPresign(g)
  <2>1. /\ get'[g] # "404" /\ \A q \in Gets \ {g} : get'[q] = get[q]
        /\ get' \in [Gets -> {"new", "head", "presign", "redirect", "200", "404", "502"}]
    BY <1>3, GetMoves DEF GetPresign
  <2>2. TypeOK' BY <1>3, <2>1 DEF GetPresign, history, TypeOK
  <2>3. QED BY <1>3, <2>1, <2>2 DEF GetPresign, history, TypeOK
<1>4. QED BY <1>1, <1>2, <1>3

LEMMA StepIInv == IInv /\ [Next]_vars => IInv'
<1> SUFFICES ASSUME IInv, [Next]_vars PROVE IInv'
  OBVIOUS
<1>1. CASE Expire
  <2>1. expired' \in 0 .. MaxExpiries
    BY <1>1, GradleAssumption DEF Expire, IInv, TypeOK
  <2>2. TypeOK'
    BY <1>1, <2>1 DEF Expire, IInv, TypeOK
  <2>3. StoredIsAnswered' /\ LateNeverStores' /\ FoundAfterwards'
    BY <1>1 DEF Expire, StoredIsAnswered, LateNeverStores, FoundAfterwards
  <2>4. PromisesRest'
    BY <1>1 DEF Expire, PromisesRest
  <2>5. QED BY <2>2, <2>3, <2>4 DEF IInv
<1>2. CASE UNCHANGED vars
  BY <1>2 DEF vars, history, IInv, TypeOK, StoredIsAnswered, LateNeverStores,
     PromisesRest, FoundAfterwards
<1>3. QED BY <1>1, <1>2, PutStep, GetStep DEF Next, Done

LEMMA Invariance == Spec => []IInv
  BY InitIInv, StepIInv, PTL DEF Spec

(* A PUT that came when the key had an entry does not become the entry,    *)
(* whatever the other PUTs do between its look and its write               *)
(* (gradle.go:36-38, for the writes that the code does keep apart).        *)
THEOREM LateTheorem == Spec => []LatePutChangesNothing
<1>1. IInv => LatePutChangesNothing
  BY DEF IInv, LateNeverStores, LatePutChangesNothing
<1>2. QED BY <1>1, Invariance, PTL

(* Whoever asks after a 204, before the entry expires, is not told that    *)
(* there is none (gradle.go:107-131).                                      *)
THEOREM FoundTheorem == Spec => []FoundAfterwards
<1>1. IInv => FoundAfterwards
  BY DEF IInv
<1>2. QED BY <1>1, Invariance, PTL
=============================================================================
