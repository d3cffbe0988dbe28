-------------------------- MODULE S3Multipart_proofs --------------------------
(***************************************************************************)
(* What holds of S3Multipart for any size of a body and of a part, any     *)
(* limit on the parts and any concurrency: the bounds on its buffers, that *)
(* it leaves nothing behind, and that it implements ObjectStore.           *)
(***************************************************************************)
EXTENDS S3Multipart, FiniteSetTheorems, TLAPS

Filling == {"first", "putObject", "create", "loop", "send", "fill"}
Before == {"first", "putObject", "create"}

(* The state of the reader at each place.                                  *)
Reader ==
  /\ ended # "no" => left = 0
  /\ pc \in {"first", "fill"} => ended = "no"
  /\ pc \in {"create", "loop", "send", "sent"} =>
       ended = IF rerr = "nil" THEN "no" ELSE rerr
  /\ pc \in {"create", "loop"} /\ rerr = "nil" => n > 0
  /\ pc \in {"create", "send", "sent"} => rerr # "error"
  /\ pc \in {"putObject", "complete"} => ended = "EOF"
  /\ pc = "wait" /\ rerr = "nil" => ended = "EOF"
  /\ pc # "returned" => answer = "none"

(* Put's own buffer: it has one exactly while it has bytes to send.        *)
Buffer == buf <=> pc \in Filling

(* The parts are sent in their order, and S3's answer to each is known.    *)
Sequence ==
  /\ pc \in Before => num = 1
  /\ pc \in Filling => \A i \in Parts : part[i] # "none" <=> i < num
  /\ pc = "sent" => \A i \in Parts : part[i] # "none" <=> i <= num
  /\ \E m \in 0 .. MaxParts : \A i \in Parts : part[i] # "none" <=> i <= m
Answers ==
  /\ \A i \in parts : part[i] \in {"answered", "freed", "over"}
  /\ \A i \in Parts : part[i] \in {"answered", "freed", "over"} => i \in parts \/ upErr
  /\ pc = "complete" => ~upErr

(* The goroutines that are at work, and the upload they work on.           *)
AtWork ==
  /\ Cardinality(InSem) <= Concurrency
  /\ pc \in {"complete", "abort", "returned"} => InSem = {}
Upload ==
  /\ pc \in Before => upload = "none"
  /\ pc = "returned" /\ upload = "open" => lost

IInv == TypeOK /\ Reader /\ Buffer /\ Sequence /\ Answers /\ AtWork /\ Upload

-----------------------------------------------------------------------------
(* Sets of parts are finite.                                               *)
LEMMA PartsFinite ==
  ASSUME NEW S \in SUBSET Parts
  PROVE  IsFiniteSet(S) /\ Cardinality(S) \in Nat
<1>1. IsFiniteSet(Parts)
  BY PartAssumption, FS_Interval DEF Parts
<1> QED
  BY <1>1, FS_Subset, FS_CardinalityType

(* Nothing is sent before the first read.                                  *)
LEMMA InitInv == Init => IInv
<1> SUFFICES ASSUME Init PROVE IInv
  OBVIOUS
<1> USE PartAssumption DEF Init
<1>1. InSem = {}
  BY DEF InSem
<1>2. TypeOK
  <2>1. buf \in BOOLEAN /\ upErr \in BOOLEAN /\ lost \in BOOLEAN
    BY Zenon
  <2> QED
    BY <2>1 DEF TypeOK, Parts
<1>3. Reader /\ Upload /\ Answers
  BY DEF Reader, Upload, Answers
<1>4. Buffer
  BY DEF Buffer, Filling
<1>5. Sequence
  <2>1. \A i \in Parts : part[i] # "none" <=> i <= 0
    BY DEF Parts
  <2>2. 0 \in 0 .. MaxParts
    OBVIOUS
  <2> QED
    BY <2>1, <2>2 DEF Sequence, Parts
<1>6. AtWork
  BY <1>1, FS_EmptySet DEF AtWork
<1> QED
  BY <1>2, <1>3, <1>4, <1>5, <1>6 DEF IInv

-----------------------------------------------------------------------------
(* What a read leaves: it ends with the reader, and fills the buffer else. *)
LEMMA ReadLeaves ==
  ASSUME TypeOK, ReadFull
  PROVE  /\ left' \in 0 .. MaxSize /\ n' \in 0 .. PartSize
         /\ rerr' \in {"nil", "EOF", "error"} /\ ending' = ending
         /\ ended' = IF rerr' = "nil" THEN "no" ELSE rerr'
         /\ rerr' # "nil" => left' = 0
         /\ rerr' = "nil" => n' > 0
<1> USE PartAssumption DEF TypeOK, ReadFull
<1>1. CASE left < PartSize
  BY <1>1
<1>2. CASE left = PartSize
  BY <1>2
<1>3. CASE left > PartSize
  BY <1>3
<1> QED
  BY <1>1, <1>2, <1>3

(* Every step keeps the types; num is within the limit on parts, because   *)
(* the last part is not followed by another read.                          *)
LEMMA StepType ==
  ASSUME IInv, Next
  PROVE  TypeOK'
<1> USE PartAssumption DEF IInv, TypeOK, At, Returns, body, local, uploads, s3
<1>1. CASE ReadFirst
  BY <1>1, ReadLeaves DEF ReadFirst, PutBuf
<1>2. CASE PutObject
  BY <1>2 DEF PutObject, PutBuf, Object
<1>3. CASE Create
  BY <1>3 DEF Create
<1>4. CASE CreateFails
  <2>1. buf' \in BOOLEAN /\ lost' \in BOOLEAN
    BY <1>4 DEF CreateFails, PutBuf
  <2> QED
    BY <1>4, <2>1 DEF CreateFails
<1>12. CASE Loop
  <2>1. buf' \in BOOLEAN
    BY <1>12, Zenon DEF Loop, PutBuf
  <2> QED
    BY <1>12, <2>1 DEF Loop
<1>5. CASE Send
  BY <1>5 DEF Send
<1>6. CASE Sent
  <2>1. buf' \in BOOLEAN
    BY <1>6, Zenon DEF Sent
  <2>2. num' \in Parts
    BY <1>6 DEF Sent, Parts
  <2> QED
    BY <1>6, <2>1, <2>2 DEF Sent
<1>7. CASE Fill
  BY <1>7, ReadLeaves DEF Fill
<1>8. CASE Wait
  BY <1>8 DEF Wait, Verdict
<1>9. CASE Complete \/ CompleteFails
  <2>1. Assembled \in {"cut", "whole"}
    BY DEF Assembled, Object
  <2> QED
    BY <1>9, <2>1 DEF Complete, CompleteFails
<1>10. CASE Abort
  BY <1>10 DEF Abort
<1>11. ASSUME NEW i \in Parts, PartStep(i) PROVE TypeOK'
  <2>1. upErr' \in BOOLEAN
    BY <1>11 DEF PartStep, PartUploaded, PartFails, PartPutsBuf, PartLeaves
  <2> QED
    BY <1>11, <2>1 DEF PartStep, PartUploaded, PartFails, PartPutsBuf, PartLeaves
<1> QED
  BY <1>1, <1>2, <1>3, <1>4, <1>5, <1>6, <1>7, <1>8, <1>9, <1>10, <1>11, <1>12 DEF Next, Put

(* Every step keeps what is known of the reader and of Put's own buffer.   *)
LEMMA StepReader ==
  ASSUME IInv, Next
  PROVE  Reader' /\ Buffer'
<1> USE DEF IInv, Reader, Buffer, Filling, At, Returns, body, local, uploads, s3
<1>1. CASE ReadFirst
  BY <1>1, ReadLeaves DEF ReadFirst, PutBuf
<1>2. CASE PutObject
  BY <1>2 DEF PutObject, PutBuf
<1>3. CASE Create \/ CreateFails
  BY <1>3 DEF Create, CreateFails, PutBuf
<1>4. CASE Loop
  BY <1>4 DEF Loop, PutBuf, TypeOK
<1>5. CASE Send
  BY <1>5 DEF Send
<1>6. CASE Sent
  <2>1. Reader'
    <3>1. \/ pc' = "wait" /\ rerr' = IF rerr = "EOF" THEN "nil" ELSE "error"
          \/ pc' = "fill" /\ rerr # "EOF"
      BY <1>6 DEF Sent
    <3>2. pc = "sent" /\ UNCHANGED <<left, ended, n, answer>>
      BY <1>6 DEF Sent
    <3>3. rerr \in {"nil", "EOF", "error"}
      BY DEF TypeOK
    <3> QED
      BY <3>1, <3>2, <3>3
  <2>2. Buffer'
    BY <1>6 DEF Sent
  <2> QED
    BY <2>1, <2>2
<1>7. CASE Fill
  BY <1>7, ReadLeaves DEF Fill
<1>8. CASE Wait
  BY <1>8 DEF Wait, Verdict
<1>9. CASE Complete \/ CompleteFails
  BY <1>9 DEF Complete, CompleteFails
<1>10. CASE Abort
  BY <1>10 DEF Abort
<1>11. ASSUME NEW i \in Parts, PartStep(i) PROVE Reader' /\ Buffer'
  BY <1>11 DEF PartStep, PartUploaded, PartFails, PartPutsBuf, PartLeaves
<1> QED
  BY <1>1, <1>2, <1>3, <1>4, <1>5, <1>6, <1>7, <1>8, <1>9, <1>10, <1>11 DEF Next, Put

(* Every step keeps the order of the parts and what S3 answered to them.   *)
LEMMA StepParts ==
  ASSUME IInv, Next
  PROVE  Sequence' /\ Answers'
<1> USE PartAssumption DEF IInv, Sequence, Answers, Filling, Before, At, Returns, body, local,
        uploads, s3
<1>1. CASE ReadFirst
  BY <1>1, ReadLeaves DEF ReadFirst, PutBuf
<1>2. CASE PutObject \/ Create \/ CreateFails
  BY <1>2 DEF PutObject, Create, CreateFails, PutBuf
<1>3. CASE Loop \/ Fill
  BY <1>3, ReadLeaves DEF Loop, Fill, PutBuf
<1>4. CASE Send
  <2>1. num \in Parts /\ part \in [Parts -> {"none", "running", "answered", "freed", "over"}]
    BY DEF TypeOK
  <2>2. \A i \in Parts : part'[i] # "none" <=> i <= num'
    BY <1>4, <2>1 DEF Send, Parts
  <2>3. num' \in 0 .. MaxParts
    BY <1>4, <2>1 DEF Send, Parts
  <2>4. part[num] = "none" /\ num \notin parts
    BY <1>4, <2>1 DEF Send, Parts
  <2> QED
    BY <1>4, <2>1, <2>2, <2>3, <2>4 DEF Send
<1>5. CASE Sent
  <2>1. num \in 1 .. MaxParts
    BY DEF TypeOK, Parts
  <2>2. UNCHANGED <<part, parts, upErr>> /\ pc' \in {"wait", "fill"}
    BY <1>5 DEF Sent
  <2>3. pc' = "fill" => num' = num + 1
    BY <1>5 DEF Sent
  <2>4. pc' = "fill" => \A i \in Parts : part'[i] # "none" <=> i < num'
    BY <1>5, <2>1, <2>2, <2>3 DEF Sent, Parts
  <2> QED
    BY <1>5, <2>2, <2>4 DEF Sent
<1>6. CASE Wait
  BY <1>6 DEF Wait, Verdict
<1>7. CASE Complete \/ CompleteFails \/ Abort
  BY <1>7 DEF Complete, CompleteFails, Abort
<1>8. ASSUME NEW i \in Parts, PartStep(i) PROVE Sequence' /\ Answers'
  <2>1. part[i] # "none" /\ part'[i] \in {"answered", "freed", "over"}
        /\ \A j \in Parts \ {i} : part'[j] = part[j]
    BY <1>8 DEF PartStep, PartUploaded, PartFails, PartPutsBuf, PartLeaves, TypeOK
  <2>2. pc' = pc /\ num' = num
    BY <1>8 DEF PartStep, PartUploaded, PartFails, PartPutsBuf, PartLeaves
  <2>3. Sequence'
    BY <2>1, <2>2
  <2>4. parts \subseteq parts' /\ parts' \subseteq parts \cup {i} /\ (upErr => upErr')
    BY <1>8 DEF PartStep, PartUploaded, PartFails, PartPutsBuf, PartLeaves
  <2>5. i \in parts' \/ upErr'
    BY <1>8, <2>1 DEF PartStep, PartUploaded, PartFails, PartPutsBuf, PartLeaves
  <2>6. pc = "complete" => part[i] \notin {"running", "answered", "freed"}
    BY DEF AtWork, InSem
  <2>7. pc' = "complete" => ~upErr'
    BY <1>8, <2>2, <2>6 DEF PartStep, PartUploaded, PartFails, PartPutsBuf, PartLeaves
  <2>8. parts \subseteq Parts
    BY DEF TypeOK
  <2> QED
    BY <2>1, <2>3, <2>4, <2>5, <2>7, <2>8
<1> QED
  BY <1>1, <1>2, <1>3, <1>4, <1>5, <1>6, <1>7, <1>8 DEF Next, Put

(* Every step keeps the bound on the goroutines, and lets none outlive the *)
(* decision to complete or abort.                                          *)
LEMMA StepAtWork ==
  ASSUME IInv, Next
  PROVE  AtWork'
<1> USE DEF IInv, AtWork, At, Returns, body, local, uploads, s3
<1>0. InSem \in SUBSET Parts /\ InSem' \in SUBSET Parts
  BY DEF InSem
<1>1. CASE Send
  <2>1. InSem' = InSem \cup {num} /\ Cardinality(InSem) < Concurrency /\ pc' = "sent"
    BY <1>1 DEF Send, InSem, TypeOK
  <2>2. Cardinality(InSem') <= Cardinality(InSem) + 1
    BY <1>0, <2>1, PartsFinite, FS_AddElement
  <2> QED
    BY <1>0, <2>1, <2>2, PartsFinite, PartAssumption
<1>2. ASSUME NEW i \in Parts, PartStep(i) PROVE AtWork'
  <2>1. InSem' \subseteq InSem /\ pc' = pc
    BY <1>2 DEF PartStep, PartUploaded, PartFails, PartPutsBuf, PartLeaves, InSem, TypeOK
  <2>2. Cardinality(InSem') <= Cardinality(InSem)
    BY <1>0, <2>1, PartsFinite, FS_Subset
  <2> QED
    BY <1>0, <2>1, <2>2, PartsFinite, PartAssumption
<1>3. ASSUME Put, ~Send PROVE AtWork'
  <2>1. InSem' = InSem
    BY <1>3 DEF Put, ReadFirst, PutObject, Create, CreateFails, Loop, Sent, Fill, Wait,
                Complete, CompleteFails, Abort, InSem
  <2>2. pc \in Before => InSem = {}
    BY DEF Sequence, Before, Filling, InSem, Parts
  <2>3. pc' \in {"complete", "abort", "returned"} => InSem = {}
    BY <1>3, <2>2 DEF Put, ReadFirst, PutObject, Create, CreateFails, Loop, Sent, Fill, Wait,
                      Complete, CompleteFails, Abort, Before
  <2> QED
    BY <2>1, <2>3
<1> QED
  BY <1>1, <1>2, <1>3 DEF Next

(* Every step keeps account of the upload in S3.                           *)
LEMMA StepUpload ==
  ASSUME IInv, Next
  PROVE  Upload'
<1> USE DEF IInv, Upload, Before, At, Returns, body, local, uploads, s3
<1>1. CASE ReadFirst \/ PutObject
  BY <1>1 DEF ReadFirst, PutObject
<1>2. CASE Create \/ Loop \/ Send \/ Sent \/ Fill
  BY <1>2 DEF Create, Loop, Send, Sent, Fill
<1>3. CASE Wait
  BY <1>3 DEF Wait, Verdict
<1>4. CASE CreateFails \/ Complete \/ CompleteFails \/ Abort
  BY <1>4 DEF CreateFails, Complete, CompleteFails, Abort
<1>5. ASSUME NEW i \in Parts, PartStep(i) PROVE Upload'
  BY <1>5 DEF PartStep, PartUploaded, PartFails, PartPutsBuf, PartLeaves
<1> QED
  BY <1>1, <1>2, <1>3, <1>4, <1>5 DEF Next, Put

(* The invariant holds in every state of every behaviour.                  *)
THEOREM Invariance == Spec => []IInv
<1>1. IInv /\ [Next]_vars => IInv'
  <2>1. ASSUME IInv, Next PROVE IInv'
    BY <2>1, StepType, StepReader, StepParts, StepAtWork, StepUpload DEF IInv
  <2>2. ASSUME IInv, UNCHANGED vars PROVE IInv'
    <3> USE <2>2 DEF IInv, vars, body, local, uploads, s3
    <3>1. TypeOK'
      BY DEF TypeOK
    <3>2. Reader' /\ Buffer' /\ Upload'
      BY DEF Reader, Buffer, Upload
    <3>3. Sequence' /\ Answers'
      BY DEF Sequence, Answers
    <3>4. AtWork'
      BY DEF AtWork, InSem
    <3> QED
      BY <3>1, <3>2, <3>3, <3>4
  <2> QED
    BY <2>1, <2>2
<1> QED
  BY <1>1, InitInv, PTL DEF Spec

-----------------------------------------------------------------------------
(* The buffers that are held: those of the goroutines at work and Put's.   *)
LEMMA BuffersBounded ==
  ASSUME IInv
  PROVE  /\ BuffersHeld <= Concurrency + 1
         /\ pc = "returned" => BuffersHeld = 0
<1> DEFINE Held == {i \in Parts : part[i] \in {"running", "answered"}}
<1> USE DEF IInv
<1>1. Held \in SUBSET Parts /\ InSem \in SUBSET Parts /\ Held \subseteq InSem
  BY DEF InSem
<1>2. /\ Cardinality(Held) \in Nat /\ Cardinality(InSem) \in Nat
      /\ Cardinality(Held) <= Cardinality(InSem)
  BY <1>1, PartsFinite, FS_Subset
<1>3. BuffersHeld = Cardinality(Held) + (IF buf THEN 1 ELSE 0)
  BY DEF BuffersHeld
<1>4. BuffersHeld <= Concurrency + 1
  BY <1>2, <1>3, PartAssumption DEF AtWork
<1>5. ASSUME pc = "returned" PROVE BuffersHeld = 0
  <2>1. ~buf
    BY <1>5 DEF Buffer, Filling
  <2>2. Held = {}
    BY <1>1, <1>5 DEF AtWork
  <2> QED
    BY <1>3, <2>1, <2>2, FS_EmptySet
<1> QED
  BY <1>4, <1>5

(* What S3 assembles is the whole object: every part that was sent was     *)
(* acknowledged, and the reader has ended.                                 *)
LEMMA AssembledWhole ==
  ASSUME IInv, pc = "complete"
  PROVE  Assembled = "whole"
<1> DEFINE Told == {i \in Parts : part[i] # "none"}
<1> USE DEF IInv
<1>1. PICK m \in 0 .. MaxParts : \A i \in Parts : part[i] # "none" <=> i <= m
  BY DEF Sequence
<1>2. Told = 1 .. m
  BY <1>1, PartAssumption DEF Parts
<1>3. Cardinality(Told) = m
  <2>1. m \in Nat
    BY PartAssumption
  <2>2. Cardinality(1 .. m) = IF 1 > m THEN 0 ELSE m - 1 + 1
    BY <2>1, FS_Interval
  <2>3. Cardinality(1 .. m) = m
    BY <2>1, <2>2
  <2> QED
    BY <1>2, <2>3
<1>4. \A i \in Told : part[i] \in {"answered", "freed", "over"}
  BY DEF AtWork, InSem, TypeOK
<1>5. parts = Told
  BY <1>4 DEF Answers, TypeOK
<1>6. Object = "whole"
  BY DEF Object, Reader
<1> QED
  BY <1>2, <1>3, <1>5, <1>6 DEF Assembled

(* Every step of Put is a step of the abstract store or leaves it alone.   *)
LEMMA StepRefines ==
  ASSUME IInv, [Next]_vars
  PROVE  [Contract!Next]_(Contract!vars)
<1> USE DEF IInv, At, Returns, body, local, uploads, s3, Contract!Next, Contract!vars,
        Contract!ReaderEnds, Contract!Commit, Contract!Fail
<1>1. CASE ReadFirst
  <2>1. ended = "no" /\ answer = "none" /\ visible' = visible
    BY <1>1 DEF ReadFirst, Reader
  <2>2. ended' \in {"no", "EOF", "error"} /\ (rerr' = "error" <=> ended' = "error")
    BY <1>1, ReadLeaves DEF ReadFirst
  <2>3. IF rerr' = "error" THEN answer' = "error" ELSE answer' = answer
    BY <1>1 DEF ReadFirst
  <2> QED
    BY <2>1, <2>2, <2>3
<1>2. CASE Fill
  <2>1. ended = "no" /\ answer = "none" /\ UNCHANGED <<visible, answer>>
    BY <1>2 DEF Fill, Reader
  <2>2. ended' \in {"no", "EOF", "error"}
    BY <1>2, ReadLeaves DEF Fill
  <2> QED
    BY <2>1, <2>2
<1>3. CASE PutObject
  <2>1. Object = "whole" /\ ended = "EOF" /\ answer = "none"
    BY <1>3 DEF PutObject, Reader, Object
  <2> QED
    BY <1>3, <2>1 DEF PutObject
<1>4. CASE Complete \/ CompleteFails
  <2>1. Assembled = "whole" /\ ended = "EOF" /\ answer = "none"
    BY <1>4, AssembledWhole DEF Complete, CompleteFails, Reader
  <2> QED
    BY <1>4, <2>1 DEF Complete, CompleteFails
<1>5. CASE CreateFails \/ Abort
  BY <1>5 DEF CreateFails, Abort, Reader
<1>6. CASE Create \/ Loop \/ Send \/ Sent \/ Wait
  BY <1>6 DEF Create, Loop, Send, Sent, Wait
<1>7. ASSUME NEW i \in Parts, PartStep(i) PROVE UNCHANGED Contract!vars
  BY <1>7 DEF PartStep, PartUploaded, PartFails, PartPutsBuf, PartLeaves
<1>8. CASE UNCHANGED vars
  BY <1>8 DEF vars
<1> QED
  BY <1>1, <1>2, <1>3, <1>4, <1>5, <1>6, <1>7, <1>8 DEF Next, Put

-----------------------------------------------------------------------------
(* Every variable keeps its type.                                          *)
THEOREM TypeCorrect == Spec => []TypeOK
<1>1. IInv => TypeOK
  BY DEF IInv
<1> QED
  BY <1>1, Invariance, PTL

(* Put holds at most Concurrency + 1 buffers, numbers no part past S3's    *)
(* limit, and returns with every buffer in the pool.                       *)
THEOREM LimitsTheorem == Spec => []WithinLimits
<1>1. IInv => WithinLimits
  <2>1. IInv => num <= MaxParts
    BY PartAssumption DEF IInv, TypeOK, Parts
  <2> QED
    BY <2>1, BuffersBounded DEF WithinLimits
<1> QED
  BY <1>1, Invariance, PTL

(* Put leaves no goroutine and no open upload behind, S3's own errors      *)
(* excepted.                                                               *)
THEOREM NothingLeftTheorem == Spec => []NothingLeftBehind
<1>1. IInv => NothingLeftBehind
  BY DEF IInv, AtWork, Upload, NothingLeftBehind
<1> QED
  BY <1>1, Invariance, PTL

(* s3Store.Put implements Store.Put's promise, for bodies, parts and       *)
(* concurrency of any size.                                                *)
THEOREM Refinement == Spec => KeepsContract
<1>1. Init => Contract!Init
  BY DEF Init, Contract!Init
<1>2. IInv /\ [Next]_vars => [Contract!Next]_(Contract!vars)
  BY StepRefines
<1> QED
  BY <1>1, <1>2, Invariance, PTL DEF Spec, KeepsContract, Contract!Spec
=============================================================================
