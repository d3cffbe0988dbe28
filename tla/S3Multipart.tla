----------------------------- MODULE S3Multipart -----------------------------
(***************************************************************************)
(* s3Store.Put (s3store.go) for one key: a body of less than one part is   *)
(* one PutObject; a longer one is uploaded as parts by up to Concurrency   *)
(* goroutines, and completed or aborted once they are all done.            *)
(*                                                                         *)
(* Any S3 call may fail, with or without having taken effect.  That stands *)
(* for the cancelled contexts too: a cancelled call is one that fails.     *)
(***************************************************************************)
EXTENDS Naturals, FiniteSets

CONSTANTS
  PartSize,     \* bytes of a part
  MaxParts,     \* S3's limit on the parts of an upload
  Concurrency,  \* uploads in flight at a time
  MaxSize       \* bound: the longest body of the model

ASSUME PartAssumption ==
  /\ PartSize \in Nat \ {0} /\ MaxParts \in Nat \ {0}
  /\ Concurrency \in Nat \ {0} /\ MaxSize \in Nat

Parts == 1 .. MaxParts

VARIABLES
  pc,       \* where Put is
  left,     \* bytes the reader has not yielded yet
  ending,   \* how the reader is going to end
  ended,    \* how it has ended, once it has
  n, rerr,  \* what the last readFull returned; rerr is also Put's verdict
  buf,      \* Put's own goroutine holds a buffer
  num,      \* the number of the current part
  part,     \* what the goroutine of each part is doing
  parts,    \* the parts S3 acknowledged
  upErr,    \* an UploadPart has failed
  upload,   \* the multipart upload in S3
  lost,     \* a CreateMultipartUpload or AbortMultipartUpload answered an error
  visible,  \* what a GET of the key finds
  answer    \* what Put has returned

body == <<left, ending, ended>>
local == <<n, rerr, buf, num>>
uploads == <<part, parts, upErr>>
s3 == <<upload, lost, visible>>
vars == <<pc, body, local, uploads, s3, answer>>

(* A part's goroutine: "running" in UploadPart, "answered", "freed" once   *)
(* its buffer is back in the pool, "over" once its place in sem is too.    *)
TypeOK ==
  /\ pc \in {"first", "putObject", "create", "loop", "send", "sent", "fill",
             "wait", "complete", "abort", "returned"}
  /\ left \in 0 .. MaxSize
  /\ ending \in {"EOF", "error"} /\ ended \in {"no", "EOF", "error"}
  /\ n \in 0 .. PartSize /\ rerr \in {"nil", "EOF", "error"}
  /\ buf \in BOOLEAN /\ num \in Parts
  /\ part \in [Parts -> {"none", "running", "answered", "freed", "over"}]
  /\ parts \subseteq Parts
  /\ upErr \in BOOLEAN /\ lost \in BOOLEAN
  /\ upload \in {"none", "open", "gone"}
  /\ visible \in {"absent", "cut", "whole"}
  /\ answer \in {"none", "ok", "error"}

Init ==
  /\ pc = "first"
  /\ left \in 0 .. MaxSize /\ ending \in {"EOF", "error"} /\ ended = "no"
  /\ n = 0 /\ rerr = "nil" /\ buf = TRUE /\ num = 1
  /\ part = [i \in Parts |-> "none"] /\ parts = {} /\ upErr = FALSE
  /\ upload = "none" /\ lost = FALSE /\ visible = "absent"
  /\ answer = "none"

At(p) == pc = p

(* readFull: the buffer filled, or what there was and the reader's own     *)
(* error.  A reader may end together with its last bytes or after them.    *)
ReadFull ==
  /\ n' = IF left < PartSize THEN left ELSE PartSize
  /\ left' = left - n'
  /\ rerr' \in IF left < PartSize THEN {ending}
               ELSE IF left = PartSize THEN {"nil", ending} ELSE {"nil"}
  /\ ended' = IF rerr' = "nil" THEN "no" ELSE rerr'
  /\ UNCHANGED ending

Returns(a) == pc' = "returned" /\ answer' = a

(* The buffer goes back to the pool.                                       *)
PutBuf == buf' = FALSE

(* Mutant: a short read is a short last part, whatever the reader's error  *)
(* (io.ReadFull).                                                          *)
ReadFirstLoosely ==
  /\ At("first") /\ ReadFull
  /\ pc' = IF n' < PartSize THEN "putObject" ELSE "create"
  /\ UNCHANGED <<buf, num, uploads, s3, answer>>

ReadFirst ==
  /\ At("first") /\ ReadFull
  /\ IF rerr' = "error"
     THEN PutBuf /\ Returns("error")
     ELSE /\ pc' = IF rerr' = "EOF" /\ n' < PartSize THEN "putObject" ELSE "create"
          /\ UNCHANGED <<buf, answer>>
  /\ UNCHANGED <<num, uploads, s3>>

(* The object Put was given, if all of it was read.                        *)
Object == IF ended = "EOF" /\ left = 0 THEN "whole" ELSE "cut"

PutObject ==
  /\ At("putObject")
  /\ PutBuf
  /\ \/ visible' = Object /\ Returns("ok")
     \/ visible' \in {visible, Object} /\ Returns("error")
  /\ UNCHANGED <<body, n, rerr, num, uploads, upload, lost>>

-----------------------------------------------------------------------------
(* multipart.                                                              *)

Create ==
  /\ At("create")
  /\ upload' = "open" /\ pc' = "loop"
  /\ UNCHANGED <<body, local, uploads, lost, visible, answer>>

CreateFails ==
  /\ At("create")
  /\ upload' \in {"none", "open"} /\ lost' = TRUE
  /\ PutBuf /\ Returns("error")
  /\ UNCHANGED <<body, n, rerr, num, uploads, visible>>

(* The head of the loop: what readFull returned is sent, unless it ended   *)
(* in an error.                                                            *)
Loop ==
  /\ At("loop")
  /\ IF rerr # "error" /\ n > 0
     THEN pc' = "send" /\ UNCHANGED <<rerr, buf>>
     ELSE /\ PutBuf /\ pc' = "wait"
          /\ rerr' = IF rerr = "EOF" THEN "nil" ELSE rerr
  /\ UNCHANGED <<body, n, num, uploads, s3, answer>>

(* Mutant: a goroutine leaves sem before it puts its buffer back.          *)
InSemWhileRunning == {i \in Parts : part[i] = "running"}

(* The goroutines that have a place in sem, and those not done for wg.     *)
InSem == {i \in Parts : part[i] \in {"running", "answered", "freed"}}

Send ==
  /\ At("send") /\ Cardinality(InSem) < Concurrency
  /\ part' = [part EXCEPT ![num] = "running"]
  /\ buf' = FALSE  \* it is the goroutine's now
  /\ pc' = "sent"
  /\ UNCHANGED <<body, n, rerr, num, parts, upErr, s3, answer>>

(* After a send: the end of the reader, a failed part, the limit, or the   *)
(* next part.                                                              *)
Sent ==
  /\ At("sent")
  /\ IF rerr = "EOF" \/ upErr \/ num = MaxParts
     THEN /\ pc' = "wait"
          /\ rerr' = IF rerr = "EOF" THEN "nil" ELSE "error"
          /\ UNCHANGED <<buf, num>>
     ELSE /\ pc' = "fill" /\ buf' = TRUE /\ num' = num + 1
          /\ UNCHANGED rerr
  /\ UNCHANGED <<body, n, uploads, s3, answer>>

Fill ==
  /\ At("fill") /\ ReadFull
  /\ pc' = "loop"
  /\ UNCHANGED <<buf, num, uploads, s3, answer>>

(* wg.Wait, and the verdict, unless every part is done.                    *)
Verdict == IF rerr = "nil" /\ ~upErr THEN "complete" ELSE "abort"

Wait ==
  /\ At("wait") /\ InSem = {}
  /\ pc' = Verdict
  /\ UNCHANGED <<body, local, uploads, s3, answer>>

(* S3 assembles the parts it is named: all of the object if none misses.   *)
Assembled == IF parts = 1 .. Cardinality({i \in Parts : part[i] # "none"}) THEN Object ELSE "cut"

Complete ==
  /\ At("complete")
  /\ visible' = Assembled /\ upload' = "gone"
  /\ Returns("ok")
  /\ UNCHANGED <<body, local, uploads, lost>>

(* Mutant: the failure is returned, the upload left as it is.              *)
CompleteFailsReturning ==
  /\ At("complete")
  /\ \/ visible' = Assembled /\ upload' = "gone"
     \/ UNCHANGED <<visible, upload>>
  /\ Returns("error")
  /\ UNCHANGED <<body, local, uploads, lost>>

CompleteFails ==
  /\ At("complete")
  /\ \/ visible' = Assembled /\ upload' = "gone"
     \/ UNCHANGED <<visible, upload>>
  /\ pc' = "abort"
  /\ UNCHANGED <<body, local, uploads, lost, answer>>

(* abort, on a context of its own that ends after 30 s.                    *)
Abort ==
  /\ At("abort")
  /\ \/ upload' = "gone" /\ UNCHANGED lost
     \/ upload' \in {upload, "gone"} /\ lost' = TRUE
  /\ Returns("error")
  /\ UNCHANGED <<body, local, uploads, visible>>

-----------------------------------------------------------------------------
(* The goroutine of part i.                                                *)

PartUploaded(i) ==
  /\ part[i] = "running"
  /\ part' = [part EXCEPT ![i] = "answered"]
  /\ parts' = parts \cup {i}
  /\ UNCHANGED <<pc, body, local, upErr, s3, answer>>

PartFails(i) ==
  /\ part[i] = "running"
  /\ part' = [part EXCEPT ![i] = "answered"]
  /\ upErr' = TRUE
  /\ UNCHANGED <<pc, body, local, parts, s3, answer>>

PartPutsBuf(i) ==
  /\ part[i] = "answered"
  /\ part' = [part EXCEPT ![i] = "freed"]
  /\ UNCHANGED <<pc, body, local, parts, upErr, s3, answer>>

(* Mutant: a part that failed returns before it leaves sem.                *)
PartLeavesIfUploaded(i) ==
  /\ part[i] = "freed" /\ i \in parts
  /\ part' = [part EXCEPT ![i] = "over"]
  /\ UNCHANGED <<pc, body, local, parts, upErr, s3, answer>>

(* The place in sem is given back, then wg.Done.                           *)
PartLeaves(i) ==
  /\ part[i] = "freed"
  /\ part' = [part EXCEPT ![i] = "over"]
  /\ UNCHANGED <<pc, body, local, parts, upErr, s3, answer>>

Put ==
  \/ ReadFirst \/ PutObject \/ Create \/ CreateFails \/ Loop \/ Send \/ Sent
  \/ Fill \/ Wait \/ Complete \/ CompleteFails \/ Abort

PartStep(i) == PartUploaded(i) \/ PartFails(i) \/ PartPutsBuf(i) \/ PartLeaves(i)

Next == Put \/ \E i \in Parts : PartStep(i)

Spec == Init /\ [][Next]_vars

(* Put's goroutine and the parts' keep running: S3 calls return (the SDK   *)
(* bounds them, and so do their contexts), the reader ends or fails        *)
(* (idleBody), and each goroutine is run by the scheduler.                 *)
FairSpec == Spec /\ WF_vars(Put) /\ \A i \in Parts : WF_vars(PartStep(i))

-----------------------------------------------------------------------------
(* Put keeps the contract of Store.Put: whatever fails, and in whichever   *)
(* order the parts are acknowledged, nothing but the whole object of a     *)
(* reader that ended in io.EOF becomes visible, and "ok" means it did.     *)
Contract == INSTANCE ObjectStore
  WITH ended <- ended, visible <- visible, answer <- answer
KeepsContract == Contract!Spec

BuffersHeld == Cardinality({i \in Parts : part[i] \in {"running", "answered"}})
               + (IF buf THEN 1 ELSE 0)

(* "Memory stays at (concurrency+1) parts per upload" (s3store.go:160-162) *)
(* however the goroutines and the reader take turns, no part is sent past  *)
(* S3's limit, and every path gives every buffer back to the pool.         *)
WithinLimits ==
  /\ BuffersHeld <= Concurrency + 1
  /\ num <= MaxParts
  /\ pc = "returned" => BuffersHeld = 0

(* No UploadPart is in flight when the upload is completed or aborted (a   *)
(* part that S3 takes after the abort would stay there, and be paid for),  *)
(* and no upload is left open in the bucket, unless S3 itself answered an  *)
(* error to what would have created or aborted it: what the lifecycle rule *)
(* is for.                                                                 *)
NothingLeftBehind ==
  /\ pc \in {"complete", "abort", "returned"} => InSem = {}
  /\ pc = "returned" /\ upload = "open" => lost

(* Put returns: no one waits for sem or for wg for ever.                   *)
PutReturns == <>(pc = "returned")
=============================================================================
