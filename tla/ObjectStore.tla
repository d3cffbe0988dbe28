----------------------------- MODULE ObjectStore -----------------------------
(***************************************************************************)
(* What Store.Put promises (store.go), for one call: it stores everything  *)
(* its reader yields, and commits only when the reader has ended cleanly;  *)
(* a half-written object never becomes visible under the key.  An error    *)
(* promises nothing: the object may have become visible all the same.      *)
(***************************************************************************)
VARIABLES
  ended,    \* how the reader has ended, once it has
  visible,  \* what a GET of the key finds
  answer    \* what Put has returned

vars == <<ended, visible, answer>>

Init == ended = "no" /\ visible = "absent" /\ answer = "none"

ReaderEnds ==
  /\ ended = "no" /\ answer = "none"
  /\ ended' \in {"EOF", "error"}
  /\ UNCHANGED <<visible, answer>>

(* Put commits, and says so, keeps the answer back, or loses it.           *)
Commit ==
  /\ ended = "EOF" /\ answer = "none"
  /\ visible' = "whole"
  /\ answer' \in {"none", "ok", "error"}
  /\ UNCHANGED ended

(* A reader that ends in an error with its last bytes ends Put with it.    *)
Fail ==
  /\ answer = "none" /\ answer' = "error"
  /\ ended' = ended \/ (ended = "no" /\ ended' = "error")
  /\ UNCHANGED visible

Next == ReaderEnds \/ Commit \/ Fail

Spec == Init /\ [][Next]_vars
=============================================================================
