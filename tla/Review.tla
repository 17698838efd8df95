------------------------------- MODULE Review -------------------------------
(***************************************************************************)
(* What a sequence of reviews in one output directory promises, with no    *)
(* mention of files or steps.  At any time there is at most one            *)
(* certificate.  A review that finishes replaces it by one that names the  *)
(* review and gives the exact answer for its input; a review that fails    *)
(* leaves the certificate alone, or voids it if it fails while writing it. *)
(***************************************************************************)
EXTENDS Integers, Sequences

CONSTANTS Inputs, MaxRuns,
          Answer(_)       \* the violations a review of an input must report

VARIABLES inputs,         \* inputs of the reviews so far
          busy,           \* is the last review still going on?
          certificate

vars == <<inputs, busy, certificate>>

Void == [run |-> 0, found |-> {}]

Init == inputs = <<>> /\ busy = FALSE /\ certificate = Void

Begin ==
  /\ ~busy
  /\ Len(inputs) < MaxRuns
  /\ \E inp \in Inputs : inputs' = Append(inputs, inp)
  /\ busy' = TRUE
  /\ UNCHANGED certificate

Certify ==
  /\ busy
  /\ busy' = FALSE
  /\ certificate' = [run |-> Len(inputs), found |-> Answer(inputs[Len(inputs)])]
  /\ UNCHANGED inputs

Fail ==
  /\ busy
  /\ busy' = FALSE
  /\ certificate' \in {certificate, Void}
  /\ UNCHANGED inputs

Next == Begin \/ Certify \/ Fail

Spec == Init /\ [][Next]_vars
=============================================================================
