---------------------------- MODULE MCAuditTrail ----------------------------
(***************************************************************************)
(* Two owners of a record each, and a third caller that only tries         *)
(* things out (dry_run); and what writer.py says of record_state_change(). *)
(***************************************************************************)
EXTENDS AuditTrail, TLC

MCRecord == {"r1", "r2", "r3"}
MCOwnerOf == ("r1" :> "c1") @@ ("r2" :> "c2") @@ ("r3" :> "c3")

\* writer.py:144, "Record a state change atomically: syncs the note AND appends to
\* the log", and :147, "Both must happen together": when no call is going on, the
\* log of a record whose state has changed has a line for what its note says.
StateChangeIsAtomic ==
  (\A c \in Caller : At(c, "idle")) =>
    \A r \in Record : note[r].whole /\ note[r].state > 1 =>
                       \E i \in Lines(r) : log[i].state = note[r].state
=============================================================================
