----------------------------- MODULE AuditTrail -----------------------------
(***************************************************************************)
(* AuditWriter of integrity_engine/audit_trail/writer.py: notes, one file  *)
(* per record, that mirror the state a record has in a data base, and one  *)
(* append-only log.  create_note() writes a note that does not exist yet;  *)
(* sync_note() always overwrites; record_state_change() syncs the note and *)
(* then appends a line to the log.                                         *)
(*                                                                         *)
(* The callers are the domain layer.  A record has one owner, which        *)
(* changes its state and then calls the writer; owners run at the same     *)
(* time and share the log.  A call may raise at any file operation, and    *)
(* the processes may all be killed.  The state of a record is a number     *)
(* that its owner increments.                                              *)
(***************************************************************************)
EXTENDS Integers, Sequences

CONSTANTS
  Record,
  Caller,
  OwnerOf,       \* the caller that owns a record
  DryRun,        \* callers whose writer was made with dry_run = True
  MaxState,      \* bound: last state of a record
  MaxLines       \* bound: lines in the log

ASSUME OwnerAssumption == OwnerOf \in [Record -> Caller] /\ DryRun \subseteq Caller
ASSUME BoundAssumption == MaxState \in Nat /\ MaxLines \in Nat

VARIABLES
  db,            \* the state of each record, 0 for a record that is not there
  note,          \* the file of each record
  log,           \* audit.log
  call,          \* the call each caller is in
  told           \* how the last call for a record ended, as its owner saw it

vars == <<db, note, log, call, told>>

NoNote == [state |-> 0, whole |-> FALSE]
Idle == [step |-> "idle", record |-> "none", state |-> 0]

Init ==
  /\ db = [r \in Record |-> 0]
  /\ note = [r \in Record |-> NoNote]
  /\ log = <<>>
  /\ call = [c \in Caller |-> Idle]
  /\ told = [r \in Record |-> "nothing"]

Exists(r) == note[r].state # 0
At(c, step) == call[c].step = step

\* The owner has just stored the state s of r and calls the writer.
Begin(c, r, s, step) ==
  /\ call' = [call EXCEPT ![c] = [step |-> step, record |-> r, state |-> s]]
  /\ told' = [told EXCEPT ![r] = "nothing"]
Return(c, result) ==
  /\ call' = [call EXCEPT ![c] = Idle]
  /\ told' = [told EXCEPT ![call[c].record] = result]

-----------------------------------------------------------------------------
\* A new record: create_note().  A caller may repeat a call that failed.
NewRecord(c, r) ==
  /\ At(c, "idle") /\ OwnerOf[r] = c
  /\ db[r] = 0 \/ (db[r] = 1 /\ told[r] # "ok")
  /\ MaxState > 0
  /\ db' = [db EXCEPT ![r] = 1]
  /\ Begin(c, r, 1, "exists")
  /\ UNCHANGED <<note, log>>

\* Mutant: the call comes before the change of state.
AuditFirst(c, r) ==
  /\ At(c, "idle") /\ OwnerOf[r] = c
  /\ db[r] > 0 /\ db[r] < MaxState /\ Len(log) < MaxLines
  /\ Begin(c, r, db[r] + 1, "sync")
  /\ UNCHANGED <<db, note, log>>
\* A new state: record_state_change().
ChangeState(c, r) ==
  /\ At(c, "idle") /\ OwnerOf[r] = c
  /\ db[r] > 0
  /\ Len(log) < MaxLines
  /\ \/ db[r] < MaxState /\ db' = [db EXCEPT ![r] = @ + 1]
     \/ db[r] > 1 /\ told[r] # "ok" /\ UNCHANGED db
  /\ Begin(c, r, db'[r], "sync")
  /\ UNCHANGED <<note, log>>

DryRunCall(c) ==
  /\ c \in DryRun
  /\ At(c, "exists") \/ At(c, "sync")
  /\ Return(c, "skipped")
  /\ UNCHANGED <<db, note, log>>

CheckExists(c) ==
  /\ At(c, "exists") /\ c \notin DryRun
  /\ IF Exists(call[c].record)
       THEN Return(c, "skipped")
       ELSE call' = [call EXCEPT ![c].step = "create"] /\ UNCHANGED told
  /\ UNCHANGED <<db, note, log>>

\* write_text() truncates the file and then writes it.
WriteNote(c, whole) ==
  note' = [note EXCEPT ![call[c].record] = [state |-> call[c].state, whole |-> whole]]

CreateNote(c) ==
  /\ At(c, "create")
  /\ WriteNote(c, TRUE)
  /\ Return(c, "ok")
  /\ UNCHANGED <<db, log>>

\* Mutant: create_note's test in sync_note (the bug of writer.py:16).
SyncIfMissing(c) ==
  /\ At(c, "sync") /\ c \notin DryRun
  /\ IF Exists(call[c].record) THEN UNCHANGED note ELSE WriteNote(c, TRUE)
  /\ call' = [call EXCEPT ![c].step = "append"]
  /\ UNCHANGED <<db, log, told>>
\* Mutant: errors of the write are swallowed.
SyncOrIgnore(c) ==
  /\ At(c, "sync") /\ c \notin DryRun
  /\ UNCHANGED note \/ WriteNote(c, TRUE)
  /\ call' = [call EXCEPT ![c].step = "append"]
  /\ UNCHANGED <<db, log, told>>
SyncNote(c) ==
  /\ At(c, "sync") /\ c \notin DryRun
  /\ WriteNote(c, TRUE)
  /\ call' = [call EXCEPT ![c].step = "append"]
  /\ UNCHANGED <<db, log, told>>

AppendToLog(c) ==
  /\ At(c, "append")
  /\ log' = Append(log, [record |-> call[c].record, state |-> call[c].state])
  /\ Return(c, "ok")
  /\ UNCHANGED <<db, note>>

\* A file operation raises: a note may be left truncated, the log is as it was.
Raise(c) ==
  /\ ~At(c, "idle") /\ c \notin DryRun
  /\ UNCHANGED note \/ ((At(c, "create") \/ At(c, "sync")) /\ WriteNote(c, FALSE))
  /\ Return(c, "error")
  /\ UNCHANGED <<db, log>>

\* The processes are killed; a note may be left truncated.
Kill ==
  /\ call' = [c \in Caller |-> Idle]
  /\ \/ UNCHANGED note
     \/ \E c \in Caller \ DryRun : (At(c, "create") \/ At(c, "sync")) /\ WriteNote(c, FALSE)
  /\ UNCHANGED <<db, log, told>>

Next ==
  \/ \E c \in Caller :
       \/ \E r \in Record : NewRecord(c, r) \/ ChangeState(c, r)
       \/ DryRunCall(c) \/ CheckExists(c) \/ CreateNote(c) \/ SyncNote(c) \/ AppendToLog(c)
       \/ Raise(c)
  \/ Kill

Spec == Init /\ [][Next]_vars

-----------------------------------------------------------------------------
State == 0..MaxState
\* Types, and: no note of a state the record has not had.
TypeOK ==
  /\ db \in [Record -> State]
  /\ note \in [Record -> [state : State, whole : BOOLEAN]]
  /\ log \in Seq([record : Record, state : State])
  /\ call \in [Caller -> [step : {"idle", "exists", "create", "sync", "append"},
                          record : Record \cup {"none"}, state : State]]
  /\ told \in [Record -> {"nothing", "ok", "skipped", "error"}]
  /\ \A r \in Record : note[r].state <= db[r]

Lines(r) == {i \in DOMAIN log : log[i].record = r}

(***************************************************************************)
(* A call that returns is a promise kept: the note mirrors the data base,  *)
(* and if the state has changed since the record was new, the last line of *)
(* the record says so, whoever else is appending and whatever failed       *)
(* before.                                                                 *)
(***************************************************************************)
ReturnedMeansRecorded ==
  \A r \in Record : told[r] = "ok" =>
    /\ note[r] = [state |-> db[r], whole |-> TRUE]
    /\ db[r] > 1 => \E i \in Lines(r) : /\ log[i].state = db[r]
                                        /\ \A j \in Lines(r) : j <= i

(***************************************************************************)
(* The log is never ahead of the notes, and the lines of a record are in   *)
(* the order of its states.                                                *)
(***************************************************************************)
LogFollowsNotes ==
  \A r \in Record : \A i \in Lines(r) :
    /\ log[i].state <= note[r].state
    /\ \A j \in Lines(r) : i < j => log[i].state <= log[j].state
=============================================================================
