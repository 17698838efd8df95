-------------------------- MODULE AuditTrailProofs --------------------------
(***************************************************************************)
(* What a returned call of the audit writer promises, for any number of    *)
(* records, callers and calls.                                             *)
(*                                                                         *)
(* ReturnedMeansRecorded is not inductive: it says nothing of a call that  *)
(* is going on.  InCall adds that the record of such a call is its         *)
(* caller's own, so that no other call writes its note or its lines, and   *)
(* how far the note has followed the data base.                            *)
(***************************************************************************)
EXTENDS AuditTrail, TLAPS

InCall ==
  \A c \in Caller : ~At(c, "idle") =>
    /\ call[c].record \in Record /\ OwnerOf[call[c].record] = c
    /\ told[call[c].record] = "nothing"
    /\ call[c].state = db[call[c].record]
    /\ At(c, "exists") \/ At(c, "create") => db[call[c].record] = 1
    /\ At(c, "create") => note[call[c].record].state = 0
    /\ At(c, "sync") \/ At(c, "append") => db[call[c].record] > 1
    /\ At(c, "append") => note[call[c].record] = [state |-> db[call[c].record], whole |-> TRUE]

IInv == TypeOK /\ InCall /\ LogFollowsNotes /\ ReturnedMeansRecorded

CallRecord == [step : {"idle", "exists", "create", "sync", "append"},
               record : Record \cup {"none"}, state : State]

LEMMA Types ==
  ASSUME IInv
  PROVE  /\ State \subseteq Nat /\ 0 \in State
         /\ db \in [Record -> State]
         /\ note \in [Record -> [state : State, whole : BOOLEAN]]
         /\ \A r \in Record : db[r] \in Nat /\ note[r].state \in Nat /\ note[r].state <= db[r]
         /\ log \in Seq([record : Record, state : State])
         /\ \A i \in DOMAIN log : log[i].record \in Record /\ log[i].state \in Nat
         /\ call \in [Caller -> CallRecord]
         /\ told \in [Record -> {"nothing", "ok", "skipped", "error"}]
<1>1. State \subseteq Nat /\ 0 \in State
  BY BoundAssumption DEF State
<1>2. /\ db \in [Record -> State] /\ note \in [Record -> [state : State, whole : BOOLEAN]]
      /\ log \in Seq([record : Record, state : State])
      /\ call \in [Caller -> CallRecord]
      /\ told \in [Record -> {"nothing", "ok", "skipped", "error"}]
      /\ \A r \in Record : note[r].state <= db[r]
  BY DEF IInv, TypeOK, CallRecord
<1>3. \A i \in DOMAIN log : log[i] \in [record : Record, state : State]
  <2> DEFINE S == [record : Record, state : State]
  <2>1. log \in Seq(S)
    BY <1>2
  <2> HIDE DEF S
  <2>2. \A i \in DOMAIN log : log[i] \in S
    BY <2>1
  <2> QED
    BY <2>2 DEF S
<1>4. \A i \in DOMAIN log : log[i].record \in Record /\ log[i].state \in Nat
  BY <1>1, <1>3
<1>5. \A r \in Record : db[r] \in Nat /\ note[r].state \in Nat
  BY <1>1, <1>2
<1> QED
  BY <1>1, <1>2, <1>4, <1>5

LEMMA CallType ==
  ASSUME IInv, NEW c \in Caller, ~At(c, "idle")
  PROVE  /\ call[c].record \in Record /\ OwnerOf[call[c].record] = c
         /\ call[c].state \in State /\ call[c].state = db[call[c].record]
         /\ db[call[c].record] \in Nat /\ db[call[c].record] > 0
         /\ \A d \in Caller \ {c} : ~At(d, "idle") => call[d].record # call[c].record
<1>1. call[c] \in [step : {"idle", "exists", "create", "sync", "append"},
                   record : Record \cup {"none"}, state : State]
  BY DEF IInv, TypeOK
<1>2. At(c, "exists") \/ At(c, "create") \/ At(c, "sync") \/ At(c, "append")
  BY <1>1 DEF At
<1>3. call[c].record \in Record /\ OwnerOf[call[c].record] = c /\ call[c].state = db[call[c].record]
  BY DEF IInv, InCall
<1>4. db[call[c].record] \in State
  BY <1>3 DEF IInv, TypeOK
<1>5. db[call[c].record] \in Nat /\ db[call[c].record] > 0
  <2>1. db[call[c].record] = 1 \/ db[call[c].record] > 1
    BY <1>2 DEF IInv, InCall
  <2> QED
    BY <1>4, <2>1, Types
<1>6. \A d \in Caller \ {c} : ~At(d, "idle") => call[d].record # call[c].record
  BY <1>3 DEF IInv, InCall
<1> QED
  BY <1>1, <1>3, <1>5, <1>6

-----------------------------------------------------------------------------
(***************************************************************************)
(* Steps of a call.                                                        *)
(***************************************************************************)
LEMMA Begins ==
  ASSUME IInv, NEW c \in Caller, NEW r \in Record, NewRecord(c, r) \/ ChangeState(c, r)
  PROVE  IInv'
<1> DEFINE s == db'[r]
<1>1. /\ At(c, "idle") /\ OwnerOf[r] = c /\ UNCHANGED <<note, log>>
      /\ told' = [told EXCEPT ![r] = "nothing"]
      /\ db \in [Record -> State] /\ MaxState \in Nat
  BY BoundAssumption DEF NewRecord, ChangeState, Begin, IInv, TypeOK
<1>2. /\ db' = [db EXCEPT ![r] = s] /\ s \in State /\ s >= db[r] /\ db[r] \in State
      /\ \/ s = 1 /\ call' = [call EXCEPT ![c] = [step |-> "exists", record |-> r, state |-> s]]
         \/ s > 1 /\ call' = [call EXCEPT ![c] = [step |-> "sync", record |-> r, state |-> s]]
  <2>1. db[r] \in State /\ db[r] \in Nat
    BY <1>1 DEF State
  <2>2. CASE NewRecord(c, r)
    BY <1>1, <2>1, <2>2 DEF NewRecord, Begin, State
  <2>3. CASE ChangeState(c, r)
    BY <1>1, <2>1, <2>3 DEF ChangeState, Begin, State
  <2> QED
    BY <2>2, <2>3
<1> HIDE DEF s
<1>3. TypeOK'
  <2>1. call' \in [Caller -> CallRecord]
    <3>1. \A step \in {"exists", "sync"} : [step |-> step, record |-> r, state |-> s] \in CallRecord
      BY <1>2 DEF CallRecord
    <3> QED
      BY <1>2, <3>1, Types
  <2>2. db' \in [Record -> State] /\ told' \in [Record -> {"nothing", "ok", "skipped", "error"}]
    BY <1>1, <1>2, Types
  <2>3. \A x \in Record : note'[x].state <= db'[x]
    <3>1. ASSUME NEW x \in Record
          PROVE  note[x].state <= db'[x]
      <4>1. note[x].state \in Nat /\ note[x].state <= db[x] /\ db[x] \in Nat /\ s \in Nat
        BY <1>2, Types
      <4>2. CASE x = r
        BY <1>2, <4>1, <4>2, Types
      <4>3. CASE x # r
        BY <1>2, <4>1, <4>3, Types
      <4> QED
        BY <4>2, <4>3
    <3> QED
      BY <1>1, <3>1
  <2> QED
    BY <1>1, <2>1, <2>2, <2>3 DEF IInv, TypeOK, CallRecord
<1>4. InCall'
  <2>1. ASSUME NEW d \in Caller, d # c, ~At(d, "idle")
        PROVE  call'[d] = call[d] /\ call[d].record # r
    BY <1>1, <1>2, <2>1 DEF IInv, InCall, TypeOK
  <2> QED
    BY <1>1, <1>2, <2>1 DEF IInv, InCall, TypeOK, At
<1>5. LogFollowsNotes'
  BY <1>1 DEF IInv, LogFollowsNotes, Lines
<1>6. ReturnedMeansRecorded'
  <2>1. \A x \in Record : told'[x] = "ok" => x # r /\ told[x] = "ok" /\ db'[x] = db[x]
    BY <1>1, <1>2 DEF IInv, TypeOK
  <2> QED
    BY <1>1, <2>1 DEF IInv, ReturnedMeansRecorded, Lines
<1> QED
  BY <1>3, <1>4, <1>5, <1>6 DEF IInv

\* A call ends without success, alone or with all others, and leaves the files alone or tears
\* its note.
LEMMA Ends ==
  ASSUME IInv, NEW c \in Caller, ~At(c, "idle"), NEW result \in {"nothing", "skipped", "error"},
         call' = [call EXCEPT ![c] = Idle] \/ call' = [d \in Caller |-> Idle],
         told' = [told EXCEPT ![call[c].record] = result],
         UNCHANGED <<db, log>>,
         \/ UNCHANGED note
         \/ WriteNote(c, FALSE)
  PROVE  IInv'
<1> DEFINE r == call[c].record
<1>1. /\ r \in Record /\ OwnerOf[r] = c /\ call[c].state = db[r] /\ db[r] \in State
      /\ told[r] = "nothing"
      /\ \A d \in Caller \ {c} : ~At(d, "idle") => call[d].record # r
  BY CallType DEF IInv, InCall
<1>2. /\ call' = [call EXCEPT ![c] = Idle] \/ call' = [d \in Caller |-> Idle]
      /\ told' = [told EXCEPT ![r] = result]
      /\ note' = note \/ note' = [note EXCEPT ![r] = [state |-> db[r], whole |-> FALSE]]
  BY <1>1 DEF WriteNote
<1> HIDE DEF r
<1>3. /\ note \in [Record -> [state : State, whole : BOOLEAN]]
      /\ call \in [Caller -> CallRecord]
      /\ told \in [Record -> {"nothing", "ok", "skipped", "error"}]
      /\ \A x \in Record : note[x].state \in Nat /\ note[x].state <= db[x] /\ db[x] \in Nat
      /\ 0 \in State
  BY Types
<1>4. \A x \in Record : x # r => note'[x] = note[x] /\ told'[x] = told[x]
  BY <1>1, <1>2, <1>3
<1>5. note[r].state <= note'[r].state /\ note'[r].state <= db[r] /\ note'[r].state \in Nat
  BY <1>1, <1>2, <1>3
<1>6. TypeOK'
  <2>1. call' \in [Caller -> CallRecord]
    <3>1. Idle \in CallRecord
      BY Types DEF Idle, CallRecord
    <3> QED
      BY <1>2, <3>1, Types
  <2>2. note' \in [Record -> [state : State, whole : BOOLEAN]]
    <3>1. [state |-> db[r], whole |-> FALSE] \in [state : State, whole : BOOLEAN]
      BY <1>1
    <3> QED
      BY <1>2, <3>1, Types
  <2>3. told' \in [Record -> {"nothing", "ok", "skipped", "error"}]
    BY <1>2, Types
  <2>4. \A x \in Record : note'[x].state <= db[x]
    BY <1>3, <1>4, <1>5
  <2> QED
    BY <2>1, <2>2, <2>3, <2>4 DEF IInv, TypeOK, CallRecord
<1>7. InCall'
  <2>1. ASSUME NEW d \in Caller, ~At(d, "idle")'
        PROVE  d # c /\ call'[d] = call[d] /\ ~At(d, "idle") /\ call[d].record \in Record /\ call[d].record # r
    <3>1. call'[d].step # "idle" /\ Idle.step = "idle"
      BY <2>1 DEF At, Idle
    <3>2. call' = [call EXCEPT ![c] = Idle]
      <4>1. CASE call' = [x \in Caller |-> Idle]
        BY <3>1, <4>1
      <4> QED
        BY <1>2, <4>1
    <3>3. d # c /\ call'[d] = call[d]
      BY <1>3, <3>1, <3>2
    <3>4. ~At(d, "idle")
      BY <3>1, <3>3 DEF At
    <3> QED
      BY <1>1, <3>3, <3>4, CallType
  <2> QED
    BY <1>2, <1>4, <2>1 DEF IInv, InCall, At
<1>8. LogFollowsNotes'
  <2>1. ASSUME NEW x \in Record, NEW i \in Lines(x)
        PROVE  log[i].state <= note'[x].state
    <3>1. log[i].state <= note[x].state /\ log[i].state \in Nat
      BY Types DEF IInv, LogFollowsNotes, Lines
    <3>2. CASE x = r
      BY <1>3, <1>5, <3>1, <3>2
    <3>3. CASE x # r
      BY <1>4, <3>1, <3>3
    <3> QED
      BY <3>2, <3>3
  <2> QED
    BY <2>1 DEF IInv, LogFollowsNotes, Lines
<1>9. ReturnedMeansRecorded'
  <2>1. told'[r] # "ok"
    <3>1. told'[r] = result
      BY <1>1, <1>2, <1>3
    <3> QED
      BY <3>1
  <2> QED
    BY <1>4, <2>1 DEF IInv, ReturnedMeansRecorded, Lines
<1> QED
  BY <1>6, <1>7, <1>8, <1>9 DEF IInv

LEMMA Checks ==
  ASSUME IInv, NEW c \in Caller, CheckExists(c)
  PROVE  IInv'
<1>1. ~At(c, "idle") /\ UNCHANGED <<db, note, log>>
  BY DEF CheckExists, At
<1>2. CASE Return(c, "skipped")
  BY <1>1, <1>2, Ends DEF Return
<1>3. CASE ~Exists(call[c].record) /\ call' = [call EXCEPT ![c].step = "create"] /\ UNCHANGED told
  <2>1. call[c].record \in Record /\ note[call[c].record].state = 0 /\ At(c, "exists")
    BY <1>1, <1>3, CallType DEF Exists, CheckExists
  <2>2. TypeOK'
    BY <1>1, <1>3 DEF IInv, TypeOK
  <2>3. InCall'
    BY <1>1, <1>3, <2>1 DEF IInv, TypeOK, InCall, At
  <2>4. LogFollowsNotes' /\ ReturnedMeansRecorded'
    BY <1>1, <1>3 DEF IInv, LogFollowsNotes, ReturnedMeansRecorded, Lines
  <2> QED
    BY <2>2, <2>3, <2>4 DEF IInv
<1> QED
  BY <1>2, <1>3 DEF CheckExists

\* The note becomes that of the state in the data base, and the call returns or goes on.
LEMMA Writes ==
  ASSUME IInv, NEW c \in Caller, CreateNote(c) \/ SyncNote(c)
  PROVE  IInv'
<1> DEFINE r == call[c].record
<1>1. ~At(c, "idle") /\ UNCHANGED <<db, log>> /\ WriteNote(c, TRUE)
  BY DEF CreateNote, SyncNote, At
<1>2. /\ r \in Record /\ OwnerOf[r] = c /\ call[c].state = db[r] /\ db[r] \in State /\ db[r] \in Nat
      /\ told[r] = "nothing"
      /\ \A d \in Caller \ {c} : ~At(d, "idle") => call[d].record # r
  BY <1>1, CallType, Types DEF IInv, InCall
<1>3. note' = [note EXCEPT ![r] = [state |-> db[r], whole |-> TRUE]]
  BY <1>1, <1>2 DEF WriteNote
<1>4. \/ /\ db[r] = 1 /\ note[r].state = 0
         /\ call' = [call EXCEPT ![c] = Idle] /\ told' = [told EXCEPT ![r] = "ok"]
      \/ /\ db[r] > 1
         /\ call' = [call EXCEPT ![c].step = "append"] /\ UNCHANGED told
  BY <1>1, <1>2 DEF CreateNote, SyncNote, Return, IInv, InCall
<1> HIDE DEF r
<1>5. /\ \A x \in Record \ {r} : note'[x] = note[x] /\ told'[x] = told[x]
      /\ note'[r] = [state |-> db[r], whole |-> TRUE]
      /\ note[r].state <= db[r]
  BY <1>2, <1>3, <1>4, Types
<1>6. TypeOK'
  <2>1. call' \in [Caller -> CallRecord]
    <3>1. Idle \in CallRecord /\ [call[c] EXCEPT !.step = "append"] \in CallRecord
      BY Types DEF Idle, CallRecord
    <3> QED
      BY <1>4, <3>1, Types
  <2>2. note' \in [Record -> [state : State, whole : BOOLEAN]]
    BY <1>2, <1>3, Types
  <2>3. told' \in [Record -> {"nothing", "ok", "skipped", "error"}]
    BY <1>4, Types
  <2>4. \A x \in Record : note'[x].state <= db[x]
    <3>1. note'[r].state = db[r] /\ db[r] <= db[r]
      BY <1>2, <1>5
    <3>2. \A x \in Record \ {r} : note'[x].state <= db[x]
      BY <1>5, Types
    <3> QED
      BY <3>1, <3>2
  <2> QED
    BY <1>1, <2>1, <2>2, <2>3, <2>4 DEF IInv, TypeOK, CallRecord
<1>7. InCall'
  <2>1. ASSUME NEW d \in Caller, ~At(d, "idle")', d # c
        PROVE  call'[d] = call[d] /\ ~At(d, "idle") /\ call[d].record \in Record \ {r}
    <3>1. call'[d] = call[d]
      BY <1>4, <2>1, Types
    <3>2. ~At(d, "idle")
      BY <2>1, <3>1 DEF At
    <3> QED
      BY <1>2, <2>1, <3>1, <3>2, CallType
  <2>2. ASSUME NEW d \in Caller, ~At(d, "idle")', d = c
        PROVE  /\ db[r] > 1 /\ UNCHANGED told
               /\ call'[d].step = "append" /\ call'[d].record = r /\ call'[d].state = db[r]
    <3>1. call' # [call EXCEPT ![c] = Idle]
      BY <2>2, Types DEF At, Idle
    <3> QED
      BY <1>2, <1>4, <2>2, <3>1, Types DEF CallRecord, r
  <2>3. ASSUME NEW d \in Caller, ~At(d, "idle")'
        PROVE  /\ call'[d].record \in Record /\ OwnerOf[call'[d].record] = d
               /\ told'[call'[d].record] = "nothing"
               /\ call'[d].state = db'[call'[d].record]
               /\ At(d, "exists")' \/ At(d, "create")' => db'[call'[d].record] = 1
               /\ At(d, "create")' => note'[call'[d].record].state = 0
               /\ At(d, "sync")' \/ At(d, "append")' => db'[call'[d].record] > 1
               /\ At(d, "append")' => note'[call'[d].record] = [state |-> db'[call'[d].record], whole |-> TRUE]
    <3>1. CASE d = c
      BY <1>1, <1>2, <1>5, <2>2, <2>3, <3>1 DEF At
    <3>2. CASE d # c
      BY <1>1, <1>5, <2>1, <2>3, <3>2 DEF At, IInv, InCall
    <3> QED
      BY <3>1, <3>2
  <2> QED
    BY <2>3 DEF InCall
<1>8. LogFollowsNotes'
  <2>1. ASSUME NEW x \in Record, NEW i \in Lines(x)
        PROVE  log[i].state <= note'[x].state
    <3>1. log[i].state <= note[x].state /\ log[i].state \in Nat
      BY Types DEF IInv, LogFollowsNotes, Lines
    <3>2. CASE x = r
      BY <1>2, <1>5, <3>1, <3>2, Types
    <3>3. CASE x # r
      BY <1>5, <3>1, <3>3
    <3> QED
      BY <3>2, <3>3
  <2> QED
    BY <1>1, <2>1 DEF IInv, LogFollowsNotes, Lines
<1>9. ReturnedMeansRecorded'
  <2>1. told'[r] = "ok" => db[r] = 1
    BY <1>2, <1>4, Types
  <2>2. ASSUME NEW x \in Record, told'[x] = "ok"
        PROVE  /\ note'[x] = [state |-> db[x], whole |-> TRUE]
               /\ db[x] > 1 => \E i \in Lines(x) : /\ log[i].state = db[x]
                                                   /\ \A j \in Lines(x) : j <= i
    <3>1. CASE x = r
      BY <1>5, <2>1, <2>2, <3>1
    <3>2. CASE x # r
      BY <1>5, <2>2, <3>2 DEF IInv, ReturnedMeansRecorded
    <3> QED
      BY <3>1, <3>2
  <2> QED
    BY <1>1, <2>2 DEF ReturnedMeansRecorded, Lines
<1> QED
  BY <1>6, <1>7, <1>8, <1>9 DEF IInv

LEMMA Appends ==
  ASSUME IInv, NEW c \in Caller, AppendToLog(c)
  PROVE  IInv'
<1>0. PICK r \in Record, n \in Nat \ {0} : r = call[c].record /\ n = Len(log) + 1
  <2>1. call[c].record \in Record
    BY CallType DEF AppendToLog, At
  <2>2. Len(log) + 1 \in Nat \ {0}
    BY Types
  <2> QED
    BY <2>1, <2>2
<1>1. /\ ~At(c, "idle") /\ UNCHANGED <<db, note>>
      /\ call' = [call EXCEPT ![c] = Idle] /\ told' = [told EXCEPT ![r] = "ok"]
  BY <1>0 DEF AppendToLog, Return, At
<1>2. /\ call[c].state = db[r] /\ db[r] \in State /\ db[r] \in Nat
      /\ \A d \in Caller \ {c} : ~At(d, "idle") => call[d].record # r
  BY <1>0, <1>1, CallType, Types
<1>3. note[r] = [state |-> db[r], whole |-> TRUE]
  BY <1>0 DEF AppendToLog, IInv, InCall, At
<1>4. log' = Append(log, [record |-> r, state |-> db[r]])
  BY <1>0, <1>2 DEF AppendToLog
<1>5. /\ DOMAIN log = 1..(n - 1) /\ DOMAIN log' = 1..n
      /\ \A i \in 1..(n - 1) : log'[i] = log[i]
      /\ log'[n] = [record |-> r, state |-> db[r]]
  BY <1>0, <1>4, Types
<1>6. TypeOK'
  <2>1. call' \in [Caller -> CallRecord]
    <3>1. Idle \in CallRecord
      BY Types DEF Idle, CallRecord
    <3> QED
      BY <1>1, <3>1, Types
  <2>2. told' \in [Record -> {"nothing", "ok", "skipped", "error"}]
    BY <1>1, Types
  <2>3. log' \in Seq([record : Record, state : State])
    BY <1>2, <1>4, Types
  <2> QED
    BY <1>1, <2>1, <2>2, <2>3 DEF IInv, TypeOK, CallRecord
<1>7. InCall'
  <2>1. ASSUME NEW d \in Caller, ~At(d, "idle")'
        PROVE  /\ d # c /\ call'[d] = call[d] /\ ~At(d, "idle") /\ call[d].record \in Record \ {r}
               /\ told'[call[d].record] = told[call[d].record]
    <3>1. d # c /\ call'[d] = call[d]
      BY <1>1, <2>1, Types DEF At, Idle
    <3>2. ~At(d, "idle")
      BY <2>1, <3>1 DEF At
    <3>3. call[d].record \in Record \ {r}
      BY <1>2, <3>1, <3>2, CallType
    <3> QED
      BY <1>1, <3>1, <3>2, <3>3, Types
  <2> QED
    BY <1>1, <2>1 DEF IInv, InCall, At
<1>8. /\ Lines(r)' = Lines(r) \cup {n}
      /\ \A x \in Record \ {r} : Lines(x)' = Lines(x)
      /\ \A x \in Record : Lines(x) \subseteq 1..(n - 1)
  BY <1>5 DEF Lines
<1>9. \A x \in Record : \A i \in Lines(x) : log[i].state \in Nat /\ log[i].state <= note[x].state
  BY Types DEF IInv, LogFollowsNotes, Lines
<1>10. LogFollowsNotes'
  <2>1. ASSUME NEW x \in Record, NEW i \in Lines(x)'
        PROVE  /\ log'[i].state <= note[x].state
               /\ \A j \in Lines(x)' : i < j => log'[i].state <= log'[j].state
    <3>1. CASE x = r /\ i = n
      <4>1. \A j \in Lines(x)' : ~(i < j)
        BY <1>5, <1>8, <3>1
      <4> QED
        BY <1>2, <1>3, <1>5, <3>1, <4>1
    <3>2. CASE i \in Lines(x)
      <4>1. log'[i] = log[i] /\ log[i].state <= note[x].state
        BY <1>5, <1>8, <1>9, <3>2
      <4>2. ASSUME NEW j \in Lines(x)', i < j
            PROVE  log[i].state <= log'[j].state
        <5>1. CASE j \in Lines(x)
          BY <1>5, <1>8, <3>2, <4>2, <5>1 DEF IInv, LogFollowsNotes
        <5>2. CASE x = r /\ j = n
          BY <1>3, <1>5, <4>1, <5>2
        <5> QED
          BY <1>8, <5>1, <5>2
      <4> QED
        BY <4>1, <4>2
    <3> QED
      BY <1>8, <3>1, <3>2
  <2> QED
    BY <1>1, <2>1 DEF LogFollowsNotes
<1>11. ReturnedMeansRecorded'
  <2>1. ASSUME NEW x \in Record, told'[x] = "ok"
        PROVE  /\ note[x] = [state |-> db[x], whole |-> TRUE]
               /\ db[x] > 1 => \E i \in Lines(x)' : /\ log'[i].state = db[x]
                                                    /\ \A j \in Lines(x)' : j <= i
    <3>1. CASE x = r
      <4>1. n \in Lines(x)' /\ log'[n].state = db[x] /\ \A j \in Lines(x)' : j <= n
        BY <1>5, <1>8, <3>1
      <4> QED
        BY <1>3, <3>1, <4>1
    <3>2. CASE x # r
      <4>1. told[x] = "ok" /\ Lines(x)' = Lines(x)
        BY <1>1, <1>8, <2>1, <3>2, Types
      <4>2. \A i \in Lines(x) : log'[i] = log[i]
        BY <1>5, <1>8
      <4> QED
        BY <4>1, <4>2 DEF IInv, ReturnedMeansRecorded
    <3> QED
      BY <3>1, <3>2
  <2> QED
    BY <1>1, <2>1 DEF ReturnedMeansRecorded
<1> QED
  BY <1>6, <1>7, <1>10, <1>11 DEF IInv

LEMMA Fails ==
  ASSUME IInv, NEW c \in Caller, DryRunCall(c) \/ Raise(c)
  PROVE  IInv'
<1>1. ~At(c, "idle") /\ UNCHANGED <<db, log>>
  BY DEF DryRunCall, Raise, At
<1>2. UNCHANGED note \/ WriteNote(c, FALSE)
  BY DEF DryRunCall, Raise
<1>3. PICK result \in {"skipped", "error"} : Return(c, result)
  BY DEF DryRunCall, Raise
<1>4. /\ call' = [call EXCEPT ![c] = Idle]
      /\ told' = [told EXCEPT ![call[c].record] = result]
      /\ result \in {"nothing", "skipped", "error"}
  BY <1>3 DEF Return
<1> QED
  BY <1>1, <1>2, <1>4, Ends

LEMMA Kills ==
  ASSUME IInv, Kill
  PROVE  IInv'
<1>1. call' = [c \in Caller |-> Idle] /\ UNCHANGED <<db, log, told>>
  BY DEF Kill
<1>2. CASE UNCHANGED note
  <2>1. Idle \in CallRecord
    BY Types DEF Idle, CallRecord
  <2>2. TypeOK'
    BY <1>1, <1>2, <2>1 DEF IInv, TypeOK, CallRecord
  <2>3. InCall'
    BY <1>1 DEF InCall, At, Idle
  <2>4. LogFollowsNotes' /\ ReturnedMeansRecorded'
    BY <1>1, <1>2 DEF IInv, LogFollowsNotes, ReturnedMeansRecorded, Lines
  <2> QED
    BY <2>2, <2>3, <2>4 DEF IInv
<1>3. CASE \E c \in Caller : ~At(c, "idle") /\ WriteNote(c, FALSE)
  <2>1. PICK c \in Caller : ~At(c, "idle") /\ WriteNote(c, FALSE)
    BY <1>3
  <2>2. told' = [told EXCEPT ![call[c].record] = "nothing"]
    <3>1. told[call[c].record] = "nothing" /\ call[c].record \in Record
      BY <2>1 DEF IInv, InCall
    <3> QED
      BY <1>1, <3>1, Types
  <2> QED
    BY <1>1, <2>1, <2>2, Ends
<1>4. UNCHANGED note \/ \E c \in Caller : ~At(c, "idle") /\ WriteNote(c, FALSE)
  BY DEF Kill, At
<1> QED
  BY <1>2, <1>3, <1>4

LEMMA StartsRight ==
  ASSUME Init
  PROVE  IInv
<1>1. 0 \in State /\ \A i \in DOMAIN log : FALSE
  BY BoundAssumption DEF Init, State
<1>2. TypeOK
  BY <1>1 DEF Init, TypeOK, NoNote, Idle
<1>3. InCall
  BY DEF Init, InCall, At, Idle
<1>4. LogFollowsNotes /\ ReturnedMeansRecorded
  BY <1>1 DEF Init, LogFollowsNotes, ReturnedMeansRecorded, Lines
<1> QED
  BY <1>2, <1>3, <1>4 DEF IInv

-----------------------------------------------------------------------------
\* Calls that are going on have the record to themselves, through every step and failure.
THEOREM Invariance == Spec => []IInv
<1>1. Init => IInv
  BY StartsRight
<1>2. IInv /\ [Next]_vars => IInv'
  <2> SUFFICES ASSUME IInv, [Next]_vars
               PROVE  IInv'
    OBVIOUS
  <2>1. CASE \E c \in Caller : \E r \in Record : NewRecord(c, r) \/ ChangeState(c, r)
    BY <2>1, Begins
  <2>2. CASE \E c \in Caller : DryRunCall(c) \/ Raise(c)
    BY <2>2, Fails
  <2>3. CASE \E c \in Caller : CheckExists(c)
    BY <2>3, Checks
  <2>4. CASE \E c \in Caller : CreateNote(c) \/ SyncNote(c)
    BY <2>4, Writes
  <2>5. CASE \E c \in Caller : AppendToLog(c)
    BY <2>5, Appends
  <2>6. CASE Kill
    BY <2>6, Kills
  <2>7. CASE UNCHANGED vars
    BY <2>7 DEF vars, IInv, TypeOK, InCall, LogFollowsNotes, ReturnedMeansRecorded, Lines, At
  <2> QED
    BY <2>1, <2>2, <2>3, <2>4, <2>5, <2>6, <2>7 DEF Next
<1> QED
  BY <1>1, <1>2, PTL DEF Spec

\* Types, and no note is ahead of the state of its record.
THEOREM TypesHold == Spec => []TypeOK
<1>1. IInv => TypeOK
  BY DEF IInv
<1> QED
  BY <1>1, Invariance, PTL

\* A call of create_note or record_state_change that returned has its state in the note and, if
\* the record was changed, in the record's last line of the log.
THEOREM ReturnsAreKept == Spec => []ReturnedMeansRecorded
<1>1. IInv => ReturnedMeansRecorded
  BY DEF IInv
<1> QED
  BY <1>1, Invariance, PTL

\* sync_note before append_to_log (writer.py:157-160) keeps the log behind the notes.
THEOREM LogIsBehind == Spec => []LogFollowsNotes
<1>1. IInv => LogFollowsNotes
  BY DEF IInv
<1> QED
  BY <1>1, Invariance, PTL

=============================================================================
