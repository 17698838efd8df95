---------------------------- MODULE WebAppProofs ----------------------------
(***************************************************************************)
(* Requests keep their work directories to themselves, for any number of   *)
(* workers, threads, forms and data sets.                                  *)
(*                                                                         *)
(* What a browser is told is not inductive: the invariant has to follow a  *)
(* request from the form to the redirect.  InHand says what a thread knows *)
(* of its own directory at each step, the other parts that no two requests *)
(* share a directory, and what becomes of a directory when its request is  *)
(* answered.                                                               *)
(***************************************************************************)
EXTENDS WebApp, FiniteSetTheorems, TLAPS

Posts(t) == thread[t].step \in StepsOfPost

\* What a complete form, or one whose files before the k-th have been saved, leaves in a directory.
Files(n) == {n} \X {name \in Name : requests[n].ext[name] # "none"}
FilesBefore(n, k) ==
  {n} \X {SaveOrder[j] : j \in {i \in 1..(k - 1) : requests[n].ext[SaveOrder[i]] # "none"}}

InHand(t) ==
  Posts(t) =>
    /\ thread[t].request \in 1..Len(requests) /\ answer[thread[t].request] = "none"
    /\ At(t, "validate") =>
         thread[t].at = 1 /\ \A d \in Dir : disk[d].owner # thread[t].request
    /\ ~At(t, "validate") =>
         thread[t].dir \in 1..made /\ MyDir(t).exists /\ MyDir(t).owner = thread[t].request
    /\ At(t, "save") => MyDir(t).input = FilesBefore(thread[t].request, thread[t].at)
    /\ thread[t].step \in {"pipeline", "writing", "publish", "redirect"} =>
         MyDir(t).input = Files(thread[t].request)
    /\ thread[t].step \in {"publish", "redirect"} =>
         MyDir(t).output = "complete" /\ MyDir(t).shows = {thread[t].request}
    /\ At(t, "redirect") => thread[t].dir \in runs[WorkerOf[t]]

RequestsApart ==
  \A t, u \in Thread : t # u /\ Posts(t) /\ Posts(u) => thread[t].request # thread[u].request

DirsApart ==
  \A d \in Dir :
    /\ d > made => disk[d] = NoDir
    /\ disk[d] = NoDir \/ (disk[d].exists /\ disk[d].owner \in 1..Len(requests))
    /\ \A e \in Dir : disk[d].exists /\ disk[e].exists /\ d # e => disk[d].owner # disk[e].owner

\* Every form that waits for its directory has one to come.
Validating == {n \in Post : \E t \in Thread : At(t, "validate") /\ thread[t].request = n}
DirsFit == made + Cardinality(Validating) <= Len(requests)

\* Forms still to come have no answer.
Asked == \A n \in Post : n > Len(requests) => answer[n] = "none"

Registered ==
  \A w \in Worker : \A d \in runs[w] :
    /\ disk[d].exists
    /\ \/ answer[disk[d].owner] # "none"
       \/ \E t \in Thread : At(t, "redirect") /\ thread[t].dir = d

\* The link of a form leads to a worker that has the run.
Linked ==
  \A n \in Post : answer[n] = "redirect" => \A d \in DirOf(n) : \E w \in Worker : d \in runs[w]

Visits ==
  /\ \A t \in Thread : At(t, "page") =>
       /\ thread[t].request \in Post /\ thread[t].dir \in DirOf(thread[t].request)
       /\ answer[thread[t].request] \in {"redirect", "expired"}
  /\ \A n \in Post : page[n] # "missing"

IInv ==
  /\ TypeOK
  /\ \A t \in Thread : InHand(t)
  /\ RequestsApart
  /\ DirsApart
  /\ DirsFit
  /\ Asked
  /\ ResultsAreOnesOwn
  /\ WorkDirsAreAccountedFor
  /\ Registered
  /\ Linked
  /\ Visits

-----------------------------------------------------------------------------
(***************************************************************************)
(* What the invariant says of types and of a thread that is posting.       *)
(***************************************************************************)
LEMMA Types ==
  ASSUME IInv
  PROVE  /\ MaxPosts \in Nat /\ Len(SaveOrder) \in Nat \ {0}
         /\ requests \in Seq(Uploads) /\ Len(requests) \in Nat /\ Len(requests) <= MaxPosts
         /\ DOMAIN requests = 1..Len(requests)
         /\ made \in Nat /\ made <= Len(requests)
         /\ answer \in [Post -> Answers]
         /\ page \in [Post -> {"none", "served", "not_found", "missing"}]
         /\ thread \in [Thread -> Activity]
         /\ disk \in [Dir -> Directory]
         /\ runs \in [Worker -> SUBSET Dir]
         /\ WorkerOf \in [Thread -> Worker]
         /\ 1..Len(requests) \subseteq Post /\ 1..made \subseteq Dir
<1>1. MaxPosts \in Nat /\ Len(SaveOrder) \in Nat \ {0} /\ WorkerOf \in [Thread -> Worker]
  BY PostAssumption, SaveAssumption, ThreadAssumption
<1>2. TypeOK
  BY DEF IInv
<1>3. requests \in Seq(Uploads) /\ Len(requests) \in Nat /\ Len(requests) <= MaxPosts
  BY <1>2 DEF TypeOK
<1>4. made \in Nat /\ made <= Len(requests)
  BY <1>2, <1>3 DEF TypeOK
<1> QED
  BY <1>1, <1>2, <1>3, <1>4 DEF TypeOK, Post, Dir

LEMMA Mine ==
  ASSUME IInv, NEW t \in Thread, Posts(t)
  PROVE  /\ thread[t] \in Activity
         /\ thread[t].request \in Post /\ thread[t].request \in 1..Len(requests)
         /\ answer[thread[t].request] = "none"
         /\ ~At(t, "validate") => /\ thread[t].dir \in Dir /\ thread[t].dir \in 1..made
                                  /\ disk[thread[t].dir] \in Directory
                                  /\ disk[thread[t].dir].exists
                                  /\ disk[thread[t].dir].owner = thread[t].request
         /\ \A u \in Thread : u # t /\ Posts(u) =>
              /\ thread[u].request # thread[t].request
              /\ ~At(t, "validate") /\ ~At(u, "validate") => thread[u].dir # thread[t].dir
<1>1. \A u \in Thread : InHand(u)
  BY DEF IInv
<1>2. /\ thread[t].request \in 1..Len(requests) /\ answer[thread[t].request] = "none"
      /\ ~At(t, "validate") => /\ thread[t].dir \in 1..made /\ disk[thread[t].dir].exists
                               /\ disk[thread[t].dir].owner = thread[t].request
  BY <1>1 DEF InHand, MyDir
<1>3. \A u \in Thread : u # t /\ Posts(u) => thread[u].request # thread[t].request
  BY DEF IInv, RequestsApart
<1>4. \A u \in Thread : Posts(u) /\ ~At(u, "validate") => disk[thread[u].dir].owner = thread[u].request
  BY <1>1 DEF InHand, MyDir
<1> QED
  BY <1>2, <1>3, <1>4, Types

(***************************************************************************)
(* A thread does not disturb what the others have in hand when it keeps    *)
(* to its own request and directory.                                       *)
(***************************************************************************)
LEMMA OthersKeepTheirs ==
  ASSUME IInv, NEW u \in Thread, Posts(u),
         thread'[u] = thread[u],
         Len(requests') >= Len(requests), Len(requests') \in Nat, made' >= made, made' \in Nat,
         \A n \in 1..Len(requests) : requests'[n] = requests[n],
         answer'[thread[u].request] = answer[thread[u].request],
         \A d \in Dir : disk'[d] = disk[d] \/ (/\ disk[d].owner # thread[u].request
                                               /\ disk'[d].owner # thread[u].request),
         runs[WorkerOf[u]] \subseteq runs'[WorkerOf[u]]
  PROVE  InHand(u)'
<1>1. InHand(u)
  BY DEF IInv
<1>2. /\ thread[u].request \in 1..Len(requests) /\ thread[u].request \in Post
      /\ answer[thread[u].request] = "none"
      /\ ~At(u, "validate") => /\ thread[u].dir \in 1..made /\ thread[u].dir \in Dir
                               /\ disk[thread[u].dir].exists
                               /\ disk[thread[u].dir].owner = thread[u].request
  BY Mine
<1>3. /\ thread[u].request \in 1..Len(requests') /\ answer'[thread[u].request] = "none"
      /\ requests'[thread[u].request] = requests[thread[u].request]
      /\ ~At(u, "validate") => /\ thread[u].dir \in 1..made'
                               /\ disk'[thread[u].dir] = disk[thread[u].dir]
  BY <1>2, Types
<1>4. At(u, "validate") =>
        thread[u].at = 1 /\ \A d \in Dir : disk'[d].owner # thread[u].request
  BY <1>1 DEF InHand
<1>5. At(u, "redirect") => thread[u].dir \in runs'[WorkerOf[u]]
  BY <1>1, Types DEF InHand
<1>6. At(u, "save") => disk'[thread[u].dir].input = FilesBefore(thread[u].request, thread[u].at)'
  BY <1>1, <1>3 DEF InHand, MyDir, At, FilesBefore
<1>7. thread[u].step \in {"pipeline", "writing", "publish", "redirect"} =>
        disk'[thread[u].dir].input = Files(thread[u].request)'
  BY <1>1, <1>3 DEF InHand, MyDir, At, Files
<1>8. thread[u].step \in {"publish", "redirect"} =>
        disk'[thread[u].dir].output = "complete" /\ disk'[thread[u].dir].shows = {thread[u].request}
  BY <1>1, <1>3 DEF InHand, MyDir, At
<1> QED
  BY <1>2, <1>3, <1>4, <1>5, <1>6, <1>7, <1>8 DEF InHand, MyDir, At, Posts, StepsOfPost

\* ResultsAreOnesOwn, form by form.
OwnResult(n) ==
  \E d \in DirOf(n) :
    /\ disk[d].exists /\ disk[d].output = "complete" /\ disk[d].shows = {n}
    /\ disk[d].input = Files(n)

LEMMA OwnResults ==
  /\ ResultsAreOnesOwn <=> \A n \in Post : answer[n] \in {"redirect", "expired"} => OwnResult(n)
  /\ ResultsAreOnesOwn' <=> \A n \in Post : answer'[n] \in {"redirect", "expired"} => OwnResult(n)'
BY DEF ResultsAreOnesOwn, OwnResult, Files

LEMMA OwnResultsStay ==
  ASSUME NEW n \in Post, OwnResult(n), requests'[n] = requests[n],
         \A d \in DirOf(n) : disk[d].exists => disk'[d] = disk[d]
  PROVE  OwnResult(n)'
<1>1. Files(n)' = Files(n)
  BY DEF Files
<1> QED
  BY <1>1 DEF OwnResult, DirOf

-----------------------------------------------------------------------------
(***************************************************************************)
(* A thread works on its request: only its own directory changes, which    *)
(* stays where it is and its own.                                          *)
(***************************************************************************)
LEMMA Works ==
  ASSUME IInv, NEW t \in Thread, Posts(t), ~At(t, "validate"), ~At(t, "redirect"),
         NEW step \in StepsOfPost \ {"validate"}, NEW at \in 1..(Len(SaveOrder) + 1),
         thread' = [thread EXCEPT ![t] = [thread[t] EXCEPT !.step = step, !.at = at]],
         NEW D \in Directory, D.exists, D.owner = thread[t].request,
         disk' = [disk EXCEPT ![thread[t].dir] = D],
         InHand(t)',
         \A w \in Worker : runs[w] \subseteq runs'[w],
         \A w \in Worker : runs'[w] # runs[w] =>
           /\ runs'[w] = runs[w] \cup {thread[t].dir}
           /\ step = "redirect",
         runs' \in [Worker -> SUBSET Dir],
         UNCHANGED <<requests, answer, page, made>>
  PROVE  IInv'
<1>1. PICK n \in Post, e \in Dir : n = thread[t].request /\ e = thread[t].dir
  BY Mine
<1>2. /\ n \in 1..Len(requests) /\ answer[n] = "none"
      /\ disk[e].exists /\ disk[e].owner = n /\ e \in 1..made /\ disk[e] \in Directory
      /\ \A u \in Thread : u # t /\ Posts(u) =>
           /\ thread[u].request # n
           /\ ~At(u, "validate") => thread[u].dir # e
  BY <1>1, Mine
<1>3. /\ \A u \in Thread : u # t => thread'[u] = thread[u]
      /\ thread'[t].step = step /\ thread'[t].request = n /\ thread'[t].dir = e
      /\ thread' \in [Thread -> Activity]
  <2>1. thread[t] \in Activity /\ step \in StepsOfPost
    BY Types
  <2>2. [thread[t] EXCEPT !.step = step, !.at = at] \in Activity
    BY <2>1 DEF Activity
  <2> QED
    BY <1>1, <2>1, <2>2, Types DEF Activity
<1>4. /\ \A d \in Dir : d # e => disk'[d] = disk[d]
      /\ disk'[e] = D /\ disk'[e].exists /\ disk'[e].owner = n
      /\ disk' \in [Dir -> Directory]
      /\ \A d \in Dir : disk'[d].owner = disk[d].owner /\ disk'[d].exists = disk[d].exists
  BY <1>1, <1>2, Types
<1>5. TypeOK'
  BY <1>3, <1>4 DEF IInv, TypeOK
<1>6. \A u \in Thread : InHand(u)'
  <2>1. ASSUME NEW u \in Thread, u # t, Posts(u)
        PROVE  InHand(u)'
    <3>1. \A d \in Dir : disk'[d] = disk[d] \/ (/\ disk[d].owner # thread[u].request
                                               /\ disk'[d].owner # thread[u].request)
      BY <1>2, <1>4, <2>1
    <3> QED
      BY <1>3, <2>1, <3>1, OthersKeepTheirs, Types
  <2>2. \A u \in Thread : u # t /\ ~Posts(u) => InHand(u)'
    BY <1>3 DEF InHand, Posts
  <2> QED
    BY <2>1, <2>2
<1>7. RequestsApart'
  <2>1. RequestsApart
    BY DEF IInv
  <2> QED
    BY <1>1, <1>3, <2>1 DEF RequestsApart, Posts
<1>8. DirsApart'
  <2>1. \A d \in Dir : d > made => d # e
    BY <1>2, Types
  <2> QED
    BY <1>2, <1>4, <2>1 DEF IInv, DirsApart
<1>9. DirsFit'
  <2>1. Validating' = Validating
    BY <1>3 DEF Validating, At
  <2> QED
    BY <2>1 DEF IInv, DirsFit
<1>10. Asked'
  BY DEF IInv, Asked
<1>11. ResultsAreOnesOwn'
  <2>1. ASSUME NEW m \in Post, answer[m] \in {"redirect", "expired"}
        PROVE  OwnResult(m)'
    <3>1. OwnResult(m) /\ \A d \in DirOf(m) : disk'[d] = disk[d]
      BY <1>2, <1>4, <2>1, OwnResults DEF IInv, DirOf
    <3> QED
      BY <3>1, OwnResultsStay
  <2> QED
    BY <2>1, OwnResults
<1>12. WorkDirsAreAccountedFor'
  <2>1. \A m : (InProgress(m) => InProgress(m)')
    BY <1>1, <1>3 DEF InProgress, Posting, StepsOfPost
  <2> QED
    BY <1>4, <2>1 DEF IInv, WorkDirsAreAccountedFor
<1>13. Registered'
  <2>1. ASSUME NEW w \in Worker, NEW d \in runs'[w]
        PROVE  /\ disk'[d].exists
               /\ \/ answer[disk'[d].owner] # "none"
                  \/ \E u \in Thread : At(u, "redirect")' /\ thread'[u].dir = d
    <3>1. d \in Dir
      BY <2>1
    <3>2. CASE d \in runs[w]
      <4>1. /\ disk[d].exists
            /\ \/ answer[disk[d].owner] # "none"
               \/ \E u \in Thread : At(u, "redirect") /\ thread[u].dir = d
        BY <3>2 DEF IInv, Registered
      <4> QED
        BY <1>3, <1>4, <3>1, <4>1 DEF At
    <3>3. CASE d = e /\ step = "redirect"
      BY <1>3, <1>4, <3>3 DEF At
    <3> QED
      BY <1>1, <2>1, <3>2, <3>3
  <2> QED
    BY <2>1 DEF Registered
<1>14. Linked'
  BY <1>4 DEF IInv, Linked, DirOf
<1>15. Visits'
  BY <1>3, <1>4 DEF IInv, Visits, At, DirOf, StepsOfPost
<1> QED
  BY <1>5, <1>6, <1>7, <1>8, <1>9, <1>10, <1>11, <1>12, <1>13, <1>14, <1>15 DEF IInv

-----------------------------------------------------------------------------
(***************************************************************************)
(* A thread answers its request.                                           *)
(***************************************************************************)
LEMMA NotYetRegistered ==
  ASSUME IInv, NEW t \in Thread, Posts(t), ~At(t, "validate"), ~At(t, "redirect"),
         NEW w \in Worker
  PROVE  thread[t].dir \notin runs[w]
<1>1. SUFFICES ASSUME thread[t].dir \in runs[w]
               PROVE  FALSE
  OBVIOUS
<1>2. PICK u \in Thread : At(u, "redirect") /\ thread[u].dir = thread[t].dir
  BY <1>1, Mine DEF IInv, Registered
<1>3. u # t /\ Posts(u) /\ ~At(u, "validate")
  BY <1>2 DEF Posts, At, StepsOfPost
<1> QED
  BY <1>2, <1>3, Mine

\* When threads only become idle, no more forms wait for a directory.
LEMMA FewerWait ==
  ASSUME IInv, Validating' \subseteq Validating, UNCHANGED <<made, requests>>
  PROVE  DirsFit'
<1>1. IsFiniteSet(Validating)
  <2>1. IsFiniteSet(Post) /\ Validating \in SUBSET Post
    BY FS_Interval, PostAssumption DEF Post, Validating
  <2> QED
    BY <2>1, FS_Subset
<1>2. /\ Cardinality(Validating') \in Nat /\ Cardinality(Validating) \in Nat
      /\ Cardinality(Validating') <= Cardinality(Validating)
  BY <1>1, FS_Subset, FS_CardinalityType
<1> QED
  BY <1>2, Types DEF IInv, DirsFit

LEMMA Replies ==
  ASSUME IInv, NEW t \in Thread, Posts(t),
         NEW a \in Answers \ {"none", "expired"}, Reply(t, a),
         a = "redirect" => At(t, "redirect"),
         \/ UNCHANGED disk /\ (At(t, "validate") \/ a \in {"redirect", "bad_file", "server_error"})
         \/ At(t, "cleanup") /\ disk' = [disk EXCEPT ![thread[t].dir] = NoDir],
         UNCHANGED <<requests, page, made, runs>>
  PROVE  IInv'
<1>1. PICK n \in Post : n = thread[t].request
  BY Mine
<1>2. /\ n \in 1..Len(requests) /\ answer[n] = "none"
      /\ \A u \in Thread : u # t /\ Posts(u) => thread[u].request # n
      /\ ~At(t, "validate") => /\ thread[t].dir \in Dir /\ disk[thread[t].dir].exists
                               /\ disk[thread[t].dir].owner = n
  BY <1>1, Mine
<1>3. /\ \A u \in Thread : u # t => thread'[u] = thread[u]
      /\ thread'[t] = Idle /\ Idle.step = "idle"
      /\ \A m \in Post : m # n => answer'[m] = answer[m]
      /\ answer'[n] = a
      /\ thread' \in [Thread -> Activity] /\ answer' \in [Post -> Answers]
  <2>1. Idle \in Activity
    BY Types DEF Idle, Activity
  <2> QED
    BY <1>1, <2>1, Types DEF Reply, Idle
<1>4. \A u \in Thread : (Posts(u)' <=> u # t /\ Posts(u)) /\ ~Posts(t)'
  BY <1>3 DEF Posts, StepsOfPost
<1>5. /\ disk' \in [Dir -> Directory] /\ NoDir \in Directory
      /\ \A d \in Dir : disk'[d] = disk[d] \/ (/\ disk[d].owner = n /\ disk'[d] = NoDir
                                              /\ d = thread[t].dir /\ At(t, "cleanup"))
      /\ NoDir.owner = 0 /\ ~NoDir.exists
  <2>1. NoDir \in Directory /\ NoDir.owner = 0 /\ ~NoDir.exists
    BY DEF NoDir, Directory
  <2>2. CASE UNCHANGED disk
    BY <2>1, <2>2, Types
  <2>3. CASE At(t, "cleanup") /\ disk' = [disk EXCEPT ![thread[t].dir] = NoDir]
    <3>1. ~At(t, "validate")
      BY <2>3 DEF At
    <3> QED
      BY <1>2, <2>1, <2>3, <3>1, Types
  <2> QED
    BY <2>2, <2>3
<1>6. TypeOK'
  BY <1>3, <1>5 DEF IInv, TypeOK
<1>7. \A u \in Thread : InHand(u)'
  <2>1. ASSUME NEW u \in Thread, u # t, Posts(u)
        PROVE  InHand(u)'
    <3>1. answer'[thread[u].request] = answer[thread[u].request]
      BY <1>2, <1>3, <2>1, Mine
    <3>2. \A d \in Dir : disk'[d] = disk[d] \/ (/\ disk[d].owner # thread[u].request
                                               /\ disk'[d].owner # thread[u].request)
      <4>1. thread[u].request # n /\ thread[u].request # 0
        BY <1>2, <2>1, Mine, Types
      <4> QED
        BY <1>5, <4>1
    <3> QED
      BY <1>3, <2>1, <3>1, <3>2, OthersKeepTheirs, Types
  <2> QED
    BY <1>4, <2>1 DEF InHand
<1>8. RequestsApart'
  BY <1>3, <1>4 DEF IInv, RequestsApart
<1>9. DirsApart'
  BY <1>5 DEF IInv, DirsApart
<1>10. DirsFit'
  <2>1. Validating' \subseteq Validating
    BY <1>3 DEF Validating, At
  <2> QED
    BY <2>1, FewerWait
<1>11. Asked'
  <2>1. n <= Len(requests)
    BY <1>2, Types
  <2> QED
    BY <1>3, <2>1, Types DEF IInv, Asked, Post
<1>12. ResultsAreOnesOwn'
  <2>1. ASSUME NEW m \in Post, m # n, answer[m] \in {"redirect", "expired"}
        PROVE  OwnResult(m)'
    <3>1. OwnResult(m) /\ \A d \in DirOf(m) : disk'[d] = disk[d]
      BY <1>5, <2>1, OwnResults DEF IInv, DirOf
    <3> QED
      BY <3>1, OwnResultsStay
  <2>2. ASSUME a = "redirect"
        PROVE  OwnResult(n)'
    <3>1. At(t, "redirect") /\ ~At(t, "cleanup") /\ ~At(t, "validate")
      BY <2>2 DEF At
    <3>2. OwnResult(n)
      <4>1. /\ disk[thread[t].dir].output = "complete" /\ disk[thread[t].dir].shows = {n}
            /\ disk[thread[t].dir].input = Files(n)
        BY <1>1, <3>1 DEF IInv, InHand, MyDir, At
      <4> QED
        BY <1>2, <3>1, <4>1 DEF OwnResult, DirOf
    <3> QED
      BY <1>5, <3>1, <3>2, OwnResultsStay DEF DirOf
  <2> QED
    BY <1>3, <2>1, <2>2, OwnResults
<1>13. WorkDirsAreAccountedFor'
  <2>1. ASSUME NEW d \in Dir, disk'[d].exists
        PROVE  \/ InProgress(disk[d].owner)'
               \/ answer'[disk'[d].owner] \in {"redirect", "expired", "bad_file", "server_error", "lost"}
    <3>1. disk'[d] = disk[d]
      BY <1>5, <2>1
    <3>2. disk[d].owner \in Post
      BY <2>1, <3>1, Types DEF IInv, DirsApart, NoDir
    <3>3. CASE disk[d].owner # n
      <4>1. InProgress(disk[d].owner) => InProgress(disk[d].owner)'
        BY <1>1, <1>3, <3>1, <3>3 DEF InProgress, Posting
      <4> QED
        BY <1>3, <2>1, <3>1, <3>2, <3>3, <4>1 DEF IInv, WorkDirsAreAccountedFor
    <3>4. CASE disk[d].owner = n
      <4>1. ~At(t, "validate")
        BY <1>1, <3>4 DEF IInv, InHand
      <4>2. CASE At(t, "cleanup") /\ disk' = [disk EXCEPT ![thread[t].dir] = NoDir]
        <5>1. d # thread[t].dir
          BY <1>2, <1>5, <2>1, <4>1, <4>2, Types
        <5> QED
          BY <1>2, <2>1, <3>1, <3>4, <4>1, <5>1 DEF IInv, DirsApart
      <4>3. CASE a \in {"redirect", "bad_file", "server_error"}
        BY <1>3, <3>1, <3>4, <4>3
      <4> QED
        BY <4>1, <4>2, <4>3
    <3> QED
      BY <3>3, <3>4
  <2> QED
    BY <2>1 DEF WorkDirsAreAccountedFor
<1>14. Registered'
  <2>1. ASSUME NEW w \in Worker, NEW d \in runs[w]
        PROVE  /\ disk'[d].exists
               /\ \/ answer'[disk'[d].owner] # "none"
                  \/ \E u \in Thread : At(u, "redirect")' /\ thread'[u].dir = d
    <3>1. /\ d \in Dir /\ disk[d].exists
          /\ \/ answer[disk[d].owner] # "none"
             \/ \E u \in Thread : At(u, "redirect") /\ thread[u].dir = d
      BY Types DEF IInv, Registered
    <3>2. disk'[d] = disk[d] /\ disk[d].owner \in Post
      <4>1. ~(d = thread[t].dir /\ At(t, "cleanup"))
        BY NotYetRegistered DEF At
      <4> QED
        BY <1>5, <3>1, <4>1, Types DEF IInv, DirsApart, NoDir
    <3>3. CASE answer[disk[d].owner] # "none"
      BY <1>3, <3>1, <3>2, <3>3
    <3>4. CASE \E u \in Thread : At(u, "redirect") /\ thread[u].dir = d /\ u # t
      BY <1>3, <3>1, <3>2, <3>4 DEF At
    <3>5. CASE At(t, "redirect") /\ thread[t].dir = d
      BY <1>2, <1>3, <3>1, <3>2, <3>5 DEF At
    <3> QED
      BY <3>1, <3>3, <3>4, <3>5
  <2> QED
    BY <2>1 DEF Registered
<1>15. Linked'
  <2>1. ASSUME NEW m \in Post, answer'[m] = "redirect", NEW d \in DirOf(m)'
        PROVE  \E w \in Worker : d \in runs[w]
    <3>1. d \in DirOf(m)
      BY <1>5, <2>1, Types DEF DirOf, Post
    <3>2. CASE m # n
      BY <1>3, <2>1, <3>1, <3>2 DEF IInv, Linked
    <3>3. CASE m = n
      <4>1. At(t, "redirect") /\ thread[t].dir \in runs[WorkerOf[t]] /\ WorkerOf[t] \in Worker
        BY <1>3, <2>1, <3>3, Types DEF IInv, InHand, At
      <4>2. ~At(t, "validate")
        BY <4>1 DEF At
      <4>3. disk[d].exists
        BY <3>1, Types DEF DirOf, IInv, DirsApart, NoDir, Post
      <4>4. d = thread[t].dir
        BY <1>2, <3>1, <3>3, <4>2, <4>3 DEF DirOf, IInv, DirsApart
      <4> QED
        BY <4>1, <4>4
    <3> QED
      BY <3>2, <3>3
  <2> QED
    BY <2>1 DEF Linked
<1>16. Visits'
  <2>1. ASSUME NEW u \in Thread, At(u, "page")'
        PROVE  /\ thread'[u].request \in Post /\ thread'[u].dir \in DirOf(thread[u].request)'
               /\ answer'[thread'[u].request] \in {"redirect", "expired"}
    <3>1. u # t /\ At(u, "page") /\ thread'[u] = thread[u]
      BY <1>3, <2>1 DEF At
    <3>2. /\ thread[u].request \in Post /\ thread[u].dir \in DirOf(thread[u].request)
          /\ answer[thread[u].request] \in {"redirect", "expired"}
      BY <3>1 DEF IInv, Visits
    <3>3. thread[u].request # n
      BY <1>2, <3>2
    <3> QED
      BY <1>3, <1>5, <3>1, <3>2, <3>3 DEF DirOf
  <2> QED
    BY <2>1 DEF IInv, Visits
<1> QED
  BY <1>6, <1>7, <1>8, <1>9, <1>10, <1>11, <1>12, <1>13, <1>14, <1>15, <1>16 DEF IInv

-----------------------------------------------------------------------------
(***************************************************************************)
(* A form arrives, and gets a directory.                                   *)
(***************************************************************************)
LEMMA Waiting ==
  /\ Validating \in SUBSET Post /\ Validating' \in SUBSET Post
  /\ IsFiniteSet(Validating) /\ IsFiniteSet(Validating')
  /\ Cardinality(Validating) \in Nat /\ Cardinality(Validating') \in Nat
<1>1. IsFiniteSet(Post)
  BY FS_Interval, PostAssumption DEF Post
<1>2. Validating \in SUBSET Post /\ Validating' \in SUBSET Post
  BY DEF Validating
<1> QED
  BY <1>1, <1>2, FS_Subset, FS_CardinalityType

LEMMA Arrives ==
  ASSUME IInv, NEW t \in Thread, NEW form \in Uploads, PostForm(t, form)
  PROVE  IInv'
<1>1. PICK n \in Post : n = Len(requests) + 1
  BY Types DEF PostForm, Post
<1>2. /\ At(t, "idle") /\ UNCHANGED <<answer, page, made, disk, runs>>
      /\ requests' = Append(requests, form)
      /\ thread' = [thread EXCEPT ![t] = [Idle EXCEPT !.step = "validate", !.request = n]]
  BY <1>1 DEF PostForm
<1>3. /\ requests' \in Seq(Uploads) /\ Len(requests') = n /\ n <= MaxPosts /\ n \in Nat
      /\ \A i \in 1..Len(requests) : requests'[i] = requests[i]
  BY <1>1, <1>2, Types DEF Post
<1>4. /\ \A u \in Thread : u # t => thread'[u] = thread[u]
      /\ thread'[t].step = "validate" /\ thread'[t].request = n /\ thread'[t].at = 1
      /\ thread' \in [Thread -> Activity]
  <2>1. [Idle EXCEPT !.step = "validate", !.request = n] \in Activity
    <3>2. 1 \in 1..(Len(SaveOrder) + 1)
      BY Types
    <3> QED
      BY <1>1, <3>2 DEF Idle, Activity, StepsOfPost
  <2> QED
    BY <1>2, <2>1, Types DEF Idle
<1>5. TypeOK'
  BY <1>2, <1>3, <1>4, Types DEF IInv, TypeOK
<1>6. /\ answer[n] = "none"
      /\ \A d \in Dir : disk[d].owner # n
      /\ \A u \in Thread : u # t /\ Posts(u) => thread[u].request # n
  <2>1. answer[n] = "none"
    BY <1>1, Types DEF IInv, Asked
  <2>2. \A d \in Dir : disk[d].owner # n
    BY <1>1, Types DEF IInv, DirsApart, NoDir
  <2>3. \A u \in Thread : u # t /\ Posts(u) => thread[u].request # n
    BY <1>1, Mine, Types
  <2> QED
    BY <2>1, <2>2, <2>3
<1>7. \A u \in Thread : InHand(u)'
  <2>1. ASSUME NEW u \in Thread, u # t, Posts(u)
        PROVE  InHand(u)'
    BY <1>1, <1>2, <1>3, <1>4, <2>1, OthersKeepTheirs, Types
  <2>2. InHand(t)'
    BY <1>2, <1>3, <1>4, <1>6 DEF InHand, At, MyDir
  <2>3. \A u \in Thread : u # t /\ ~Posts(u) => InHand(u)'
    BY <1>4 DEF InHand, Posts
  <2> QED
    BY <2>1, <2>2, <2>3
<1>8. RequestsApart'
  BY <1>4, <1>6 DEF IInv, RequestsApart, Posts
<1>9. DirsApart'
  BY <1>1, <1>2, <1>3, Types DEF IInv, DirsApart
<1>10. DirsFit'
  <2>1. Validating' \subseteq Validating \cup {n}
    BY <1>4 DEF Validating, At
  <2>2. /\ IsFiniteSet(Validating \cup {n})
        /\ Cardinality(Validating \cup {n}) <= Cardinality(Validating) + 1
    <3>1. /\ IsFiniteSet(Validating \cup {n})
          /\ Cardinality(Validating \cup {n})
               = IF n \in Validating THEN Cardinality(Validating) ELSE Cardinality(Validating) + 1
      BY Waiting, FS_AddElement
    <3>2. Cardinality(Validating) <= Cardinality(Validating) + 1
      BY Waiting
    <3> QED
      BY <3>1, <3>2, Waiting
  <2>3. Cardinality(Validating') <= Cardinality(Validating \cup {n})
    BY <2>1, <2>2, FS_Subset
  <2>4. Cardinality(Validating \cup {n}) \in Nat
    BY <2>2, FS_CardinalityType
  <2> QED
    BY <1>1, <1>2, <1>3, <2>2, <2>3, <2>4, Waiting, Types DEF IInv, DirsFit
<1>11. Asked'
  BY <1>1, <1>2, <1>3, Types DEF IInv, Asked, Post
<1>12. ResultsAreOnesOwn'
  <2>1. ASSUME NEW m \in Post, answer[m] \in {"redirect", "expired"}
        PROVE  OwnResult(m)'
    <3>1. OwnResult(m) /\ m \in 1..Len(requests)
      BY <2>1, OwnResults, Types DEF IInv, Asked, Post
    <3> QED
      BY <1>2, <1>3, <3>1, OwnResultsStay
  <2> QED
    BY <1>2, <2>1, OwnResults
<1>13. WorkDirsAreAccountedFor'
  <2>1. \A m : InProgress(m) => InProgress(m)'
    BY <1>2, <1>4 DEF InProgress, Posting, At
  <2> QED
    BY <1>2, <2>1 DEF IInv, WorkDirsAreAccountedFor
<1>14. Registered' /\ Linked' /\ Visits'
  <2>1. \A u \in Thread : At(u, "redirect") \/ At(u, "page")' => u # t /\ thread'[u] = thread[u]
    BY <1>2, <1>4 DEF At
  <2>2. Registered'
    BY <1>2, <2>1 DEF IInv, Registered, At
  <2>3. Linked'
    BY <1>2 DEF IInv, Linked, DirOf
  <2>4. Visits'
    BY <1>2, <2>1 DEF IInv, Visits, At, DirOf
  <2> QED
    BY <2>2, <2>3, <2>4
<1> QED
  BY <1>5, <1>7, <1>8, <1>9, <1>10, <1>11, <1>12, <1>13, <1>14 DEF IInv

LEMMA GetsDirectory ==
  ASSUME IInv, NEW t \in Thread, MakeWorkDir(t)
  PROVE  IInv'
<1> DEFINE D == [NoDir EXCEPT !.exists = TRUE, !.owner = thread[t].request]
<1>1. Posts(t) /\ At(t, "validate") /\ Mkdtemp = made + 1
  BY DEF MakeWorkDir, Posts, At, StepsOfPost, Mkdtemp
<1>2. PICK n \in Post, e \in Nat : n = thread[t].request /\ e = made + 1
  BY <1>1, Mine, Types
<1>3. /\ n \in 1..Len(requests) /\ answer[n] = "none"
      /\ \A u \in Thread : u # t /\ Posts(u) => thread[u].request # n
      /\ \A d \in Dir : disk[d].owner # n
  BY <1>1, <1>2, Mine DEF IInv, InHand
<1>4. n \in Validating /\ n \notin Validating'
  <2>1. \A u \in Thread : At(u, "validate")' => u # t /\ Posts(u) /\ thread'[u] = thread[u]
    BY <1>1, Types DEF MakeWorkDir, At, Posts, StepsOfPost
  <2> QED
    BY <1>1, <1>2, <1>3, <2>1 DEF Validating
<1>5. e \in Dir /\ made' = e /\ e <= Len(requests) /\ e + Cardinality(Validating') <= Len(requests)
  <2>1. Validating' \subseteq Validating \ {n}
    BY <1>1, <1>4, Types DEF Validating, MakeWorkDir, At
  <2>2. /\ IsFiniteSet(Validating \ {n})
        /\ Cardinality(Validating \ {n}) = Cardinality(Validating) - 1
    BY <1>4, Waiting, FS_RemoveElement
  <2>3. Cardinality(Validating') <= Cardinality(Validating) - 1
    BY <2>1, <2>2, FS_Subset
  <2>4. made + Cardinality(Validating) <= Len(requests)
    BY DEF IInv, DirsFit
  <2> QED
    BY <1>1, <1>2, <2>3, <2>4, Waiting, Types DEF MakeWorkDir, Dir
<1>6. /\ UNCHANGED <<requests, answer, page, runs>>
      /\ disk' = [disk EXCEPT ![e] = D]
      /\ thread' = [thread EXCEPT ![t].step = "save", ![t].dir = e]
  BY <1>1, <1>2 DEF MakeWorkDir
<1>7. /\ D \in Directory /\ D.exists /\ D.owner = n /\ D.input = {}
      /\ disk[e] = NoDir /\ ~NoDir.exists
  <2>1. D \in Directory /\ D.exists /\ D.owner = n /\ D.input = {} /\ ~NoDir.exists
    BY <1>2 DEF NoDir, Directory
  <2>2. disk[e] = NoDir
    BY <1>2, <1>5, Types DEF IInv, DirsApart
  <2> QED
    BY <2>1, <2>2
<1> HIDE DEF D
<1>8. /\ \A u \in Thread : u # t => thread'[u] = thread[u]
      /\ thread'[t].step = "save" /\ thread'[t].request = n /\ thread'[t].dir = e
      /\ thread'[t].at = thread[t].at
      /\ thread' \in [Thread -> Activity]
  <2>1. [thread[t] EXCEPT !.step = "save", !.dir = e] \in Activity
    BY <1>5, Types DEF Activity, StepsOfPost
  <2>2. thread' = [thread EXCEPT ![t] = [thread[t] EXCEPT !.step = "save", !.dir = e]]
    BY <1>6, Types
  <2>3. thread[t] \in Activity
    BY Types
  <2> QED
    BY <1>2, <2>1, <2>2, <2>3, Types DEF Activity
<1>9. /\ \A d \in Dir : d # e => disk'[d] = disk[d]
      /\ disk'[e] = D /\ disk' \in [Dir -> Directory]
  BY <1>5, <1>6, <1>7, Types
<1>10. TypeOK'
  BY <1>2, <1>5, <1>6, <1>8, <1>9, Types DEF IInv, TypeOK
<1>11. \A u \in Thread : InHand(u)'
  <2>1. ASSUME NEW u \in Thread, u # t, Posts(u)
        PROVE  InHand(u)'
    <3>1. disk[e].owner # thread[u].request /\ D.owner # thread[u].request
      BY <1>3, <1>7, <2>1, Mine, Types DEF NoDir
    <3>2. \A d \in Dir : disk'[d] = disk[d] \/ (/\ disk[d].owner # thread[u].request
                                               /\ disk'[d].owner # thread[u].request)
      BY <1>9, <3>1
    <3> QED
      BY <1>2, <1>5, <1>6, <1>8, <2>1, <3>2, OthersKeepTheirs, Types
  <2>2. InHand(t)'
    <3>1. FilesBefore(n, 1)' = {}
      BY DEF FilesBefore
    <3>2. thread'[t].at = 1
      BY <1>1, <1>8 DEF IInv, InHand
    <3>3. e \in 1..made' /\ made' \in Nat
      BY <1>2, <1>5, Types
    <3> QED
      BY <1>3, <1>6, <1>7, <1>8, <1>9, <3>1, <3>2, <3>3 DEF InHand, At, MyDir
  <2>3. \A u \in Thread : u # t /\ ~Posts(u) => InHand(u)'
    BY <1>8 DEF InHand, Posts
  <2> QED
    BY <2>1, <2>2, <2>3
<1>12. RequestsApart'
  BY <1>2, <1>3, <1>8 DEF IInv, RequestsApart, Posts
<1>13. DirsApart'
  <2>1. \A d \in Dir : d > made' => d # e /\ d > made
    BY <1>2, <1>5, Types DEF Dir
  <2>2. \A d \in Dir : d # e => disk[d].owner # n
    BY <1>3
  <2> QED
    BY <1>3, <1>6, <1>7, <1>9, <2>1, <2>2 DEF IInv, DirsApart
<1>14. DirsFit'
  BY <1>5, <1>6 DEF DirsFit
<1>15. Asked'
  BY <1>6 DEF IInv, Asked
<1>16. ResultsAreOnesOwn'
  <2>1. ASSUME NEW m \in Post, answer[m] \in {"redirect", "expired"}
        PROVE  OwnResult(m)'
    <3>1. OwnResult(m) /\ \A d \in DirOf(m) : disk[d].exists => disk'[d] = disk[d]
      BY <1>7, <1>9, <2>1, OwnResults DEF IInv, DirOf
    <3> QED
      BY <1>6, <3>1, OwnResultsStay
  <2> QED
    BY <1>6, <2>1, OwnResults
<1>17. WorkDirsAreAccountedFor'
  <2>1. \A m : InProgress(m) => InProgress(m)'
    BY <1>2, <1>8 DEF InProgress, Posting
  <2>2. InProgress(n)'
    BY <1>8 DEF InProgress, Posting
  <2> QED
    BY <1>6, <1>7, <1>9, <2>1, <2>2 DEF IInv, WorkDirsAreAccountedFor
<1>18. Registered' /\ Linked' /\ Visits'
  <2>1. \A u \in Thread : At(u, "redirect") \/ At(u, "page")' => u # t /\ thread'[u] = thread[u]
    BY <1>1, <1>8 DEF At
  <2>2. Registered'
    <3>1. ASSUME NEW w \in Worker, NEW d \in runs[w]
          PROVE  /\ disk'[d].exists
                 /\ \/ answer[disk'[d].owner] # "none"
                    \/ \E u \in Thread : At(u, "redirect")' /\ thread'[u].dir = d
      <4>1. d \in Dir /\ disk[d].exists
        BY Types DEF IInv, Registered
      <4>2. disk'[d] = disk[d]
        BY <1>7, <1>9, <4>1
      <4> QED
        BY <2>1, <4>1, <4>2 DEF IInv, Registered, At
    <3> QED
      BY <1>6, <3>1 DEF Registered
  <2>3. Linked'
    <3>1. ASSUME NEW m \in Post, answer[m] = "redirect", NEW d \in Dir, disk'[d].owner = m
          PROVE  d \in DirOf(m)
      BY <1>3, <1>7, <1>9, <3>1 DEF DirOf
    <3> QED
      BY <1>6, <3>1 DEF IInv, Linked, DirOf
  <2>4. Visits'
    <3>1. ASSUME NEW u \in Thread, At(u, "page")
          PROVE  disk'[thread[u].dir] = disk[thread[u].dir]
      BY <1>7, <1>9, <3>1, Types DEF IInv, Visits, DirOf, NoDir, Post
    <3>2. ASSUME NEW u \in Thread, At(u, "page")'
          PROVE  /\ thread'[u].request \in Post /\ thread'[u].dir \in DirOf(thread[u].request)'
                 /\ answer[thread'[u].request] \in {"redirect", "expired"}
      <4>1. thread'[u] = thread[u] /\ At(u, "page")
        BY <2>1, <3>2 DEF At
      <4> QED
        BY <3>1, <4>1 DEF IInv, Visits, DirOf
    <3> QED
      BY <1>6, <2>1, <3>2 DEF IInv, Visits, At
  <2> QED
    BY <2>2, <2>3, <2>4
<1> QED
  BY <1>10, <1>11, <1>12, <1>13, <1>14, <1>15, <1>16, <1>17, <1>18 DEF IInv

-----------------------------------------------------------------------------
(***************************************************************************)
(* A browser follows a link.                                               *)
(***************************************************************************)
LEMMA Looks ==
  ASSUME IInv, NEW t \in Thread, ~Posts(t),
         NEW activity \in Activity, activity.step \in {"idle", "page"},
         thread' = [thread EXCEPT ![t] = activity],
         activity.step = "page" =>
           /\ activity.request \in Post /\ activity.dir \in DirOf(activity.request)
           /\ answer[activity.request] \in {"redirect", "expired"},
         page' \in [Post -> {"none", "served", "not_found"}],
         UNCHANGED <<requests, answer, made, disk, runs>>
  PROVE  IInv'
<1>1. /\ \A u \in Thread : u # t => thread'[u] = thread[u]
      /\ thread'[t] = activity /\ thread' \in [Thread -> Activity]
  BY Types
<1>2. \A u \in Thread : /\ Posts(u)' <=> Posts(u)
                        /\ Posts(u) => u # t /\ thread'[u] = thread[u]
  BY <1>1 DEF Posts, StepsOfPost
<1>3. TypeOK'
  BY <1>1 DEF IInv, TypeOK
<1>4. \A u \in Thread : InHand(u)'
  <2>1. ASSUME NEW u \in Thread, Posts(u)
        PROVE  InHand(u)'
    <3>1. \A i \in 1..Len(requests) : requests'[i] = requests[i]
      OBVIOUS
    <3> QED
      BY <1>2, <2>1, <3>1, OthersKeepTheirs, Types
  <2> QED
    BY <1>2, <2>1 DEF InHand
<1>5. RequestsApart'
  BY <1>2 DEF IInv, RequestsApart
<1>6. DirsApart' /\ Asked'
  BY DEF IInv, DirsApart, Asked
<1>7. DirsFit'
  <2>1. Validating' \subseteq Validating
    BY <1>1 DEF Validating, At
  <2> QED
    BY <2>1, FewerWait
<1>8. ResultsAreOnesOwn'
  BY DEF IInv, ResultsAreOnesOwn, DirOf
<1>9. WorkDirsAreAccountedFor'
  <2>1. \A m : InProgress(m) => InProgress(m)'
    <3>1. \A u \in Thread : \A m : Posting(u, m) => Posting(u, m)'
      BY <1>2, Types DEF Posting, Posts, Activity
    <3> QED
      BY <3>1 DEF InProgress
  <2> QED
    BY <2>1 DEF IInv, WorkDirsAreAccountedFor
<1>10. Registered'
  <2>1. \A u \in Thread : At(u, "redirect") => thread'[u] = thread[u]
    BY <1>2 DEF At, Posts, StepsOfPost
  <2> QED
    BY <2>1 DEF IInv, Registered, At
<1>11. Linked'
  BY DEF IInv, Linked, DirOf
<1>12. Visits'
  BY <1>1 DEF IInv, Visits, At, DirOf
<1> QED
  BY <1>3, <1>4, <1>5, <1>6, <1>7, <1>8, <1>9, <1>10, <1>11, <1>12 DEF IInv

LEMMA Follows ==
  ASSUME IInv, NEW t \in Thread, NEW n \in Post, Visit(t, n)
  PROVE  IInv'
<1>1. PICK d \in DirOf(n) :
        IF d \in runs[WorkerOf[t]]
          THEN /\ thread' = [thread EXCEPT ![t] = [Idle EXCEPT !.step = "page",
                                                     !.request = n, !.dir = d]]
               /\ UNCHANGED page
          ELSE /\ page' = [page EXCEPT ![n] = "not_found"]
               /\ UNCHANGED thread
  BY DEF Visit
<1>2. /\ At(t, "idle") /\ ~Posts(t) /\ answer[n] \in {"redirect", "expired"} /\ d \in Dir
      /\ UNCHANGED <<requests, answer, made, disk, runs>>
  BY DEF Visit, At, Posts, StepsOfPost, DirOf
<1>3. page \in [Post -> {"none", "served", "not_found"}]
  <2>1. \A m \in Post : page[m] \in {"none", "served", "not_found"}
    BY Types DEF IInv, Visits
  <2> QED
    BY <2>1, Types
<1>4. page' \in [Post -> {"none", "served", "not_found"}]
  BY <1>1, <1>3
<1>5. CASE d \in runs[WorkerOf[t]]
  <2> DEFINE activity == [Idle EXCEPT !.step = "page", !.request = n, !.dir = d]
  <2>1. activity \in Activity /\ activity.step = "page" /\ activity.request = n /\ activity.dir = d
    <3>1. 1 \in 1..(Len(SaveOrder) + 1)
      BY Types
    <3> QED
      BY <1>2, <3>1 DEF Idle, Activity
  <2> HIDE DEF activity
  <2>2. thread' = [thread EXCEPT ![t] = activity]
    BY <1>1, <1>5 DEF activity
  <2> QED
    BY <1>2, <1>4, <2>1, <2>2, Looks
<1>6. CASE d \notin runs[WorkerOf[t]]
  <2>1. thread[t] \in Activity /\ thread[t].step = "idle" /\ thread' = [thread EXCEPT ![t] = thread[t]]
    BY <1>1, <1>2, <1>6, Types DEF At
  <2> QED
    BY <1>2, <1>4, <2>1, Looks
<1> QED
  BY <1>5, <1>6

\* The directory is there and complete, however long ago the run was.
LEMMA Serves ==
  ASSUME IInv, NEW t \in Thread, Serve(t)
  PROVE  IInv'
<1>1. /\ At(t, "page") /\ ~Posts(t)
      /\ thread' = [thread EXCEPT ![t] = Idle]
      /\ UNCHANGED <<requests, answer, made, disk, runs>>
  BY DEF Serve, At, Posts, StepsOfPost
<1>2. PICK n \in Post, d \in Dir :
        /\ n = thread[t].request /\ d = thread[t].dir /\ disk[d].owner = n
        /\ answer[n] \in {"redirect", "expired"}
  BY <1>1 DEF IInv, Visits, DirOf
<1>3. disk[d].exists /\ disk[d].output = "complete"
  <2>1. PICK e \in Dir : disk[e].owner = n /\ disk[e].exists /\ disk[e].output = "complete"
    BY <1>2, OwnResults DEF IInv, OwnResult, DirOf
  <2>2. disk[d].exists
    BY <1>2 DEF IInv, DirsApart, NoDir, Post
  <2> QED
    BY <1>2, <2>1, <2>2 DEF IInv, DirsApart
<1>4. page' = [page EXCEPT ![n] = "served"]
  BY <1>2, <1>3 DEF Serve, MyDir
<1>5. page' \in [Post -> {"none", "served", "not_found"}]
  <2>1. \A m \in Post : page[m] \in {"none", "served", "not_found"}
    BY Types DEF IInv, Visits
  <2> QED
    BY <1>4, <2>1, Types
<1>6. Idle \in Activity /\ Idle.step = "idle"
  BY Types DEF Idle, Activity
<1> QED
  BY <1>1, <1>5, <1>6, Looks

-----------------------------------------------------------------------------
(***************************************************************************)
(* A worker restarts.                                                      *)
(***************************************************************************)
LEMMA Restarts ==
  ASSUME IInv, NEW w \in Worker, Restart(w)
  PROVE  IInv'
<1>1. /\ \A t \in Thread : thread'[t] = IF WorkerOf[t] = w THEN Idle ELSE thread[t]
      /\ runs' = [runs EXCEPT ![w] = {}]
      /\ \A n \in Post : answer'[n] =
           IF answer[n] = "redirect" /\ DirOf(n) \cap runs[w] # {} THEN "expired"
           ELSE IF \E t \in Thread : WorkerOf[t] = w /\ Posting(t, n) THEN "lost"
           ELSE answer[n]
      /\ UNCHANGED <<requests, page, made, disk>>
      /\ Idle \in Activity /\ Idle.step = "idle"
  BY Types DEF Restart, Idle, Activity
<1>2. /\ \A v \in Worker : runs'[v] = IF v = w THEN {} ELSE runs[v]
      /\ runs' \in [Worker -> SUBSET Dir]
      /\ thread' \in [Thread -> Activity]
      /\ answer' \in [Post -> Answers]
  BY <1>1, Types DEF Restart, Answers
<1>3. \A t \in Thread : /\ Posts(t)' <=> Posts(t) /\ WorkerOf[t] # w
                        /\ Posts(t)' => thread'[t] = thread[t]
  BY <1>1 DEF Posts, StepsOfPost
<1>4. \A t \in Thread, n \in Post : Posting(t, n) <=> Posts(t) /\ thread[t].request = n
  BY Types DEF Posting, Posts, Activity, StepsOfPost
<1>5. \A n \in Post : answer[n] # "none" =>
        /\ answer'[n] # "none"
        /\ answer'[n] = answer[n] \/ (answer[n] = "redirect" /\ answer'[n] = "expired")
  BY <1>1, <1>4, Mine
<1>6. \A n \in Post : answer'[n] \in {"redirect", "expired"} => answer[n] \in {"redirect", "expired"}
  BY <1>1
<1>7. TypeOK'
  BY <1>1, <1>2 DEF IInv, TypeOK
<1>8. ASSUME NEW t \in Thread, Posts(t), WorkerOf[t] # w
      PROVE  InHand(t)'
  <2>1. thread[t].request \in Post /\ answer'[thread[t].request] = "none"
    BY <1>1, <1>4, <1>8, Mine
  <2>2. thread'[t] = thread[t] /\ runs'[WorkerOf[t]] = runs[WorkerOf[t]]
    BY <1>1, <1>2, <1>8, Types
  <2>3. answer'[thread[t].request] = answer[thread[t].request]
    BY <1>8, <2>1, Mine
  <2> QED
    BY <1>1, <1>8, <2>2, <2>3, OthersKeepTheirs, Types
<1>9. \A t \in Thread : InHand(t)'
  BY <1>3, <1>8 DEF InHand
<1>10. RequestsApart'
  BY <1>3 DEF IInv, RequestsApart
<1>11. DirsApart'
  BY <1>1 DEF IInv, DirsApart
<1>12. DirsFit'
  <2>1. Validating' \subseteq Validating
    BY <1>1 DEF Validating, At
  <2> QED
    BY <1>1, <2>1, FewerWait
<1>13. Asked'
  <2>1. \A n \in Post : n > Len(requests) => ~\E t \in Thread : Posting(t, n)
    BY <1>4, Mine, Types
  <2> QED
    BY <1>1, <2>1 DEF IInv, Asked
<1>14. ResultsAreOnesOwn'
  <2>1. ASSUME NEW m \in Post, answer[m] \in {"redirect", "expired"}
        PROVE  OwnResult(m)'
    BY <1>1, <2>1, OwnResults, OwnResultsStay DEF IInv
  <2> QED
    BY <1>6, <2>1, OwnResults
<1>15. WorkDirsAreAccountedFor'
  <2>1. ASSUME NEW d \in Dir, disk[d].exists
        PROVE  \/ InProgress(disk[d].owner)'
               \/ answer'[disk[d].owner] \in {"redirect", "expired", "bad_file", "server_error", "lost"}
    <3>1. PICK n \in Post : n = disk[d].owner
      BY <2>1, Types DEF IInv, DirsApart, NoDir
    <3>2. CASE answer[n] \in {"redirect", "expired", "bad_file", "server_error", "lost"}
      BY <1>5, <3>1, <3>2
    <3>3. CASE \E t \in Thread : Posting(t, n)
      <4>1. PICK t \in Thread : Posting(t, n)
        BY <3>3
      <4>2. CASE WorkerOf[t] = w
        <5>1. answer[n] = "none"
          BY <1>4, <4>1, Mine
        <5>2. answer'[n] = "lost"
          BY <1>1, <4>1, <4>2, <5>1
        <5> QED
          BY <3>1, <5>2
      <4>3. CASE WorkerOf[t] # w
        <5>1. thread'[t] = thread[t] /\ disk'[d].owner = n
          BY <1>1, <3>1, <4>3
        <5> QED
          BY <4>1, <5>1, <3>1 DEF InProgress, Posting
      <4> QED
        BY <4>2, <4>3
    <3> QED
      BY <2>1, <3>1, <3>2, <3>3 DEF IInv, WorkDirsAreAccountedFor, InProgress
  <2> QED
    BY <1>1, <2>1 DEF WorkDirsAreAccountedFor
<1>16. Registered'
  <2>1. ASSUME NEW v \in Worker, NEW d \in runs'[v]
        PROVE  /\ disk[d].exists
               /\ \/ answer'[disk[d].owner] # "none"
                  \/ \E t \in Thread : At(t, "redirect")' /\ thread'[t].dir = d
    <3>1. d \in runs[v] /\ d \in Dir /\ disk[d].exists
      BY <1>2, <2>1, Types DEF IInv, Registered
    <3>2. disk[d].owner \in Post
      BY <3>1, Types DEF IInv, DirsApart, NoDir
    <3>3. CASE answer[disk[d].owner] # "none"
      BY <1>5, <3>1, <3>2, <3>3
    <3>4. CASE \E t \in Thread : At(t, "redirect") /\ thread[t].dir = d
      <4>1. PICK t \in Thread : At(t, "redirect") /\ thread[t].dir = d
        BY <3>4
      <4>2. Posts(t) /\ ~At(t, "validate")
        BY <4>1 DEF At, Posts, StepsOfPost
      <4>3. thread[t].request = disk[d].owner /\ answer[disk[d].owner] = "none"
        BY <4>1, <4>2, Mine
      <4>4. CASE WorkerOf[t] = w
        <5>1. answer'[disk[d].owner] = "lost"
          BY <1>1, <1>4, <3>2, <4>2, <4>3, <4>4
        <5> QED
          BY <3>1, <5>1
      <4>5. CASE WorkerOf[t] # w
        BY <1>1, <3>1, <4>1, <4>5 DEF At
      <4> QED
        BY <4>4, <4>5
    <3> QED
      BY <3>1, <3>3, <3>4 DEF IInv, Registered
  <2> QED
    BY <1>1, <2>1 DEF Registered
<1>17. Linked'
  <2>1. ASSUME NEW n \in Post, answer'[n] = "redirect", NEW d \in DirOf(n)
        PROVE  \E v \in Worker : d \in runs'[v]
    <3>1. answer[n] = "redirect" /\ d \notin runs[w]
      BY <1>1, <2>1
    <3> QED
      BY <1>2, <2>1, <3>1 DEF IInv, Linked
  <2> QED
    BY <1>1, <2>1 DEF Linked, DirOf
<1>18. Visits'
  <2>1. ASSUME NEW t \in Thread, At(t, "page")'
        PROVE  /\ thread'[t].request \in Post /\ thread'[t].dir \in DirOf(thread[t].request)'
               /\ answer'[thread'[t].request] \in {"redirect", "expired"}
    <3>1. thread'[t] = thread[t] /\ At(t, "page")
      BY <1>1, <2>1 DEF At
    <3>2. /\ thread[t].request \in Post /\ thread[t].dir \in DirOf(thread[t].request)
          /\ answer[thread[t].request] \in {"redirect", "expired"}
      BY <3>1 DEF IInv, Visits
    <3> QED
      BY <1>1, <1>5, <3>1, <3>2 DEF DirOf
  <2> QED
    BY <1>1, <2>1 DEF IInv, Visits
<1> QED
  BY <1>7, <1>9, <1>10, <1>11, <1>12, <1>13, <1>14, <1>15, <1>16, <1>17, <1>18 DEF IInv

-----------------------------------------------------------------------------
(***************************************************************************)
(* The steps of run().                                                     *)
(***************************************************************************)
LEMMA SavedSoFar ==
  ASSUME NEW n, NEW k \in 1..Len(SaveOrder)
  PROVE  /\ FilesBefore(n, 1) = {}
         /\ FilesBefore(n, Len(SaveOrder) + 1) = Files(n)
         /\ requests[n].ext[SaveOrder[k]] = "none" => FilesBefore(n, k + 1) = FilesBefore(n, k)
         /\ requests[n].ext[SaveOrder[k]] # "none" =>
              FilesBefore(n, k + 1) = FilesBefore(n, k) \cup {<<n, SaveOrder[k]>>}
<1> DEFINE Kept(j) == {i \in 1..(j - 1) : requests[n].ext[SaveOrder[i]] # "none"}
<1>1. Len(SaveOrder) \in Nat /\ DOMAIN SaveOrder = 1..Len(SaveOrder)
  BY SaveAssumption
<1>2. Kept(1) = {}
  OBVIOUS
<1>3. (k + 1) - 1 = k /\ 1..k = (1..(k - 1)) \cup {k} /\ (Len(SaveOrder) + 1) - 1 = Len(SaveOrder)
  BY <1>1
<1>4. /\ requests[n].ext[SaveOrder[k]] = "none" => Kept(k + 1) = Kept(k)
      /\ requests[n].ext[SaveOrder[k]] # "none" => Kept(k + 1) = Kept(k) \cup {k}
  BY <1>3
<1>5. {SaveOrder[j] : j \in Kept(Len(SaveOrder) + 1)} = {name \in Name : requests[n].ext[name] # "none"}
  BY <1>1, <1>3 DEF Name
<1>6. FilesBefore(n, 1) = {}
  BY <1>2 DEF FilesBefore
<1>7. FilesBefore(n, Len(SaveOrder) + 1) = Files(n)
  BY <1>5 DEF FilesBefore, Files
<1>8. requests[n].ext[SaveOrder[k]] = "none" => FilesBefore(n, k + 1) = FilesBefore(n, k)
  BY <1>4 DEF FilesBefore
<1>9. ASSUME requests[n].ext[SaveOrder[k]] # "none"
      PROVE  FilesBefore(n, k + 1) = FilesBefore(n, k) \cup {<<n, SaveOrder[k]>>}
  <2> HIDE DEF Kept
  <2>1. {SaveOrder[j] : j \in Kept(k + 1)} = {SaveOrder[j] : j \in Kept(k)} \cup {SaveOrder[k]}
    BY <1>4, <1>9
  <2>2. \A S, x : {n} \X (S \cup {x}) = ({n} \X S) \cup {<<n, x>>}
    OBVIOUS
  <2> QED
    BY <2>1, <2>2 DEF FilesBefore, Kept
<1> QED
  BY <1>6, <1>7, <1>8, <1>9

LEMMA Refuses ==
  ASSUME IInv, NEW t \in Thread,
         \/ RejectForm(t) \/ RejectFile(t) \/ WriteFails(t) \/ RemoveWorkDir(t) \/ Redirect(t)
  PROVE  IInv'
<1>1. CASE RejectForm(t)
  <2>1. "form_error" \in Answers \ {"none", "expired"} /\ Posts(t)
    BY <1>1 DEF Answers, RejectForm, Posts, At, StepsOfPost
  <2> QED
    BY <1>1, <2>1, Replies DEF RejectForm
<1>2. CASE RejectFile(t)
  <2>1. "bad_file" \in Answers \ {"none", "expired"} /\ Posts(t)
    BY <1>2 DEF Answers, RejectFile, Saving, Posts, At, StepsOfPost
  <2> QED
    BY <1>2, <2>1, Replies DEF RejectFile
<1>3. CASE WriteFails(t)
  <2>1. "server_error" \in Answers \ {"none", "expired"} /\ Posts(t)
    BY <1>3 DEF Answers, WriteFails, Posts, At, StepsOfPost
  <2> QED
    BY <1>3, <2>1, Replies DEF WriteFails
<1>4. CASE RemoveWorkDir(t)
  <2>1. "pipeline_error" \in Answers \ {"none", "expired"} /\ Posts(t)
    BY <1>4 DEF Answers, RemoveWorkDir, Posts, At, StepsOfPost
  <2> QED
    BY <1>4, <2>1, Replies DEF RemoveWorkDir
<1>5. CASE Redirect(t)
  <2>1. "redirect" \in Answers \ {"none", "expired"} /\ Posts(t)
    BY <1>5 DEF Answers, Redirect, Posts, At, StepsOfPost
  <2> QED
    BY <1>5, <2>1, Replies DEF Redirect
<1> QED
  BY <1>1, <1>2, <1>3, <1>4, <1>5

LEMMA Saves ==
  ASSUME IInv, NEW t \in Thread, SkipFile(t) \/ SaveFile(t) \/ WriteConfig(t)
  PROVE  IInv'
<1>1. At(t, "save") /\ Posts(t) /\ ~At(t, "validate") /\ ~At(t, "redirect")
  BY DEF SkipFile, SaveFile, Saving, WriteConfig, At, Posts, StepsOfPost
<1>2. PICK n \in Post, e \in Dir : n = thread[t].request /\ e = thread[t].dir
  BY <1>1, Mine
<1>3. /\ n \in 1..Len(requests) /\ answer[n] = "none" /\ e \in 1..made
      /\ disk[e].exists /\ disk[e].owner = n /\ disk[e] \in Directory
      /\ thread[t] \in Activity
  BY <1>1, <1>2, Mine
<1>4. PICK k \in 1..(Len(SaveOrder) + 1) : k = thread[t].at
  BY <1>3 DEF Activity
<1>5. disk[e].input = FilesBefore(n, k)
  BY <1>1, <1>2, <1>4 DEF IInv, InHand, MyDir
<1>6. /\ UNCHANGED <<requests, answer, page, made, runs>>
      /\ \A m, j : FilesBefore(m, j)' = FilesBefore(m, j) /\ Files(m)' = Files(m)
  BY DEF SkipFile, SaveFile, WriteConfig, FilesBefore, Files
<1>7. disk = [disk EXCEPT ![e] = disk[e]]
  BY Types
<1>8. CASE k <= Len(SaveOrder) /\ (SkipFile(t) \/ SaveFile(t))
  <2>1. k \in 1..Len(SaveOrder) /\ k + 1 \in 1..(Len(SaveOrder) + 1) /\ SaveOrder[k] \in Name
    BY <1>8, SaveAssumption DEF Name
  <2>2. thread' = [thread EXCEPT ![t] = [thread[t] EXCEPT !.step = "save", !.at = k + 1]]
    <3>1. thread' = [thread EXCEPT ![t] = [thread[t] EXCEPT !.at = k + 1]]
      BY <1>4, <1>8, Types DEF SkipFile, SaveFile
    <3>2. [thread[t] EXCEPT !.at = k + 1] = [thread[t] EXCEPT !.step = "save", !.at = k + 1]
      BY <1>1, <1>3 DEF At, Activity
    <3> QED
      BY <3>1, <3>2
  <2>3. PICK D \in Directory :
          /\ disk' = [disk EXCEPT ![e] = D]
          /\ D.exists /\ D.owner = n /\ D.input = FilesBefore(n, k + 1)
    <3>1. CASE SkipFile(t)
      <4>1. requests[n].ext[SaveOrder[k]] = "none" /\ disk' = disk
        BY <1>2, <1>4, <3>1 DEF SkipFile, Extension, Form
      <4> QED
        BY <1>3, <1>5, <1>7, <2>1, <4>1, SavedSoFar
    <3>2. CASE SaveFile(t)
      <4> DEFINE D == [disk[e] EXCEPT !.input = @ \cup {<<n, SaveOrder[k]>>}]
      <4>1. requests[n].ext[SaveOrder[k]] # "none" /\ disk' = [disk EXCEPT ![e] = D]
        BY <1>2, <1>4, <3>2, Types DEF SaveFile, Extension, Form
      <4>2. D \in Directory /\ D.exists /\ D.owner = n /\ D.input = disk[e].input \cup {<<n, SaveOrder[k]>>}
        BY <1>3, <2>1 DEF Directory
      <4>3. FilesBefore(n, k + 1) = FilesBefore(n, k) \cup {<<n, SaveOrder[k]>>}
        BY <2>1, <4>1, SavedSoFar
      <4> HIDE DEF D
      <4> QED
        BY <1>5, <4>1, <4>2, <4>3
    <3> QED
      BY <1>8, <3>1, <3>2
  <2>4. /\ thread'[t].step = "save" /\ thread'[t].request = n /\ thread'[t].dir = e
        /\ thread'[t].at = k + 1 /\ disk'[e] = D
    BY <1>2, <1>3, <2>2, <2>3, Types DEF Activity
  <2>5. InHand(t)'
    BY <1>3, <1>6, <2>3, <2>4 DEF InHand, At, MyDir
  <2>6. "save" \in StepsOfPost \ {"validate"} /\ "save" # "redirect"
    BY DEF StepsOfPost
  <2> QED
    BY <1>1, <1>2, <1>6, <2>1, <2>2, <2>3, <2>5, <2>6, Works, Types
<1>9. CASE k = Len(SaveOrder) + 1 /\ WriteConfig(t)
  <2>1. thread' = [thread EXCEPT ![t] = [thread[t] EXCEPT !.step = "pipeline", !.at = k]]
    BY <1>4, <1>9, Types DEF WriteConfig, Goto, Activity
  <2>2. disk' = disk /\ disk[e].input = Files(n)
    <3>1. 1 \in 1..Len(SaveOrder)
      BY Types
    <3>2. FilesBefore(n, Len(SaveOrder) + 1) = Files(n)
      BY <3>1, SavedSoFar
    <3> QED
      BY <1>5, <1>9, <3>2 DEF WriteConfig
  <2>3. thread'[t].step = "pipeline" /\ thread'[t].request = n /\ thread'[t].dir = e
    BY <1>2, <1>3, <2>1, Types DEF Activity
  <2>4. InHand(t)'
    BY <1>3, <1>6, <2>2, <2>3 DEF InHand, At, MyDir
  <2>5. "pipeline" \in StepsOfPost \ {"validate"}
    BY DEF StepsOfPost
  <2> QED
    BY <1>1, <1>2, <1>3, <1>6, <1>7, <2>1, <2>2, <2>4, <2>5, Works, Types
<1>10. \/ k <= Len(SaveOrder) /\ (SkipFile(t) \/ SaveFile(t))
       \/ k = Len(SaveOrder) + 1 /\ WriteConfig(t)
  BY <1>4, Types DEF SkipFile, SaveFile, WriteConfig, Saving
<1> QED
  BY <1>8, <1>9, <1>10

LEMMA Runs ==
  ASSUME IInv, NEW t \in Thread,
         PipelineWrites(t) \/ PipelineReturns(t) \/ PipelineRaises(t) \/ Publish(t)
  PROVE  IInv'
<1>1. /\ thread[t].step \in {"pipeline", "writing", "publish"}
      /\ Posts(t) /\ ~At(t, "validate") /\ ~At(t, "redirect")
  BY DEF PipelineWrites, PipelineReturns, PipelineRaises, Publish, At, Posts, StepsOfPost
<1>2. PICK n \in Post, e \in Dir : n = thread[t].request /\ e = thread[t].dir
  BY <1>1, Mine
<1>3. /\ n \in 1..Len(requests) /\ answer[n] = "none" /\ e \in 1..made
      /\ disk[e].exists /\ disk[e].owner = n /\ disk[e] \in Directory
      /\ thread[t] \in Activity /\ thread[t].at \in 1..(Len(SaveOrder) + 1)
  BY <1>1, <1>2, Mine DEF Activity
<1>4. /\ disk[e].input = Files(n)
      /\ At(t, "publish") => disk[e].output = "complete" /\ disk[e].shows = {n}
  BY <1>1, <1>2 DEF IInv, InHand, MyDir, At
<1>5. /\ UNCHANGED <<requests, answer, page, made>>
      /\ Files(n)' = Files(n)
  BY DEF PipelineWrites, PipelineReturns, PipelineRaises, Publish, Files
<1>6. \A step \in StepsOfPost : Goto(t, step) =>
        /\ thread' = [thread EXCEPT ![t] = [thread[t] EXCEPT !.step = step, !.at = thread[t].at]]
        /\ thread'[t].step = step /\ thread'[t].request = n /\ thread'[t].dir = e
  <2>1. ASSUME NEW step \in StepsOfPost, Goto(t, step)
        PROVE  /\ thread' = [thread EXCEPT ![t] = [thread[t] EXCEPT !.step = step, !.at = thread[t].at]]
               /\ thread'[t].step = step /\ thread'[t].request = n /\ thread'[t].dir = e
    <3>1. thread' = [thread EXCEPT ![t] = [thread[t] EXCEPT !.step = step]]
      BY <2>1 DEF Goto
    <3>2. [thread[t] EXCEPT !.step = step] = [thread[t] EXCEPT !.step = step, !.at = thread[t].at]
      BY <1>3 DEF Activity
    <3>3. thread'[t] = [thread[t] EXCEPT !.step = step]
      BY <3>1, Types
    <3>4. thread'[t].step = step /\ thread'[t].request = n /\ thread'[t].dir = e
      BY <1>2, <1>3, <3>3 DEF Activity
    <3> QED
      BY <3>1, <3>2, <3>4
  <2> QED
    BY <2>1
<1>7. disk = [disk EXCEPT ![e] = disk[e]]
  BY Types
<1>8. {"writing", "publish", "cleanup", "redirect"} \subseteq StepsOfPost \ {"validate"}
  BY DEF StepsOfPost
<1>9. CASE PipelineWrites(t)
  <2> DEFINE D == [disk[e] EXCEPT !.output = "partial"]
  <2>1. D \in Directory /\ D.exists /\ D.owner = n /\ D.input = disk[e].input
    BY <1>3 DEF Directory
  <2>2. disk' = [disk EXCEPT ![e] = D] /\ UNCHANGED runs /\ Goto(t, "writing")
    BY <1>2, <1>9, Types DEF PipelineWrites
  <2> HIDE DEF D
  <2>3. InHand(t)'
    <3>1. thread'[t].step = "writing" /\ thread'[t].request = n /\ thread'[t].dir = e /\ disk'[e] = D
      BY <1>6, <1>8, <2>2, Types
    <3> QED
      BY <1>3, <1>4, <1>5, <2>1, <3>1 DEF InHand, At, MyDir
  <2> QED
    BY <1>1, <1>2, <1>3, <1>5, <1>6, <1>8, <2>1, <2>2, <2>3, Works, Types
<1>10. CASE PipelineReturns(t)
  <2> DEFINE D == [disk[e] EXCEPT !.output = "complete", !.shows = {n}]
  <2>1. {file[1] : file \in disk[e].input} = {n}
    <3>1. \A file \in disk[e].input : file[1] = n
      BY <1>4 DEF Files
    <3>2. \E file \in disk[e].input : TRUE
      <4>1. Provided(e) = Name /\ SaveOrder[1] \in Name
        BY <1>2, <1>10, Types, SaveAssumption DEF PipelineReturns, Succeeds, Name
      <4> QED
        BY <4>1 DEF Provided
    <3> QED
      BY <3>1, <3>2
  <2>2. /\ D \in Directory /\ D.exists /\ D.owner = n /\ D.input = disk[e].input
        /\ D.output = "complete" /\ D.shows = {n}
    BY <1>3 DEF Directory
  <2>3. disk' = [disk EXCEPT ![e] = D] /\ UNCHANGED runs /\ Goto(t, "publish")
    BY <1>2, <1>10, <2>1, Types DEF PipelineReturns, MyDir
  <2> HIDE DEF D
  <2>4. InHand(t)'
    <3>1. thread'[t].step = "publish" /\ thread'[t].request = n /\ thread'[t].dir = e /\ disk'[e] = D
      BY <1>6, <1>8, <2>3, Types
    <3> QED
      BY <1>3, <1>4, <1>5, <2>2, <3>1 DEF InHand, At, MyDir
  <2> QED
    BY <1>1, <1>2, <1>3, <1>5, <1>6, <1>8, <2>2, <2>3, <2>4, Works, Types
<1>11. CASE PipelineRaises(t)
  <2>1. UNCHANGED <<disk, runs>> /\ Goto(t, "cleanup")
    BY <1>11 DEF PipelineRaises
  <2>2. InHand(t)'
    BY <1>3, <1>4, <1>5, <1>6, <1>8, <2>1, Types DEF InHand, At, MyDir
  <2> QED
    BY <1>1, <1>2, <1>3, <1>5, <1>6, <1>7, <1>8, <2>1, <2>2, Works, Types
<1>12. CASE Publish(t)
  <2>1. /\ At(t, "publish") /\ UNCHANGED disk /\ Goto(t, "redirect")
        /\ runs' = [runs EXCEPT ![WorkerOf[t]] = @ \cup {e}]
    BY <1>2, <1>12 DEF Publish
  <2>2. /\ runs' \in [Worker -> SUBSET Dir] /\ e \in runs'[WorkerOf[t]]
        /\ \A w \in Worker : runs[w] \subseteq runs'[w]
        /\ \A w \in Worker : runs'[w] # runs[w] => runs'[w] = runs[w] \cup {e}
    BY <2>1, Types
  <2>3. InHand(t)'
    BY <1>3, <1>4, <1>5, <1>6, <1>8, <2>1, <2>2, Types DEF InHand, At, MyDir
  <2> QED
    BY <1>1, <1>2, <1>3, <1>5, <1>6, <1>7, <1>8, <2>1, <2>2, <2>3, Works, Types
<1> QED
  BY <1>9, <1>10, <1>11, <1>12

LEMMA StartsRight ==
  ASSUME Init
  PROVE  IInv
<1>1. /\ MaxPosts \in Nat /\ Len(requests) = 0 /\ requests \in Seq(Uploads)
      /\ 1 \in 1..(Len(SaveOrder) + 1) /\ 1..Len(requests) = {}
  BY PostAssumption, SaveAssumption DEF Init
<1>2. Idle \in Activity /\ NoDir \in Directory /\ Idle.step = "idle"
      /\ ~NoDir.exists /\ NoDir.owner = 0
  BY <1>1 DEF Idle, Activity, NoDir, Directory
<1>3. TypeOK
  BY <1>1, <1>2 DEF Init, TypeOK, Answers
<1>4. \A t \in Thread : thread[t].step = "idle"
  BY <1>2 DEF Init
<1>5. /\ \A t \in Thread : InHand(t)
      /\ RequestsApart
  BY <1>4 DEF InHand, RequestsApart, Posts, StepsOfPost
<1>6. DirsApart
  BY <1>2 DEF Init, DirsApart
<1>7. DirsFit
  <2>1. Validating = {}
    BY <1>4 DEF Validating, At
  <2> QED
    BY <1>1, <2>1, FS_EmptySet DEF Init, DirsFit
<1>8. Asked /\ ResultsAreOnesOwn /\ Linked /\ Registered
  BY DEF Init, Asked, ResultsAreOnesOwn, Linked, Registered
<1>9. WorkDirsAreAccountedFor /\ Visits
  BY <1>2, <1>4 DEF Init, WorkDirsAreAccountedFor, Visits, At
<1> QED
  BY <1>3, <1>5, <1>6, <1>7, <1>8, <1>9 DEF IInv

-----------------------------------------------------------------------------
\* Directories are kept apart through every interleaving of requests, failures and restarts.
THEOREM Invariance == Spec => []IInv
<1>1. Init => IInv
  BY StartsRight
<1>2. IInv /\ [Next]_vars => IInv'
  <2> SUFFICES ASSUME IInv, [Next]_vars
               PROVE  IInv'
    OBVIOUS
  <2>1. CASE \E t \in Thread : \E u \in Uploads : PostForm(t, u)
    BY <2>1, Arrives
  <2>2. CASE \E t \in Thread : MakeWorkDir(t)
    BY <2>2, GetsDirectory
  <2>3. CASE \E t \in Thread : SkipFile(t) \/ SaveFile(t) \/ WriteConfig(t)
    BY <2>3, Saves
  <2>4. CASE \E t \in Thread :
               PipelineWrites(t) \/ PipelineReturns(t) \/ PipelineRaises(t) \/ Publish(t)
    BY <2>4, Runs
  <2>5. CASE \E t \in Thread :
               \/ RejectForm(t) \/ RejectFile(t) \/ WriteFails(t) \/ RemoveWorkDir(t) \/ Redirect(t)
    BY <2>5, Refuses
  <2>6. CASE \E t \in Thread : \E n \in Post : Visit(t, n)
    BY <2>6, Follows
  <2>7. CASE \E t \in Thread : Serve(t)
    BY <2>7, Serves
  <2>8. CASE \E w \in Worker : Restart(w)
    BY <2>8, Restarts
  <2>9. CASE UNCHANGED vars
    <3>1. TypeOK' /\ \A t \in Thread : InHand(t)'
      BY <2>9 DEF vars, IInv, TypeOK, InHand, At, Posts, MyDir, Files, FilesBefore
    <3>2. RequestsApart' /\ DirsApart' /\ DirsFit' /\ Asked'
      BY <2>9 DEF vars, IInv, RequestsApart, DirsApart, DirsFit, Validating, Asked, At, Posts
    <3>3. ResultsAreOnesOwn' /\ WorkDirsAreAccountedFor'
      BY <2>9 DEF vars, IInv, ResultsAreOnesOwn, WorkDirsAreAccountedFor, InProgress, Posting, DirOf
    <3>4. Registered' /\ Linked' /\ Visits'
      BY <2>9 DEF vars, IInv, Registered, Linked, Visits, DirOf, At
    <3> QED
      BY <3>1, <3>2, <3>3, <3>4 DEF IInv
  <2> QED
    BY <2>1, <2>2, <2>3, <2>4, <2>5, <2>6, <2>7, <2>8, <2>9 DEF Next, Handle
<1> QED
  BY <1>1, <1>2, PTL DEF Spec

\* Types, and no more directories are made than forms have come.
THEOREM TypesHold == Spec => []TypeOK
<1>1. IInv => TypeOK
  BY DEF IInv
<1> QED
  BY <1>1, Invariance, PTL

\* However requests interleave, a results link shows the files of its own form and all of them.
THEOREM NobodySeesAnothersBooks == Spec => []ResultsAreOnesOwn
<1>1. IInv => ResultsAreOnesOwn
  BY DEF IInv
<1> QED
  BY <1>1, Invariance, PTL

\* A work directory that is left belongs to a form in progress, to a link, or to one of the
\* three ways out of run() that skip the clean-up.
THEOREM NothingIsLeftBehind == Spec => []WorkDirsAreAccountedFor
<1>1. IInv => WorkDirsAreAccountedFor
  BY DEF IInv
<1> QED
  BY <1>1, Invariance, PTL

\* Once in _RUNS, a directory is nobody's to write or remove.
THEOREM RunsStayAsTheyAre == Spec => RegisteredRunsAreImmutable
<1>1. ASSUME IInv, Next, NEW w \in Worker, NEW d \in runs[w]
      PROVE  disk'[d] = disk[d]
  <2>1. d \in Dir /\ disk[d].exists
    BY <1>1, Types DEF IInv, Registered
  <2>2. ASSUME NEW t \in Thread, MakeWorkDir(t)
        PROVE  disk'[d] = disk[d]
    <3>1. d # made + 1
      BY <1>1, <2>1, Types DEF IInv, DirsApart, NoDir
    <3> QED
      BY <1>1, <2>1, <2>2, <3>1, Types DEF MakeWorkDir, Mkdtemp
  <2>3. ASSUME NEW t \in Thread,
               SaveFile(t) \/ PipelineWrites(t) \/ PipelineReturns(t) \/ RemoveWorkDir(t)
        PROVE  disk'[d] = disk[d]
    <3>1. Posts(t) /\ ~At(t, "validate") /\ ~At(t, "redirect")
      BY <2>3 DEF SaveFile, Saving, PipelineWrites, PipelineReturns, RemoveWorkDir, Posts, At, StepsOfPost
    <3>2. d # thread[t].dir
      BY <1>1, <3>1, NotYetRegistered
    <3> QED
      BY <1>1, <2>1, <2>3, <3>2, Types DEF SaveFile, PipelineWrites, PipelineReturns, RemoveWorkDir
  <2>4. \/ UNCHANGED disk
        \/ \E t \in Thread : \/ MakeWorkDir(t) \/ SaveFile(t) \/ PipelineWrites(t)
                             \/ PipelineReturns(t) \/ RemoveWorkDir(t)
    BY <1>1 DEF Next, Handle, PostForm, RejectForm, SkipFile, RejectFile, WriteConfig, WriteFails,
                PipelineRaises, Publish, Redirect, Visit, Serve, Restart
  <2> QED
    BY <2>2, <2>3, <2>4
<1>2. IInv /\ [Next]_vars => [\A w \in Worker : \A d \in runs[w] : disk'[d] = disk[d]]_vars
  BY <1>1
<1> QED
  BY <1>2, Invariance, PTL DEF Spec, RegisteredRunsAreImmutable

(***************************************************************************)
(* With one worker, the _RUNS that a visitor's thread looks into is the    *)
(* one the run was entered in.                                             *)
(***************************************************************************)
LEMMA ExpiredForGood ==
  ASSUME IInv, [Next]_vars, NEW n \in Post, answer[n] = "expired"
  PROVE  answer'[n] = "expired"
<1>1. ASSUME NEW t \in Thread, Posts(t), NEW a, Reply(t, a)
      PROVE  answer'[n] = "expired"
  BY <1>1, Mine, Types DEF Reply
<1>2. ASSUME NEW w \in Worker, Restart(w)
      PROVE  answer'[n] = "expired"
  <2>1. \A t \in Thread : ~Posting(t, n)
    BY Mine, Types DEF Posting, Posts, Activity, StepsOfPost
  <2> QED
    BY <1>2, <2>1 DEF Restart
<1>3. \/ UNCHANGED answer
      \/ \E t \in Thread : Posts(t) /\ \E a : Reply(t, a)
      \/ \E w \in Worker : Restart(w)
  <2>1. \A t \in Thread :
          RejectForm(t) \/ RejectFile(t) \/ WriteFails(t) \/ RemoveWorkDir(t) \/ Redirect(t)
            => Posts(t) /\ \E a : Reply(t, a)
    BY DEF RejectForm, RejectFile, Saving, WriteFails, RemoveWorkDir, Redirect, Posts, At, StepsOfPost
  <2> QED
    BY <2>1 DEF Next, Handle, PostForm, MakeWorkDir, SkipFile, SaveFile, WriteConfig,
                PipelineWrites, PipelineReturns, PipelineRaises, Publish, Visit, Serve, vars
<1> QED
  BY <1>1, <1>2, <1>3

LEMMA OnlyVisitsLookUp ==
  ASSUME IInv, [Next]_vars, NEW n \in Post, page[n] # "not_found", page'[n] = "not_found"
  PROVE  \E t \in Thread : \E m \in Post : Visit(t, m) /\ UNCHANGED answer
<1>1. ASSUME NEW t \in Thread, Serve(t)
      PROVE  FALSE
  BY <1>1, Types DEF Serve
<1>2. UNCHANGED page \/ (\E t \in Thread : Serve(t)) \/ \E t \in Thread : \E m \in Post : Visit(t, m)
  BY DEF Next, Handle, PostForm, RejectForm, MakeWorkDir, SkipFile, RejectFile, SaveFile, WriteConfig,
         WriteFails, PipelineWrites, PipelineReturns, PipelineRaises, RemoveWorkDir, Publish,
         Redirect, Restart, vars
<1> QED
  BY <1>1, <1>2 DEF Visit

OneWorker == \A v, w \in Worker : v = w

\* With one worker, the link of the redirect leads to the results until the worker restarts.
THEOREM LinksLeadToResults == OneWorker => (Spec => []LinksWork)
<1> SUFFICES ASSUME OneWorker
             PROVE  Spec => []LinksWork
  OBVIOUS
<1>1. Init => LinksWork
  BY DEF Init, LinksWork
<1>2. ASSUME IInv, IInv', LinksWork, [Next]_vars
      PROVE  LinksWork'
  <2>1. ASSUME NEW n \in Post, page'[n] = "not_found"
        PROVE  answer'[n] = "expired"
    <3>1. CASE page[n] = "not_found"
      <4>1. answer[n] = "expired"
        BY <1>2, <3>1 DEF LinksWork
      <4> QED
        BY <1>2, <4>1, ExpiredForGood
    <3>2. CASE page[n] # "not_found"
      <4>1. PICK t \in Thread, m \in Post : Visit(t, m) /\ UNCHANGED answer
        BY <1>2, <2>1, <3>2, OnlyVisitsLookUp
      <4>2. page' = [page EXCEPT ![m] = "not_found"] /\ m = n
        BY <2>1, <3>2, <4>1, <1>2, Types DEF Visit
      <4>3. PICK d \in DirOf(n) : d \notin runs[WorkerOf[t]]
        BY <2>1, <3>2, <4>1, <4>2 DEF Visit
      <4>4. answer[n] # "redirect"
        BY <1>2, <4>3, Types DEF IInv, Linked, OneWorker
      <4> QED
        BY <4>1, <4>2, <4>4 DEF Visit
    <3> QED
      BY <3>1, <3>2
  <2> QED
    BY <1>2, <2>1 DEF IInv, LinksWork, Visits
<1> QED
  BY <1>1, <1>2, Invariance, PTL DEF Spec
=============================================================================
