------------------------------- MODULE WebApp -------------------------------
(***************************************************************************)
(* app.py: the web application.  Threads of one or more worker processes   *)
(* serve requests.  POST /run saves the uploads in a work directory of its *)
(* own, runs the pipeline on them and enters the result in _RUNS, the      *)
(* registry of the worker; the browser is sent to /results/<run_id>, which *)
(* any worker may be asked for.  A worker that restarts (a crash, the      *)
(* timeout of gunicorn, a deployment) loses its threads and its registry;  *)
(* the work directories stay in the temporary directory of the machine.    *)
(*                                                                         *)
(* run_pipeline appears only as what the handler sees of it (module        *)
(* Pipeline has the rest): it reads the input directory, writes into the   *)
(* output directory, and returns when that is complete or raises.  A run   *)
(* id is drawn at random and stands for its output directory, so the model *)
(* uses the number of the directory for both.                              *)
(***************************************************************************)
EXTENDS Integers, Sequences, FiniteSets

CONSTANTS
  Worker,        \* worker processes
  Thread,        \* threads, of all workers
  WorkerOf,      \* the worker a thread belongs to
  Required,      \* data sets the form requires
  SaveOrder,     \* all_datasets, in the order in which they are saved
  Uploads,       \* the forms a browser may post
  MaxPosts       \* bound: number of forms posted

Name == {SaveOrder[i] : i \in DOMAIN SaveOrder}

(***************************************************************************)
(* A form: are the text fields filled in, is the date one, which files     *)
(* come with it ("table" stands for .csv and .xlsx), and would the         *)
(* pipeline accept their contents?                                         *)
(***************************************************************************)
Upload == [filled : BOOLEAN, dated : BOOLEAN, sound : BOOLEAN,
           ext : [Name -> {"none", "table", "other"}]]

ASSUME ThreadAssumption == WorkerOf \in [Thread -> Worker]
ASSUME SaveAssumption == SaveOrder \in Seq(STRING) /\ SaveOrder # <<>> /\ Required \subseteq Name
ASSUME UploadAssumption == Uploads \subseteq Upload
ASSUME PostAssumption == MaxPosts \in Nat

Dir == 1..MaxPosts
Post == 1..MaxPosts

VARIABLES
  requests,      \* the forms posted so far
  answer,        \* what the browser was told, per form
  page,          \* what the last visit of a form's results link was told
  thread,        \* what each thread is doing
  made,          \* work directories made so far
  disk,          \* the work directories
  runs           \* _RUNS, per worker

vars == <<requests, answer, page, thread, made, disk, runs>>

Idle == [step |-> "idle", request |-> 0, dir |-> 0, at |-> 1]
\* A directory that is not there.
NoDir == [exists |-> FALSE, owner |-> 0, input |-> {}, output |-> "none", shows |-> {}]

Init ==
  /\ requests = <<>>
  /\ answer = [n \in Post |-> "none"]
  /\ page = [n \in Post |-> "none"]
  /\ thread = [t \in Thread |-> Idle]
  /\ made = 0
  /\ disk = [d \in Dir |-> NoDir]
  /\ runs = [w \in Worker |-> {}]

At(t, step) == thread[t].step = step
Form(t) == requests[thread[t].request]
MyDir(t) == disk[thread[t].dir]

Goto(t, step) == thread' = [thread EXCEPT ![t].step = step]
\* The handler returns: the thread is free for another request.
Reply(t, a) == /\ thread' = [thread EXCEPT ![t] = Idle]
               /\ answer' = [answer EXCEPT ![thread[t].request] = a]

-----------------------------------------------------------------------------
(***************************************************************************)
(* POST /run.                                                              *)
(***************************************************************************)
PostForm(t, u) ==
  /\ At(t, "idle")
  /\ Len(requests) < MaxPosts
  /\ requests' = Append(requests, u)
  /\ thread' = [thread EXCEPT ![t] = [Idle EXCEPT !.step = "validate",
                                                  !.request = Len(requests) + 1]]
  /\ UNCHANGED <<answer, page, made, disk, runs>>

Complete(u) == u.filled /\ u.dated /\ \A name \in Required : u.ext[name] # "none"

RejectForm(t) ==
  /\ At(t, "validate")
  /\ ~Complete(Form(t))
  /\ Reply(t, "form_error")
  /\ UNCHANGED <<requests, page, made, disk, runs>>

\* mkdtemp() never returns a directory that is in use.
\* Mutant: one work directory for all.
OneWorkDir == 1
Mkdtemp == made + 1

MakeWorkDir(t) ==
  /\ At(t, "validate")
  /\ Complete(Form(t))
  /\ made' = made + 1
  /\ disk' = [disk EXCEPT ![Mkdtemp] = [NoDir EXCEPT !.exists = TRUE,
                                                     !.owner = thread[t].request]]
  /\ thread' = [thread EXCEPT ![t].step = "save", ![t].dir = Mkdtemp]
  /\ UNCHANGED <<requests, answer, page, runs>>

Saving(t) == At(t, "save") /\ thread[t].at <= Len(SaveOrder)
Extension(t) == Form(t).ext[SaveOrder[thread[t].at]]

\* Mutant: the form has one optional file too few.
SkipBoth(t) ==
  /\ Saving(t)
  /\ Extension(t) = "none"
  /\ thread' = [thread EXCEPT ![t].at = @ + 2]
  /\ UNCHANGED <<requests, answer, page, made, disk, runs>>
SkipFile(t) ==
  /\ Saving(t)
  /\ Extension(t) = "none"
  /\ thread' = [thread EXCEPT ![t].at = @ + 1]
  /\ UNCHANGED <<requests, answer, page, made, disk, runs>>

\* This return is before the try: the work directory stays.
RejectFile(t) ==
  /\ Saving(t)
  /\ Extension(t) = "other"
  /\ Reply(t, "bad_file")
  /\ UNCHANGED <<requests, page, made, disk, runs>>

SaveFile(t) ==
  /\ Saving(t)
  /\ Extension(t) = "table"
  /\ disk' = [disk EXCEPT ![thread[t].dir].input =
                @ \cup {<<thread[t].request, SaveOrder[thread[t].at]>>}]
  /\ thread' = [thread EXCEPT ![t].at = @ + 1]
  /\ UNCHANGED <<requests, answer, page, made, runs>>

WriteConfig(t) ==
  /\ At(t, "save")
  /\ thread[t].at > Len(SaveOrder)
  /\ Goto(t, "pipeline")
  /\ UNCHANGED <<requests, answer, page, made, disk, runs>>

\* Saving an upload or the configuration raises (disk full): nothing catches
\* it, the browser is told of an internal error, the work directory stays.
WriteFails(t) ==
  /\ At(t, "save")
  /\ Reply(t, "server_error")
  /\ UNCHANGED <<requests, page, made, disk, runs>>

(***************************************************************************)
(* run_pipeline().  _build_toml enables every rule, whatever was uploaded, *)
(* so the pipeline reads all six data sets.                                *)
(***************************************************************************)
Provided(d) == {name \in Name : \E n \in Post : <<n, name>> \in disk[d].input}
Succeeds(t) == Form(t).sound /\ Provided(thread[t].dir) = Name

PipelineWrites(t) ==
  /\ At(t, "pipeline")
  /\ disk' = [disk EXCEPT ![thread[t].dir].output = "partial"]
  /\ Goto(t, "writing")
  /\ UNCHANGED <<requests, answer, page, made, runs>>

PipelineReturns(t) ==
  /\ At(t, "writing")
  /\ Succeeds(t)
  /\ disk' = [disk EXCEPT ![thread[t].dir].output = "complete",
                          ![thread[t].dir].shows = {file[1] : file \in MyDir(t).input}]
  /\ Goto(t, "publish")
  /\ UNCHANGED <<requests, answer, page, made, runs>>

\* Mutant: the pipeline waits for a data set that is missing.
RaisesIfUnsound(t) ==
  /\ At(t, "pipeline") \/ At(t, "writing")
  /\ ~Form(t).sound
  /\ Goto(t, "cleanup")
  /\ UNCHANGED <<requests, answer, page, made, disk, runs>>
\* The pipeline raises, before or after its first write.
PipelineRaises(t) ==
  /\ At(t, "pipeline") \/ At(t, "writing")
  /\ ~Succeeds(t)
  /\ Goto(t, "cleanup")
  /\ UNCHANGED <<requests, answer, page, made, disk, runs>>

\* Mutant: no clean-up.
LeaveWorkDir(t) ==
  At(t, "cleanup") /\ Reply(t, "pipeline_error") /\ UNCHANGED <<requests, page, made, disk, runs>>
RemoveWorkDir(t) ==
  /\ At(t, "cleanup")
  /\ disk' = [disk EXCEPT ![thread[t].dir] = NoDir]
  /\ Reply(t, "pipeline_error")
  /\ UNCHANGED <<requests, page, made, runs>>

Publish(t) ==
  /\ At(t, "publish")
  /\ runs' = [runs EXCEPT ![WorkerOf[t]] = @ \cup {thread[t].dir}]
  /\ Goto(t, "redirect")
  /\ UNCHANGED <<requests, answer, page, made, disk>>

\* Mutant: the clean-up moves to a finally clause.
RedirectAndRemove(t) ==
  /\ At(t, "redirect")
  /\ disk' = [disk EXCEPT ![thread[t].dir] = [@ EXCEPT !.exists = FALSE]]
  /\ Reply(t, "redirect")
  /\ UNCHANGED <<requests, page, made, runs>>
Redirect(t) ==
  /\ At(t, "redirect")
  /\ Reply(t, "redirect")
  /\ UNCHANGED <<requests, page, made, disk, runs>>

(***************************************************************************)
(* GET /results/<run_id> and GET /download/<run_id>/<filename>: look the   *)
(* run up, then read a file of its output directory.  Only the browser     *)
(* that was redirected knows the run id.                                   *)
(***************************************************************************)
DirOf(n) == {d \in Dir : disk[d].owner = n}

Visit(t, n) ==
  /\ At(t, "idle")
  /\ answer[n] \in {"redirect", "expired"}
  /\ \E d \in DirOf(n) :
       IF d \in runs[WorkerOf[t]]
         THEN /\ thread' = [thread EXCEPT ![t] = [Idle EXCEPT !.step = "page",
                                                    !.request = n, !.dir = d]]
              /\ UNCHANGED page
         ELSE /\ page' = [page EXCEPT ![n] = "not_found"]
              /\ UNCHANGED thread
  /\ UNCHANGED <<requests, answer, made, disk, runs>>

Serve(t) ==
  /\ At(t, "page")
  /\ page' = [page EXCEPT ![thread[t].request] =
                IF MyDir(t).exists /\ MyDir(t).output = "complete" THEN "served" ELSE "missing"]
  /\ thread' = [thread EXCEPT ![t] = Idle]
  /\ UNCHANGED <<requests, answer, made, disk, runs>>

(***************************************************************************)
(* A worker restarts.  Its links expire; the forms its threads were        *)
(* working on are not answered.                                            *)
(***************************************************************************)
Pending(n) == n <= Len(requests) /\ answer[n] = "none"
Posting(t, n) == thread[t].request = n /\ thread[t].step \notin {"idle", "page"}

Restart(w) ==
  /\ thread' = [t \in Thread |-> IF WorkerOf[t] = w THEN Idle ELSE thread[t]]
  /\ runs' = [runs EXCEPT ![w] = {}]
  /\ answer' = [n \in Post |->
       IF answer[n] = "redirect" /\ DirOf(n) \cap runs[w] # {} THEN "expired"
       ELSE IF \E t \in Thread : WorkerOf[t] = w /\ Posting(t, n) THEN "lost"
       ELSE answer[n]]
  /\ UNCHANGED <<requests, page, made, disk>>

\* What a thread does with a request, on its own.
Handle(t) ==
  \/ RejectForm(t) \/ MakeWorkDir(t) \/ SkipFile(t) \/ RejectFile(t) \/ SaveFile(t)
  \/ WriteConfig(t) \/ PipelineWrites(t) \/ PipelineReturns(t) \/ PipelineRaises(t)
  \/ RemoveWorkDir(t) \/ Publish(t) \/ Redirect(t) \/ Serve(t)

Next ==
  \/ \E t \in Thread : \/ Handle(t)
                       \/ WriteFails(t)
                       \/ \E u \in Uploads : PostForm(t, u)
                       \/ \E n \in Post : Visit(t, n)
  \/ \E w \in Worker : Restart(w)

Spec == Init /\ [][Next]_vars

\* The machine runs every thread of a live worker.
FairSpec == Spec /\ \A t \in Thread : WF_vars(Handle(t))

-----------------------------------------------------------------------------
Answers == {"none", "form_error", "bad_file", "server_error", "pipeline_error",
            "redirect", "expired", "lost"}
StepsOfPost == {"validate", "save", "pipeline", "writing", "publish", "cleanup", "redirect"}
Activity == [step : StepsOfPost \cup {"idle", "page"}, request : Post \cup {0},
             dir : Dir \cup {0}, at : 1..(Len(SaveOrder) + 1)]
Directory == [exists : BOOLEAN, owner : Post \cup {0}, input : SUBSET (Post \X Name),
              output : {"none", "partial", "complete"}, shows : SUBSET Post]

\* Types, and: no more directories than forms.
TypeOK ==
  /\ requests \in Seq(Uploads) /\ Len(requests) <= MaxPosts
  /\ answer \in [Post -> Answers]
  /\ page \in [Post -> {"none", "served", "not_found", "missing"}]
  /\ thread \in [Thread -> Activity]
  /\ made \in 0..Len(requests)
  /\ disk \in [Dir -> Directory]
  /\ runs \in [Worker -> SUBSET Dir]

(***************************************************************************)
(* The link a browser is redirected to works, at once and until the worker *)
(* restarts: no visit finds the results missing, and only a link that has  *)
(* expired is answered "Run not found".  It depends on the order of the    *)
(* last three statements of run(), on nothing ever being removed that is   *)
(* in _RUNS, and on there being one worker.                                *)
(***************************************************************************)
LinksWork ==
  \A n \in Post : /\ page[n] # "missing"
                  /\ page[n] = "not_found" => answer[n] = "expired"

(***************************************************************************)
(* Requests that run at the same time do not see each other's data: the    *)
(* output a browser is sent to was computed from the files of its own form *)
(* and from all of them.                                                   *)
(***************************************************************************)
ResultsAreOnesOwn ==
  \A n \in Post : answer[n] \in {"redirect", "expired"} =>
    \E d \in DirOf(n) :
      /\ disk[d].exists /\ disk[d].output = "complete" /\ disk[d].shows = {n}
      /\ disk[d].input = {n} \X {name \in Name : requests[n].ext[name] # "none"}

\* A thread is handling this form.
InProgress(n) == \E t \in Thread : Posting(t, n)

(***************************************************************************)
(* A work directory on disk belongs to a form that is being handled or to  *)
(* a link that was handed out; otherwise its form was refused for the type *)
(* of a file, or met an internal error or a restart (the three ways out of *)
(* run() that skip rmtree).  In particular a failed pipeline leaves no     *)
(* client data behind, whatever else is going on.                          *)
(***************************************************************************)
WorkDirsAreAccountedFor ==
  \A d \in Dir : disk[d].exists =>
    LET n == disk[d].owner
    IN \/ InProgress(n)
       \/ answer[n] \in {"redirect", "expired", "bad_file", "server_error", "lost"}

\* Nobody touches the directory of a run once it is in _RUNS, not the other
\* threads and not the clean-up of a run that fails.
RegisteredRunsAreImmutable ==
  [][\A w \in Worker : \A d \in runs[w] : disk'[d] = disk[d]]_vars

(***************************************************************************)
(* Every form is answered, or its worker restarts.                         *)
(***************************************************************************)
EveryFormIsAnswered == \A n \in Post : Pending(n) ~> ~Pending(n)
=============================================================================
