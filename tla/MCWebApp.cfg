SPECIFICATION FairSpec
CONSTANTS
  Worker = {w1}
  Thread = {t1, t2}
  WorkerOf <- MCWorkerOf
  Required <- MCRequired
  SaveOrder <- MCSaveOrder
  Uploads <- MCUploads
  MaxPosts = 2
INVARIANTS
  TypeOK
  LinksWork
  ResultsAreOnesOwn
  WorkDirsAreAccountedFor
PROPERTIES
  RegisteredRunsAreImmutable
  EveryFormIsAnswered
