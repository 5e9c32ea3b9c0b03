\* Three threads, two handlers.
CONSTANTS
  Threads = {t1, t2, t3}
  Handlers = {h1, h2}
  Open = Open
  Default = Default
SPECIFICATION Spec
INVARIANTS
  TypeOK
  InstallIsFinal
  OneHandlerRun
  PromisedHandlerRuns
  NeverSilent
PROPERTIES
  FatalTerminates
CHECK_DEADLOCK FALSE
