---- MODULE FatalPath ----
(***************************************************************************)
(* The fatal path of base (fatal.cpp): the two process-global atomics, the *)
(* handler slot and the entry flag, with threads that install handlers,    *)
(* freeze installation and raise fatal errors in any order, also from      *)
(* inside the handler that is running.                                     *)
(*                                                                         *)
(* The slot has three states: open (null), the default handler (frozen     *)
(* with nothing installed) and a handler.  raiseFatal exchanges the flag,  *)
(* reads the slot, calls the handler and aborts; whoever finds the flag    *)
(* set writes one constant line and aborts without a handler.  Between any *)
(* two of these steps other threads run, and abort ends all of them.       *)
(***************************************************************************)
EXTENDS Naturals, Sequences

CONSTANTS
  Threads,          \* threads of the process
  Handlers,         \* what a composition root may install
  Open,             \* the null slot
  Default           \* defaultFatalHandler, which is also the frozen slot

ASSUME FatalPathAssumption ==
  /\ Open \notin Handlers /\ Default \notin Handlers /\ Open # Default

VARIABLES
  slot,             \* fatalHandlerSlot
  entered,          \* fatalPathEntered
  pc,               \* where each thread is
  answer,           \* the handler the last installation of a thread accepted
  promised,         \* what the slot held when the fatal path was entered
  runs,             \* the handlers that were called, by whom
  stderr,           \* the lines written
  broken,           \* standard error cannot be written
  ended             \* the process has aborted

vars == <<slot, entered, pc, answer, promised, runs, stderr, broken, ended>>

Slots == {Open, Default} \union Handlers
Places == {"running", "load", "default", "handler", "reentry", "abort"}
Lines == [thread: Threads, text: {"record", "reentered"}]

TypeOK ==
  /\ slot \in Slots
  /\ entered \in BOOLEAN
  /\ pc \in [Threads -> Places]
  /\ answer \in [Threads -> Handlers \union {Open}]
  /\ promised \in Slots
  /\ runs \in Seq([thread: Threads, handler: Handlers \union {Default}])
  /\ stderr \in Seq(Lines)
  /\ broken \in BOOLEAN
  /\ ended \in BOOLEAN

Init ==
  /\ slot = Open
  /\ entered = FALSE
  /\ pc = [t \in Threads |-> "running"]
  /\ answer = [t \in Threads |-> Open]
  /\ promised = Open
  /\ runs = <<>>
  /\ stderr = <<>>
  /\ broken \in BOOLEAN
  /\ ended = FALSE

Goto(t, place) == pc' = [pc EXCEPT ![t] = place]

\* One call of the platform primitive; a failing write is ignored.
Write(t, text) ==
  stderr' = IF broken THEN stderr ELSE Append(stderr, [thread |-> t, text |-> text])

\* Only code outside raiseFatal, or the body of an installed handler, calls
\* the functions of fatal.h.
Calls(t) == ~ended /\ pc[t] \in {"running", "handler"}

(***************************************************************************)
(* installFatalHandler and freezeFatalHandler: a compare-and-exchange from *)
(* null each.                                                              *)
(***************************************************************************)
\* Mutant: the slot is stored into without a comparison.
InstallReplaces(t, h) ==
  /\ Calls(t)
  /\ slot' = h
  /\ answer' = [answer EXCEPT ![t] = h]
  /\ UNCHANGED <<entered, pc, promised, runs, stderr, broken, ended>>

Install(t, h) ==
  /\ Calls(t)
  /\ slot = Open
  /\ slot' = h
  /\ answer' = [answer EXCEPT ![t] = h]
  /\ UNCHANGED <<entered, pc, promised, runs, stderr, broken, ended>>

\* Mutant: the freeze stores the sentinel whatever the slot holds.
FreezeOverwrites(t) ==
  /\ Calls(t)
  /\ slot' = Default
  /\ UNCHANGED <<entered, pc, answer, promised, runs, stderr, broken, ended>>

Freeze(t) ==
  /\ Calls(t)
  /\ slot = Open
  /\ slot' = Default
  /\ UNCHANGED <<entered, pc, answer, promised, runs, stderr, broken, ended>>

(***************************************************************************)
(* raiseFatal                                                              *)
(***************************************************************************)
\* Mutant: the flag is read and never set.
EnterUnmarked(t) ==
  /\ Calls(t)
  /\ ~entered
  /\ promised' = slot
  /\ Goto(t, "load")
  /\ UNCHANGED <<slot, entered, answer, runs, stderr, broken, ended>>

Enter(t) ==
  /\ Calls(t)
  /\ ~entered
  /\ entered' = TRUE
  /\ promised' = slot
  /\ Goto(t, "load")
  /\ UNCHANGED <<slot, answer, runs, stderr, broken, ended>>

Reenter(t) ==
  /\ Calls(t)
  /\ entered
  /\ Goto(t, "reentry")
  /\ UNCHANGED <<slot, entered, answer, promised, runs, stderr, broken, ended>>

\* Mutant: a second entry aborts without saying so.
ReportReentrySilently(t) ==
  /\ ~ended /\ pc[t] = "reentry"
  /\ Goto(t, "abort")
  /\ UNCHANGED <<slot, entered, answer, promised, runs, stderr, broken, ended>>

ReportReentry(t) ==
  /\ ~ended /\ pc[t] = "reentry"
  /\ Write(t, "reentered")
  /\ Goto(t, "abort")
  /\ UNCHANGED <<slot, entered, answer, promised, runs, broken, ended>>

\* Mutant: an empty slot is called.
CallHandlerUnchecked(t) ==
  /\ ~ended /\ pc[t] = "load"
  /\ runs' = Append(runs, [thread |-> t, handler |-> slot])
  /\ Goto(t, "handler")
  /\ UNCHANGED <<slot, entered, answer, promised, stderr, broken, ended>>

CallHandler(t) ==
  /\ ~ended /\ pc[t] = "load"
  /\ LET handler == IF slot = Open THEN Default ELSE slot IN
     /\ runs' = Append(runs, [thread |-> t, handler |-> handler])
     /\ Goto(t, IF handler = Default THEN "default" ELSE "handler")
  /\ UNCHANGED <<slot, entered, answer, promised, stderr, broken, ended>>

\* defaultFatalHandler formats on its stack and writes once.
DefaultHandler(t) ==
  /\ ~ended /\ pc[t] = "default"
  /\ Write(t, "record")
  /\ Goto(t, "abort")
  /\ UNCHANGED <<slot, entered, answer, promised, runs, broken, ended>>

\* Mutant: a handler that returns takes raiseFatal with it.
HandlerReturnsToCaller(t) ==
  /\ ~ended /\ pc[t] = "handler"
  /\ Goto(t, "running")
  /\ UNCHANGED <<slot, entered, answer, promised, runs, stderr, broken, ended>>

\* A handler returns despite its contract.
HandlerReturns(t) ==
  /\ ~ended /\ pc[t] = "handler"
  /\ Goto(t, "abort")
  /\ UNCHANGED <<slot, entered, answer, promised, runs, stderr, broken, ended>>

\* abort after a handler or a re-entry, and the end an installed handler puts
\* to the process itself.
Abort(t) ==
  /\ ~ended /\ pc[t] \in {"abort", "handler"}
  /\ ended' = TRUE
  /\ UNCHANGED <<slot, entered, pc, answer, promised, runs, stderr, broken>>

\* What a thread inside raiseFatal does next.
Proceed(t) ==
  \/ ReportReentry(t) \/ CallHandler(t) \/ DefaultHandler(t)
  \/ HandlerReturns(t) \/ Abort(t)

Step(t) ==
  \/ Freeze(t) \/ (\E h \in Handlers : Install(t, h))
  \/ Enter(t) \/ Reenter(t) \/ Proceed(t)

Next == \E t \in Threads : Step(t)

\* The scheduler runs every thread that can run, and a handler neither waits
\* nor loops: it may not take a lock, and its contract is not to return.
Fairness == \A t \in Threads : WF_vars(Proceed(t))

Spec == Init /\ [][Next]_vars /\ Fairness

(***************************************************************************)
(* Properties                                                              *)
(***************************************************************************)

\* A thread that was told its handler is installed can rely on it for good:
\* no other installation, freeze or raise takes the slot away.
InstallIsFinal ==
  \A t \in Threads : answer[t] # Open => slot = answer[t]

\* One handler is called, once, for the first failure: not when two threads
\* fail together and not when the handler fails itself.
OneHandlerRun == Len(runs) <= 1

\* What was installed or frozen before the first failure is what runs, even
\* when an installation or a freeze races with it.
PromisedHandlerRuns ==
  \A i \in DOMAIN runs : promised # Open => runs[i].handler = promised

\* The process does not die without a word: unless the application's own
\* handler ran, or standard error is gone, a line says that a fatal error
\* happened.
NeverSilent ==
  ended =>
    \/ broken
    \/ stderr # <<>>
    \/ \E i \in DOMAIN runs : runs[i].handler \in Handlers

\* A fatal error ends the process, whatever the handler does, wherever other
\* threads are and whether or not anything can be written.
FatalTerminates == entered ~> ended
====
