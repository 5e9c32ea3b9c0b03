---- MODULE FatalPathProofs ----
(***************************************************************************)
(* The fatal path with any number of threads and handlers.                 *)
(***************************************************************************)
EXTENDS FatalPath, SequenceTheorems, TLAPS

Inside == {"load", "default", "handler"}

HandlerKnown == \E i \in DOMAIN runs : runs[i].handler \in Handlers

\* Until the flag is set nobody is in raiseFatal and nothing has been called.
Untouched ==
  ~entered => /\ \A t \in Threads : pc[t] = "running"
              /\ runs = <<>> /\ promised = Open

\* Setting the flag lets one thread in, ever; it has not called its handler
\* while it is still reading the slot.
OneInside ==
  /\ \A t, u \in Threads : pc[t] \in Inside /\ pc[u] \in Inside => t = u
  /\ \A t \in Threads : pc[t] = "load" => runs = <<>>

\* A slot that is not open does not change any more.
Settled == promised # Open => slot = promised

\* Whoever is about to abort has written, or called a handler that could.
Told ==
  \A t \in Threads :
    /\ pc[t] = "handler" => HandlerKnown
    /\ pc[t] = "abort" => broken \/ stderr # <<>> \/ HandlerKnown

IInv ==
  /\ TypeOK
  /\ InstallIsFinal
  /\ Untouched
  /\ OneInside
  /\ OneHandlerRun
  /\ PromisedHandlerRuns
  /\ Settled
  /\ Told
  /\ NeverSilent

-----------------------------------------------------------------------------

\* A write adds a line, or finds the stream broken.
LEMMA WriteAppends ==
  ASSUME TypeOK, NEW t \in Threads, NEW text \in {"record", "reentered"}, Write(t, text)
  PROVE  stderr' \in Seq(Lines) /\ (broken \/ stderr' # <<>>)
<1>1. [thread |-> t, text |-> text] \in Lines
  BY DEF Lines
<1>2. CASE broken
  BY <1>2 DEF Write, TypeOK
<1>3. CASE ~broken
  <2>1. stderr \in Seq(Lines) /\ stderr' = Append(stderr, [thread |-> t, text |-> text])
    BY <1>3 DEF Write, TypeOK
  <2>2. stderr' \in Seq(Lines) /\ Len(stderr') = Len(stderr) + 1 /\ Len(stderr) \in Nat
    BY <1>1, <2>1, AppendProperties, LenProperties
  <2>3. QED
    BY <2>2
<1>4. QED
  BY <1>2, <1>3

\* The invariant holds at first.
LEMMA InvInit == Init => IInv
<1>1. Init => TypeOK
  <2>1. ASSUME NEW S
        PROVE  <<>> \in Seq(S)
    BY EmptySeq
  <2>2. Init => /\ runs \in Seq([thread: Threads, handler: Handlers \union {Default}])
                /\ stderr \in Seq(Lines)
    BY <2>1 DEF Init
  <2>3. Init => /\ slot \in Slots /\ promised \in Slots
                /\ pc \in [Threads -> Places]
                /\ answer \in [Threads -> Handlers \union {Open}]
    BY DEF Init, Slots, Places
  <2>4. Init => entered \in BOOLEAN /\ broken \in BOOLEAN /\ ended \in BOOLEAN
    BY DEF Init
  <2>5. QED
    BY <2>2, <2>3, <2>4 DEF TypeOK
<1>2. Init => InstallIsFinal /\ Untouched /\ OneInside /\ Settled /\ Told /\ NeverSilent
  BY DEF Init, InstallIsFinal, Untouched, OneInside, Inside, Settled, Told, NeverSilent
<1>3. Init => OneHandlerRun /\ PromisedHandlerRuns
  BY DEF Init, OneHandlerRun, PromisedHandlerRuns
<1>4. QED
  BY <1>1, <1>2, <1>3 DEF IInv

\* Every step of a thread keeps the invariant.
LEMMA StepInv ==
  ASSUME IInv, NEW t \in Threads, Step(t)
  PROVE  IInv'
<1> USE FatalPathAssumption
    DEF IInv, TypeOK, Slots, Places, InstallIsFinal, Untouched, OneInside, Inside,
        OneHandlerRun, PromisedHandlerRuns, Settled, Told, HandlerKnown, NeverSilent, Goto
<1>1. CASE Freeze(t)
  BY <1>1 DEF Freeze, Calls
<1>2. CASE \E h \in Handlers : Install(t, h)
  BY <1>2 DEF Install, Calls
<1>3. CASE Enter(t)
  BY <1>3 DEF Enter, Calls
<1>4. CASE Reenter(t)
  BY <1>4 DEF Reenter, Calls
<1>5. CASE ReportReentry(t)
  <2>1. stderr' \in Seq(Lines) /\ (broken \/ stderr' # <<>>)
    BY <1>5, WriteAppends DEF ReportReentry
  <2>2. QED
    BY <1>5, <2>1 DEF ReportReentry
<1>6. CASE CallHandler(t)
  BY <1>6 DEF CallHandler
<1>7. CASE DefaultHandler(t)
  <2>1. stderr' \in Seq(Lines) /\ (broken \/ stderr' # <<>>)
    BY <1>7, WriteAppends DEF DefaultHandler
  <2>2. QED
    BY <1>7, <2>1 DEF DefaultHandler
<1>8. CASE HandlerReturns(t)
  BY <1>8 DEF HandlerReturns
<1>9. CASE Abort(t)
  BY <1>9 DEF Abort
<1>10. QED
  BY <1>1, <1>2, <1>3, <1>4, <1>5, <1>6, <1>7, <1>8, <1>9 DEF Step, Proceed

\* Every step keeps the invariant.
LEMMA InvStep == IInv /\ [Next]_vars => IInv'
<1>1. ASSUME IInv, UNCHANGED vars
      PROVE  IInv'
  BY <1>1 DEF vars, IInv, TypeOK, InstallIsFinal, Untouched, OneInside, OneHandlerRun,
       PromisedHandlerRuns, Settled, Told, HandlerKnown, NeverSilent
<1>2. QED
  BY <1>1, StepInv DEF Next

\* The invariant holds of every reachable state.
LEMMA Invariant == Spec => []IInv
BY InvInit, InvStep, PTL DEF Spec

\* Every reachable state of the fatal path has the types of the code.
THEOREM TypeCorrect == Spec => []TypeOK
<1>1. IInv => TypeOK
  BY DEF IInv
<1>2. QED
  BY <1>1, Invariant, PTL

\* Whatever threads install, freeze and raise concurrently, an accepted
\* installation is never taken back.
THEOREM InstallationIsFinal == Spec => []InstallIsFinal
<1>1. IInv => InstallIsFinal
  BY DEF IInv
<1>2. QED
  BY <1>1, Invariant, PTL

\* However many threads fail at once, and however often the handler fails
\* itself, a single handler is called, once.
THEOREM OneHandlerIsCalled == Spec => []OneHandlerRun
<1>1. IInv => OneHandlerRun
  BY DEF IInv
<1>2. QED
  BY <1>1, Invariant, PTL

\* The handler that is called is the one that was installed, or frozen in,
\* when the failure happened.
THEOREM HandlerIsThePromisedOne == Spec => []PromisedHandlerRuns
<1>1. IInv => PromisedHandlerRuns
  BY DEF IInv
<1>2. QED
  BY <1>1, Invariant, PTL

\* The process never dies of a fatal error without a line on standard error
\* or a call of the application's handler.
THEOREM DeathIsAnnounced == Spec => []NeverSilent
<1>1. IInv => NeverSilent
  BY DEF IInv
<1>2. QED
  BY <1>1, Invariant, PTL
====
