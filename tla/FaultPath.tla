----------------------------- MODULE FaultPath -----------------------------
(***************************************************************************)
(* The fault path of Sentry::Hub (src/src/hub.cpp): the terminate handler *)
(* and the signal handler installed by Hub::init, run on whichever thread  *)
(* faults, re-entering captureEvent and closeHttpConnection while the      *)
(* application thread and the transport worker are where the fault found  *)
(* them.                                                                   *)
(*                                                                         *)
(* Kept: the two mutexes a handler's captureEvent takes (m_tasksQueueMutex *)
(* in addActionToQueue, m_scopeMutex in addBreadcrumb), m_shouldStop, the  *)
(* worker thread and its joinability, the signal dispositions, and the    *)
(* order of each handler's steps.  Data, the dedup ledger (a handler's    *)
(* event has no "message") and the HTTP exchange are left out; the worker *)
(* is assumed to drain its queue once m_shouldStop is set (the Transport  *)
(* module checks that part).  A std::thread precondition broken by join  *)
(* or by a destructor throws std::system_error or calls std::terminate;   *)
(* the model records the breach and ends the process there, which is      *)
(* where the ensuing chain of handlers also ends.                         *)
(***************************************************************************)
EXTENDS Naturals

CONSTANT MaxFaults   \* faults injected in one behaviour

Threads == {"app", "worker"}
NoOne == "none"

(* FAULT stands for every signal the handler catches other than SIGABRT:  *)
(* SIGINT, SIGTERM, SIGSEGV, SIGBUS, SIGFPE, SIGILL are handled alike.     *)
Signals == {"FAULT", "ABRT"}

(* The steps of a handler after its entry: captureEvent's sampling draw,  *)
(* its sendEvent (the m_shouldStop check, then the queue lock) and its     *)
(* trailing addBreadcrumb (scope lock), closeHttpConnection's stop (flag, *)
(* then join), then raise(sig) or the chained terminate.                   *)
Steps == {"sample", "lockQ", "waitQ", "unlockQ", "lockS", "unlockS", "stop",
          "join", "raise", "chain"}

VARIABLES
  apc,          \* the application thread: preinit, run, holdS, holdQ, exitJoin
  wpc,          \* the worker: none, loop, popping (holds the queue lock), exited
  qHolder,      \* m_tasksQueueMutex
  sHolder,      \* m_scopeMutex
  shouldStop,   \* m_shouldStop
  joined,       \* m_thread has been joined (no longer joinable)
  disp,         \* per signal: "handler" or "default" disposition
  terminateSet, \* std::set_terminate(&terminationHandler) done
  hkind,        \* per thread: handler running on it: none, signal, terminate
  hpc,          \* per thread: the handler's next step
  faults,       \* faults injected so far
  process,      \* running, dead (killed by a signal or abort), exited
  misuse        \* a std::thread precondition was broken

vars == <<apc, wpc, qHolder, sHolder, shouldStop, joined, disp, terminateSet,
          hkind, hpc, faults, process, misuse>>

TypeOK ==
  /\ apc \in {"preinit", "run", "holdS", "holdQ", "exitJoin"}
  /\ wpc \in {"none", "loop", "popping", "exited"}
  /\ qHolder \in Threads \cup {NoOne} /\ sHolder \in Threads \cup {NoOne}
  /\ shouldStop \in BOOLEAN /\ joined \in BOOLEAN
  /\ disp \in [Signals -> {"handler", "default"}]
  /\ terminateSet \in BOOLEAN
  /\ hkind \in [Threads -> {"none", "signal", "terminate"}]
  /\ hpc \in [Threads -> Steps \cup {"none"}]
  /\ faults \in 0..MaxFaults
  /\ process \in {"running", "dead", "exited"}
  /\ misuse \in BOOLEAN

Init ==
  /\ apc = "preinit" /\ wpc = "none"
  /\ qHolder = NoOne /\ sHolder = NoOne
  /\ shouldStop = FALSE /\ joined = FALSE
  /\ disp = [s \in Signals |-> "default"]
  /\ terminateSet = FALSE
  /\ hkind = [t \in Threads |-> "none"] /\ hpc = [t \in Threads |-> "none"]
  /\ faults = 0 /\ process = "running" /\ misuse = FALSE

Running(t) == process = "running" /\ hkind[t] = "none"

-----------------------------------------------------------------------------
(* The application thread's own calls.                                     *)

(* installHandler: set_terminate once per Hub, then signal(sig, handler)  *)
(* for every caught signal.                                                *)
installHandler ==
  /\ terminateSet' = TRUE
  /\ disp' = [s \in Signals |-> "handler"]

(* A DSN as SentryDSN::parseDSN classifies it: none (""), one its regex  *)
(* rejects, or a valid one.                                                *)
Dsns == {"", "malformed", "valid"}

(* Sentry::init's DSN: the option's, or $SENTRY_DSN's when that is "".    *)
finalDsn(option, env) == IF option = "" THEN env ELSE option

(* Sentry::init's result: NO_DSN with no DSN at all; otherwise Hub::init's, *)
(* WRONG_DSN when parseDSN fails.  Hub::init writes maxBreadcrumbs and    *)
(* sampleRate before that return, which no step of this model reads.      *)
initResult(dsn) ==
  IF dsn = "" THEN "NO_DSN" ELSE IF dsn = "malformed" THEN "WRONG_DSN" ELSE "NO_ERROR"

(* Hub::init that parses the DSN: create the Transport, start its worker, *)
(* setupClient, m_initialised = true, then installHandler.  A failed init  *)
(* returns before all of it and leaves the application where it was.      *)
init ==
  /\ Running("app") /\ apc = "preinit"
  /\ \E option, env \in Dsns :
       IF initResult(finalDsn(option, env)) # "NO_ERROR" THEN UNCHANGED vars
       ELSE /\ apc' = "run" /\ wpc' = "loop"
            /\ installHandler
            /\ UNCHANGED <<qHolder, sHolder, shouldStop, joined, hkind, hpc,
                           faults, process, misuse>>

(* A second Sentry::init: one whose DSN parses replaces m_pHttpClient     *)
(* with make_shared<Transport>(), dropping the running Transport, whose   *)
(* ~std::thread finds m_thread joinable and calls std::terminate.          *)
reinit ==
  /\ Running("app") /\ apc = "run"
  /\ \E option, env \in Dsns :
       IF initResult(finalDsn(option, env)) # "NO_ERROR" THEN UNCHANGED vars
       ELSE /\ misuse' = TRUE /\ process' = "dead"
            /\ UNCHANGED <<apc, wpc, qHolder, sHolder, shouldStop, joined,
                           disp, terminateSet, hkind, hpc, faults>>

(* Hub::setTag / addBreadcrumb: the m_scopeMutex critical section.         *)
lockScope ==
  /\ Running("app") /\ apc = "run" /\ sHolder = NoOne
  /\ sHolder' = "app" /\ apc' = "holdS"
  /\ UNCHANGED <<wpc, qHolder, shouldStop, joined, disp, terminateSet, hkind,
                 hpc, faults, process, misuse>>

unlockScope ==
  /\ Running("app") /\ apc = "holdS"
  /\ sHolder' = NoOne /\ apc' = "run"
  /\ UNCHANGED <<wpc, qHolder, shouldStop, joined, disp, terminateSet, hkind,
                 hpc, faults, process, misuse>>

(* captureEvent -> sendEvent -> addActionToQueue: push under the lock.     *)
lockQueue ==
  /\ Running("app") /\ apc = "run" /\ ~shouldStop /\ qHolder = NoOne
  /\ qHolder' = "app" /\ apc' = "holdQ"
  /\ UNCHANGED <<wpc, sHolder, shouldStop, joined, disp, terminateSet, hkind,
                 hpc, faults, process, misuse>>

unlockQueue ==
  /\ Running("app") /\ apc = "holdQ"
  /\ qHolder' = NoOne /\ apc' = "run"
  /\ UNCHANGED <<wpc, sHolder, shouldStop, joined, disp, terminateSet, hkind,
                 hpc, faults, process, misuse>>

(* Returning from main: the static mainHub's ~Hub -> closeHttpConnection  *)
(* -> stop: raise the flag, then join.                                     *)
exit ==
  /\ Running("app") /\ apc \in {"preinit", "run"}
  /\ IF apc = "preinit"
       THEN process' = "exited" /\ UNCHANGED <<apc, shouldStop>>
       ELSE shouldStop' = TRUE /\ apc' = "exitJoin" /\ UNCHANGED process
  /\ UNCHANGED <<wpc, qHolder, sHolder, joined, disp, terminateSet, hkind, hpc,
                 faults, misuse>>

exitJoin ==
  /\ Running("app") /\ apc = "exitJoin" /\ wpc = "exited"
  /\ joined' = TRUE /\ process' = "exited"
  /\ UNCHANGED <<apc, wpc, qHolder, sHolder, shouldStop, disp, terminateSet,
                 hkind, hpc, faults, misuse>>

-----------------------------------------------------------------------------
(* The transport worker: performSendEvents pops under the queue lock; run *)
(* returns once m_shouldStop is set and the queue is drained.              *)
workerLock ==
  /\ Running("worker") /\ wpc = "loop" /\ qHolder = NoOne
  /\ qHolder' = "worker" /\ wpc' = "popping"
  /\ UNCHANGED <<apc, sHolder, shouldStop, joined, disp, terminateSet, hkind,
                 hpc, faults, process, misuse>>

workerUnlock ==
  /\ Running("worker") /\ wpc = "popping"
  /\ qHolder' = NoOne /\ wpc' = "loop"
  /\ UNCHANGED <<apc, sHolder, shouldStop, joined, disp, terminateSet, hkind,
                 hpc, faults, process, misuse>>

workerExit ==
  /\ Running("worker") /\ wpc = "loop" /\ shouldStop
  /\ wpc' = "exited"
  /\ UNCHANGED <<apc, qHolder, sHolder, shouldStop, joined, disp, terminateSet,
                 hkind, hpc, faults, process, misuse>>

-----------------------------------------------------------------------------
(* Faults.                                                                 *)

(* The application thread exists throughout; the worker from init until  *)
(* run() returns.                                                          *)
Alive(t) == t = "app" \/ wpc \in {"loop", "popping"}

(* A caught signal arrives on thread t: with the handler installed,       *)
(* signalsHandler first resets the disposition to SIG_DFL.  Otherwise the *)
(* default action kills the process.                                       *)
signalsHandler(t) ==
  /\ Running(t) /\ Alive(t) /\ faults < MaxFaults
  /\ faults' = faults + 1
  /\ IF disp["FAULT"] = "handler"
       THEN /\ disp' = [disp EXCEPT !["FAULT"] = "default"]
            /\ hkind' = [hkind EXCEPT ![t] = "signal"]
            /\ hpc' = [hpc EXCEPT ![t] = "sample"]
            /\ UNCHANGED process
       ELSE process' = "dead" /\ UNCHANGED <<disp, hkind, hpc>>
  /\ UNCHANGED <<apc, wpc, qHolder, sHolder, shouldStop, joined, terminateSet,
                 misuse>>

(* An exception escapes thread t (on the worker: std::stoul of a          *)
(* non-numeric Retry-After): std::terminate runs terminationHandler, which*)
(* captures it, or, before init, the default handler aborts.               *)
terminationHandler(t) ==
  /\ Running(t) /\ Alive(t) /\ faults < MaxFaults
  /\ faults' = faults + 1
  /\ IF terminateSet
       THEN /\ hkind' = [hkind EXCEPT ![t] = "terminate"]
            /\ hpc' = [hpc EXCEPT ![t] = "sample"]
            /\ UNCHANGED process
       ELSE process' = "dead" /\ UNCHANGED <<hkind, hpc>>
  /\ UNCHANGED <<apc, wpc, qHolder, sHolder, shouldStop, joined, disp,
                 terminateSet, misuse>>

-----------------------------------------------------------------------------
(* The handler steps, on thread t.                                         *)

InHandler(t, step) == process = "running" /\ hkind[t] # "none" /\ hpc[t] = step
GoStep(t, step) == hpc' = [hpc EXCEPT ![t] = step]

(* captureEvent's sampling: rand() % 100 < m_sampleRate decides whether  *)
(* sendEvent is called at all (always, at the default rate of 100).        *)
handlerSample(t) ==
  /\ InHandler(t, "sample")
  /\ \E send \in BOOLEAN : GoStep(t, IF send THEN "lockQ" ELSE "lockS")
  /\ UNCHANGED <<apc, wpc, qHolder, sHolder, shouldStop, joined, disp,
                 terminateSet, hkind, faults, process, misuse>>

(* addActionToQueue: the unlocked m_shouldStop check; set, nothing is     *)
(* queued.                                                                 *)
handlerLockQueue(t) ==
  /\ InHandler(t, "lockQ")
  /\ GoStep(t, IF shouldStop THEN "lockS" ELSE "waitQ")
  /\ UNCHANGED <<apc, wpc, qHolder, sHolder, shouldStop, joined, disp,
                 terminateSet, hkind, faults, process, misuse>>

(* ... then lock_guard on m_tasksQueueMutex, not recursive: a thread that *)
(* already holds it, interrupted inside its critical section, waits for   *)
(* itself forever.                                                         *)
handlerAcquireQueue(t) ==
  /\ InHandler(t, "waitQ")
  /\ qHolder = NoOne /\ qHolder' = t /\ GoStep(t, "unlockQ")
  /\ UNCHANGED <<apc, wpc, sHolder, shouldStop, joined, disp, terminateSet,
                 hkind, faults, process, misuse>>

handlerUnlockQueue(t) ==
  /\ InHandler(t, "unlockQ")
  /\ qHolder' = NoOne /\ GoStep(t, "lockS")
  /\ UNCHANGED <<apc, wpc, sHolder, shouldStop, joined, disp, terminateSet,
                 hkind, faults, process, misuse>>

(* captureEvent's trailing addBreadcrumb: lock m_scopeMutex.               *)
handlerLockScope(t) ==
  /\ InHandler(t, "lockS")
  /\ sHolder = NoOne /\ sHolder' = t /\ GoStep(t, "unlockS")
  /\ UNCHANGED <<apc, wpc, qHolder, shouldStop, joined, disp, terminateSet,
                 hkind, faults, process, misuse>>

handlerUnlockScope(t) ==
  /\ InHandler(t, "unlockS")
  /\ sHolder' = NoOne /\ GoStep(t, "stop")
  /\ UNCHANGED <<apc, wpc, qHolder, shouldStop, joined, disp, terminateSet,
                 hkind, faults, process, misuse>>

(* closeHttpConnection -> Transport::stop: m_shouldStop = true.            *)
handlerStop(t) ==
  /\ InHandler(t, "stop")
  /\ shouldStop' = TRUE /\ GoStep(t, "join")
  /\ UNCHANGED <<apc, wpc, qHolder, sHolder, joined, disp, terminateSet,
                 hkind, faults, process, misuse>>

(* m_thread.join(): on a thread already joined, or from the worker itself,*)
(* std::system_error; otherwise wait for run() to return.                  *)
handlerJoin(t) ==
  /\ InHandler(t, "join")
  /\ IF joined \/ t = "worker"
       THEN misuse' = TRUE /\ process' = "dead" /\ UNCHANGED <<joined, hpc>>
       ELSE /\ wpc = "exited" /\ joined' = TRUE
            /\ GoStep(t, IF hkind[t] = "signal" THEN "raise" ELSE "chain")
            /\ UNCHANGED <<misuse, process>>
  /\ UNCHANGED <<apc, wpc, qHolder, sHolder, shouldStop, disp, terminateSet,
                 hkind, faults>>

(* signalsHandler's raise(sig), the disposition being SIG_DFL now.         *)
handlerRaise(t) ==
  /\ InHandler(t, "raise")
  /\ process' = "dead"
  /\ UNCHANGED <<apc, wpc, qHolder, sHolder, shouldStop, joined, disp,
                 terminateSet, hkind, hpc, faults, misuse>>

(* terminationHandler's default_termination_handler(): abort() raises     *)
(* SIGABRT, which runs signalsHandler while it is still installed.         *)
handlerChain(t) ==
  /\ InHandler(t, "chain")
  /\ IF disp["ABRT"] = "handler"
       THEN /\ disp' = [disp EXCEPT !["ABRT"] = "default"]
            /\ hkind' = [hkind EXCEPT ![t] = "signal"]
            /\ GoStep(t, "sample")
            /\ UNCHANGED process
       ELSE process' = "dead" /\ UNCHANGED <<disp, hkind, hpc>>
  /\ UNCHANGED <<apc, wpc, qHolder, sHolder, shouldStop, joined, terminateSet,
                 faults, misuse>>

Halted == process # "running" /\ UNCHANGED vars

Next ==
  \/ init \/ reinit \/ lockScope \/ unlockScope \/ lockQueue \/ unlockQueue
  \/ exit \/ exitJoin
  \/ workerLock \/ workerUnlock \/ workerExit
  \/ \E t \in Threads :
       \/ signalsHandler(t) \/ terminationHandler(t)
       \/ handlerSample(t) \/ handlerLockQueue(t) \/ handlerAcquireQueue(t)
       \/ handlerUnlockQueue(t)
       \/ handlerLockScope(t) \/ handlerUnlockScope(t)
       \/ handlerStop(t) \/ handlerJoin(t) \/ handlerRaise(t) \/ handlerChain(t)
  \/ Halted

(* Threads that are running keep running: the worker's loop, a thread     *)
(* leaving its critical section, the exit path and every handler step.    *)
(* Whether the application calls anything, or faults, is not assumed.      *)
(* Once m_shouldStop is set, run()'s drain loop pops a finite queue, so    *)
(* the worker, which can exit between any two pops, eventually does:       *)
(* strong fairness on workerExit.  A handler waiting for a mutex another *)
(* thread keeps releasing gets it eventually (strong fairness on the two  *)
(* acquisitions): what can hold a handler back for ever is a mutex that   *)
(* is never released, not an unlucky schedule.                             *)
Fairness ==
  /\ WF_vars(unlockScope) /\ WF_vars(unlockQueue) /\ WF_vars(exitJoin)
  /\ WF_vars(workerLock) /\ WF_vars(workerUnlock) /\ SF_vars(workerExit)
  /\ \A t \in Threads :
       /\ WF_vars(handlerSample(t)) /\ WF_vars(handlerLockQueue(t))
       /\ SF_vars(handlerAcquireQueue(t)) /\ WF_vars(handlerUnlockQueue(t))
       /\ SF_vars(handlerLockScope(t)) /\ WF_vars(handlerUnlockScope(t))
       /\ WF_vars(handlerStop(t)) /\ WF_vars(handlerJoin(t))
       /\ WF_vars(handlerRaise(t)) /\ WF_vars(handlerChain(t))

Spec == Init /\ [][Next]_vars /\ Fairness

-----------------------------------------------------------------------------
(* std::thread's contract, which Transport and Hub must keep: join only a *)
(* joinable thread other than the caller, and never destroy a joinable    *)
(* one.  The terminate handler's stop, the SIGABRT it provokes, a signal  *)
(* on the worker, and a second init all reach m_thread.                    *)
ThreadContract == ~misuse

(* The fault path "captures ... closes the transport connection ... and   *)
(* re-raises the signal with default disposition so the process           *)
(* terminates": once a fault is raised, the process eventually ends.       *)
FaultTerminates == faults > 0 ~> process # "running"

=============================================================================
