----------------------------- MODULE Transport -----------------------------
(***************************************************************************)
(* The event transport of the Sentry C++ client (src/src/transport.cpp).  *)
(*                                                                         *)
(* One worker thread runs Transport::run: it busy-loops on perform(),      *)
(* which dispatches on the connection state NO_CONNECTION / SEND_EVENTS /  *)
(* DROP_EVENTS, and pops one task at a time from the FIFO m_tasks.  Caller *)
(* threads enqueue POST tasks through sendEvent -> addActionToQueue, whose *)
(* check of m_shouldStop and push under m_tasksQueueMutex are two separate *)
(* steps.  stop() raises m_shouldStop and joins the worker, which drains   *)
(* the queue before it exits.                                              *)
(*                                                                         *)
(* Data is abstracted: a payload is a pair <<client, n>>, the HTTP call is *)
(* a nondeterministic outcome, and the wall clock is reduced to the time   *)
(* elapsed since m_lastConnectionRequestTime, capped at the reconnection   *)
(* timeout (no decision depends on larger values).                         *)
(***************************************************************************)
EXTENDS Naturals, Sequences, SequencesExt

CONSTANTS
  Clients,           \* caller threads that capture events
  EventsPerClient,   \* sendEvent calls each caller makes (bound)
  ReconnectTimeout   \* RECONNECTION_TIMEOUT_MILLISECONDS, in clock ticks

ASSUME Clients # {} /\ EventsPerClient \in Nat \ {0}
ASSUME ReconnectTimeout \in Nat \ {0}

Payloads == Clients \X (1..EventsPerClient)

(* A queued std::function: sendPost(contents) or its retry variant.        *)
Tasks == [payload : Payloads, retry : BOOLEAN]

States == {"NO_CONNECTION", "SEND_EVENTS", "DROP_EVENTS"}

(* What m_pHttpClient->request can come back with: 200, 429, any other     *)
(* status, or a thrown SimpleWeb::system_error.                            *)
Outcomes == {"OK", "TOO_MANY_REQUESTS", "OTHER_STATUS", "EXCEPTION"}

VARIABLES
  tasks,        \* m_tasks
  state,        \* m_state
  sinceLastConnectionRequest, \* now - m_lastConnectionRequestTime, capped
  shouldStop,   \* m_shouldStop
  lifecycle,    \* how far Hub::init got: constructed, started, configured
  worker,       \* the worker thread: "none", "run" or "exited"
  stopper,      \* the thread in stop(): "idle", "joining", "returned"
  clientPc,     \* per caller: "idle" or "push" (between check and push)
  sent,         \* per caller: sendEvent calls made so far
  attempts      \* history: per payload, the outcomes of its POSTs

vars == <<tasks, state, sinceLastConnectionRequest, shouldStop, lifecycle,
          worker, stopper, clientPc, sent, attempts>>

TypeOK ==
  /\ tasks \in Seq(Tasks)
  /\ state \in States
  /\ sinceLastConnectionRequest \in 0..ReconnectTimeout
  /\ shouldStop \in BOOLEAN
  /\ lifecycle \in {"constructed", "started", "configured"}
  /\ worker \in {"none", "run", "exited"}
  /\ stopper \in {"idle", "joining", "returned"}
  /\ clientPc \in [Clients -> {"idle", "push"}]
  /\ sent \in [Clients -> 0..EventsPerClient]
  /\ attempts \in [Payloads -> Seq(Outcomes)]

-----------------------------------------------------------------------------
(* Transport::Transport: m_state NO_CONNECTION, m_lastConnectionRequestTime *)
(* the epoch, so the reconnection timeout has long elapsed.                *)
Init ==
  /\ tasks = <<>>
  /\ state = "NO_CONNECTION"
  /\ sinceLastConnectionRequest = ReconnectTimeout
  /\ shouldStop = FALSE
  /\ lifecycle = "constructed"
  /\ worker = "none"
  /\ stopper = "idle"
  /\ clientPc = [c \in Clients |-> "idle"]
  /\ sent = [c \in Clients |-> 0]
  /\ attempts = [p \in Payloads |-> <<>>]

(* Transport::start, called by Hub::init: spawns the worker thread.        *)
start ==
  /\ lifecycle = "constructed"
  /\ lifecycle' = "started"
  /\ worker' = "run"
  /\ UNCHANGED <<tasks, state, sinceLastConnectionRequest, shouldStop,
                 stopper, clientPc, sent, attempts>>

(* Transport::setupClient: installs m_pHttpClient.  Hub::init sets         *)
(* m_initialised right after, so callers may send from here on.            *)
setupClient ==
  /\ lifecycle = "started"
  /\ lifecycle' = "configured"
  /\ UNCHANGED <<tasks, state, sinceLastConnectionRequest, shouldStop,
                 worker, stopper, clientPc, sent, attempts>>

-----------------------------------------------------------------------------
(* addActionToQueue as one step, used by the worker for a retry.           *)
addActionToQueue(q, t) == IF shouldStop THEN q ELSE Append(q, t)

(* sendEvent / addActionToQueue, first half: read m_shouldStop.  When it   *)
(* is set the call returns and the event is silently discarded.            *)
sendEventCheck(c) ==
  /\ lifecycle = "configured"
  /\ clientPc[c] = "idle"
  /\ sent[c] < EventsPerClient
  /\ IF shouldStop
       THEN /\ sent' = [sent EXCEPT ![c] = @ + 1]
            /\ UNCHANGED clientPc
       ELSE /\ clientPc' = [clientPc EXCEPT ![c] = "push"]
            /\ UNCHANGED sent
  /\ UNCHANGED <<tasks, state, sinceLastConnectionRequest, shouldStop,
                 lifecycle, worker, stopper, attempts>>

(* Mutation: the pushed payload numbered one past the call's own.        *)
sendEventPushSkipsId(c) ==
  /\ clientPc[c] = "push"
  /\ tasks' = Append(tasks, [payload |-> <<c, sent[c] + 2>>, retry |-> FALSE])
  /\ sent' = [sent EXCEPT ![c] = @ + 1]
  /\ clientPc' = [clientPc EXCEPT ![c] = "idle"]
  /\ UNCHANGED <<state, sinceLastConnectionRequest, shouldStop, lifecycle,
                 worker, stopper, attempts>>

(* Second half: take m_tasksQueueMutex and push, whatever m_shouldStop    *)
(* and the worker have done since the check.                               *)
sendEventPush(c) ==
  /\ clientPc[c] = "push"
  /\ tasks' = Append(tasks, [payload |-> <<c, sent[c] + 1>>, retry |-> FALSE])
  /\ sent' = [sent EXCEPT ![c] = @ + 1]
  /\ clientPc' = [clientPc EXCEPT ![c] = "idle"]
  /\ UNCHANGED <<state, sinceLastConnectionRequest, shouldStop, lifecycle,
                 worker, stopper, attempts>>

-----------------------------------------------------------------------------
(* sendPost(contents, header, isRetrying) for task t, the rest of the     *)
(* queue being rest: the request, checkResponse and what follows.          *)
RecordAttempt(t, o) == attempts' = [attempts EXCEPT ![t.payload] = Append(@, o)]

(* checkResponse: 200 is success; 429 goes to handleTooManyRequests and   *)
(* also counts as success; any other status is a failure.                  *)
checkResponse(o) == o \in {"OK", "TOO_MANY_REQUESTS"}

(* handleTooManyRequests ends with changeState(DROP_EVENTS) under          *)
(* m_stateMutex; m_retryAfterMilliseconds, which it also sets, is never    *)
(* read (performDropEvents is never called).                               *)
handleTooManyRequests(o) ==
  state' = IF o = "TOO_MANY_REQUESTS" THEN "DROP_EVENTS" ELSE state

(* Mutation: the !isRetrying test dropped, so a retry is retried again.  *)
sendPostRetriesRetries(t, rest) ==
  \E o \in Outcomes :
    /\ RecordAttempt(t, o)
    /\ IF o = "EXCEPTION"
         THEN /\ tasks' = rest
              /\ state' = "NO_CONNECTION"
              /\ sinceLastConnectionRequest' = 0
         ELSE /\ tasks' = IF ~checkResponse(o)
                          THEN addActionToQueue(rest, [payload |-> t.payload, retry |-> TRUE])
                          ELSE rest
              /\ handleTooManyRequests(o)
              /\ UNCHANGED sinceLastConnectionRequest

(* The request either throws SimpleWeb::system_error, caught: NO_CONNECTION *)
(* and the reconnection timer restarted, the payload gone; or returns a    *)
(* status that checkResponse judges, a failure being retried once          *)
(* (sendEventRetry) unless this already is the retry.                      *)
sendPost(t, rest) ==
  \E o \in Outcomes :
    /\ RecordAttempt(t, o)
    /\ IF o = "EXCEPTION"
         THEN /\ tasks' = rest
              /\ state' = "NO_CONNECTION"
              /\ sinceLastConnectionRequest' = 0
         ELSE /\ tasks' = IF ~checkResponse(o) /\ ~t.retry
                          THEN addActionToQueue(rest, [payload |-> t.payload, retry |-> TRUE])
                          ELSE rest
              /\ handleTooManyRequests(o)
              /\ UNCHANGED sinceLastConnectionRequest

reconnectTimeoutReached == sinceLastConnectionRequest >= ReconnectTimeout

(* Mutation: reconnect without waiting for the timeout.                  *)
performNoConnectionEager ==
  /\ state = "NO_CONNECTION"
  /\ state' = "SEND_EVENTS"
  /\ UNCHANGED <<tasks, sinceLastConnectionRequest, attempts>>

performNoConnection ==
  /\ state = "NO_CONNECTION"
  /\ reconnectTimeoutReached
  /\ state' = "SEND_EVENTS"
  /\ UNCHANGED <<tasks, sinceLastConnectionRequest, attempts>>

(* Mutation: the emptiness test off by one, the last task left behind.   *)
performSendEventsKeepsLast ==
  /\ state = "SEND_EVENTS"
  /\ Len(tasks) > 1
  /\ sendPost(Head(tasks), Tail(tasks))

(* Pop the head under the queue mutex and run it.                          *)
performSendEvents ==
  /\ state = "SEND_EVENTS"
  /\ tasks # <<>>
  /\ sendPost(Head(tasks), Tail(tasks))

(* An iteration that changes nothing: the DROP_EVENTS case of the switch  *)
(* is a bare break (performDropEvents is never called), NO_CONNECTION     *)
(* before the timeout, SEND_EVENTS with an empty queue.  The worker spins. *)
performIdle ==
  /\ ~ENABLED (performNoConnection \/ performSendEvents)
  /\ UNCHANGED <<tasks, state, sinceLastConnectionRequest, attempts>>

(* perform(): one iteration of either loop of run().                       *)
perform ==
  /\ worker = "run"
  /\ \/ ~shouldStop         \* while (!m_shouldStop) perform();
     \/ tasks # <<>>        \* while (!m_tasks.empty()) perform();
  /\ \/ performNoConnection
     \/ performSendEvents
     \/ performIdle
  /\ UNCHANGED <<shouldStop, lifecycle, worker, stopper, clientPc, sent>>

(* Mutation: run() without its drain loop, returning on m_shouldStop.    *)
workerExitSkipsDrain ==
  /\ worker = "run"
  /\ shouldStop
  /\ worker' = "exited"
  /\ UNCHANGED <<tasks, state, sinceLastConnectionRequest, shouldStop,
                 lifecycle, stopper, clientPc, sent, attempts>>

(* run() leaves the drain loop once it sees the queue empty.               *)
workerExit ==
  /\ worker = "run"
  /\ shouldStop
  /\ tasks = <<>>
  /\ worker' = "exited"
  /\ UNCHANGED <<tasks, state, sinceLastConnectionRequest, shouldStop,
                 lifecycle, stopper, clientPc, sent, attempts>>

-----------------------------------------------------------------------------
(* Transport::stop, reached from Hub::closeHttpConnection: set the flag,  *)
(* then m_thread.join().                                                   *)
stop ==
  /\ lifecycle = "configured"
  /\ stopper = "idle"
  /\ shouldStop' = TRUE
  /\ stopper' = "joining"
  /\ UNCHANGED <<tasks, state, sinceLastConnectionRequest, lifecycle,
                 worker, clientPc, sent, attempts>>

join ==
  /\ stopper = "joining"
  /\ worker = "exited"
  /\ stopper' = "returned"
  /\ UNCHANGED <<tasks, state, sinceLastConnectionRequest, shouldStop,
                 lifecycle, worker, clientPc, sent, attempts>>

(* The system clock advancing.                                             *)
Tick ==
  /\ sinceLastConnectionRequest < ReconnectTimeout
  /\ sinceLastConnectionRequest' = sinceLastConnectionRequest + 1
  /\ UNCHANGED <<tasks, state, shouldStop, lifecycle, worker, stopper,
                 clientPc, sent, attempts>>

(* Every caller has made its calls and stop() has returned.                *)
Terminated ==
  /\ stopper = "returned"
  /\ \A c \in Clients : sent[c] = EventsPerClient /\ clientPc[c] = "idle"
  /\ UNCHANGED vars

Next ==
  \/ start \/ setupClient
  \/ \E c \in Clients : sendEventCheck(c) \/ sendEventPush(c)
  \/ perform \/ workerExit
  \/ stop \/ join
  \/ Tick
  \/ Terminated

(* The worker and a caller past its check are threads the scheduler keeps *)
(* running; the clock keeps advancing.  Whether callers send at all, and   *)
(* whether anyone ever calls stop(), is up to the application.             *)
Fairness ==
  /\ WF_vars(start) /\ WF_vars(setupClient)
  /\ WF_vars(perform) /\ WF_vars(workerExit)
  /\ \A c \in Clients : WF_vars(sendEventPush(c))
  /\ WF_vars(join)
  /\ WF_vars(Tick)

Spec == Init /\ [][Next]_vars /\ Fairness

-----------------------------------------------------------------------------
(* Properties.                                                             *)

Queued(t) == \E i \in 1..Len(tasks) : tasks[i] = t

Posted(p) == Len(attempts[p]) > 0

(* sendPost's retry policy: a payload is POSTed at most twice, a second    *)
(* time only after a non-200/non-429 status (checkResponse false with      *)
(* isRetrying unset), and a retry task is queued only for a payload whose  *)
(* single attempt so far got such a status.                                *)
RetryDiscipline ==
  \A p \in Payloads :
    /\ Len(attempts[p]) <= 2
    /\ Len(attempts[p]) = 2 => attempts[p][1] = "OTHER_STATUS"
    /\ Queued([payload |-> p, retry |-> TRUE]) => attempts[p] = <<"OTHER_STATUS">>

(* After a send throws, performNoConnection holds the worker back: no POST *)
(* is issued before RECONNECTION_TIMEOUT_MILLISECONDS have elapsed since   *)
(* m_lastConnectionRequestTime.                                           *)
NoPostDuringBackoff ==
  [][\A p \in Payloads : Len(attempts'[p]) > Len(attempts[p]) => reconnectTimeoutReached]_vars

(* A task the running worker still has queued is eventually POSTed, unless *)
(* a 429 has put the transport into DROP_EVENTS: the reconnection timer,   *)
(* the FIFO pop and the drain loop together never starve a task.           *)
DeliveryProgress ==
  \A t \in Tasks :
    (Queued(t) /\ worker = "run")
      ~> (Len(attempts[t.payload]) > (IF t.retry THEN 1 ELSE 0) \/ state = "DROP_EVENTS")

(* stop() "blocks until the queue drains, and joins the worker --          *)
(* guaranteed no task is lost once enqueued while running": once called,  *)
(* stop() returns, and when it has returned m_tasks is empty.  Either half *)
(* failing breaks the contract: a caller past its m_shouldStop check      *)
(* pushing after the worker's last look at the queue, or the worker       *)
(* spinning in the drain loop on a task DROP_EVENTS never pops.           *)
StopDrains == stopper = "joining" ~> (stopper = "returned" /\ tasks = <<>>)

(* The transport implements TransportQueue: with threads, the clock and  *)
(* NO_CONNECTION hidden, the worker POSTs the oldest queued task, queues  *)
(* the one retry at the tail, never POSTs in DROP_EVENTS, exits only when  *)
(* stop() was called and m_tasks is empty, and keeps POSTing while it     *)
(* runs unblocked.                                                         *)
TQ == INSTANCE TransportQueue
        WITH queue <- tasks, posts <- attempts, closing <- shouldStop,
             running <- (worker = "run"), blocked <- (state = "DROP_EVENTS")

ImplementsTransportQueue == TQ!Spec

(* On a transport-level failure the transport "schedules exactly one retry *)
(* of the same payload": a payload whose only POST threw is queued again.  *)
FailedSendRetried ==
  \A p \in Payloads :
    attempts[p] = <<"EXCEPTION">> => Queued([payload |-> p, retry |-> TRUE])

=============================================================================
