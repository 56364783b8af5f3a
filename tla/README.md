# TLA+ models of the Sentry C++ client

This directory holds TLA+ specifications of `src/`, the Sentry C++ client library:

- TLC configurations that check them;
- `PROJECT.json`, which records:
  - which source lines each definition stands for;
  - every run;
  - the mutants that show each checked property can fail;
  - the findings;
  - the hazards the code is exposed to.

## 1. The system

The library's parts, as the source has them:

| Part | Source | State | Operations | Threads |
|------|--------|-------|------------|---------|
| Public API | `src/src/sentry.cpp` | one static `Hub mainHub` | `init`, `captureEvent`, `addBreadcrumb`, `setTag`, `setExtra`, `lastEventId`, `log`: each checks `isInitialised` and forwards | any application thread |
| Hub | `src/src/hub.cpp` | `m_lastEventId`, the dedup multimap `m_listOfLastUniqueEventsWithTimestamps` under `m_lastEventsListMutex`, the Scope under `m_scopeMutex`, `m_sampleRate`, `m_pHttpClient` | `init` (parse DSN, create and start Transport, `setupClient`, `installHandler`), `captureEvent`, `captureException`, `addBreadcrumb`, `setTag`, `setExtra`, `closeHttpConnection` (also from the destructor), `terminationHandler`, `signalsHandler` | callers; handlers run on whichever thread faults |
| Scope | `src/src/scope.cpp` | tags, extras, release, level, user, transaction, bounded breadcrumb deque | setters, `addBreadcrumb` (push then pop_front), `applyToEvent` | not thread-safe; Hub locks around mutators only |
| Transport | `src/src/transport.cpp` | FIFO `m_tasks` of lambdas under `m_tasksQueueMutex`, atomic `m_shouldStop`, `m_state` ∈ {NO_CONNECTION, SEND_EVENTS, DROP_EVENTS}, `m_lastConnectionRequestTime` | `start` (spawn worker), `setupClient`, `sendEvent`/`sendEventRetry` → `addActionToQueue`, worker `run` → `perform` → `performNoConnection`/`performSendEvents`, `sendPost` (request, `checkResponse`, `handleTooManyRequests`, catch), `stop` (set flag, join) | one worker thread plus the callers |
| Backtrace | `src/src/backtracehandler.cpp` | none (pure, plus bfd I/O) | `getStacktraceJSON`, `createBacktraceSymbols` (size_t frame window), `getContextLines` (line window), `FrameInfo` parsing | the faulting thread |
| DSN / common | `transport.cpp` `parseDSN`, `sentry_common.*` | none | regex parse, logging | — |

How the parts interact:

- A capture runs on the caller's thread through the API, the Hub and the Scope, and ends with `Transport::sendEvent`. That call enqueues a lambda.
- The worker pops lambdas, one per `perform()` iteration, while in SEND_EVENTS.
- A 5xx-style status re-enqueues the payload once, with `isRetrying` set.
- An exception moves the worker to NO_CONNECTION, and it waits `RECONNECTION_TIMEOUT_MILLISECONDS` before it sends again.
- A 429 moves it to DROP_EVENTS.
- `stop()` (Hub destructor, terminate and signal handlers) raises the flag. The worker then drains the queue and exits, and `stop()` joins it.

What makes this code hard:

- the caller's check of `m_shouldStop` and its push are two steps;
- the worker spins and never sleeps;
- `captureEvent`'s dedup runs in two separate critical sections, with a timestamp taken before either;
- `applyToEvent` reads the scope with no lock;
- the fault handlers re-enter the same machinery from arbitrary threads;
- `size_t` arithmetic in the backtrace code.

## 2. Modules

| Module | Models | Variables ↔ code |
|--------|--------|------------------|
| `TransportQueue.tla` | what the Transport promises, with no threads, clock or connection states: a FIFO of accepted payloads that a running worker POSTs from the head, one retry at the tail after a non-200/429 status (unless closing), no POST after a 429, and exit only when closing with an empty queue | `queue`, `posts` (outcomes per payload), `closing`, `running`, `blocked` |
| `Transport.tla` | the Transport and its lifecycle as Hub drives it | `tasks` = `m_tasks` (a task is `[payload, retry]`: `retry` is `sendEventRetry`'s `isRetrying`); `state` = `m_state`; `sinceLastConnectionRequest` = now − `m_lastConnectionRequestTime`, capped at the timeout; `shouldStop`; `worker` = the thread (`none`/`run`/`exited`); `stopper` = the thread inside `stop()`; `clientPc` = a caller between its check (line 118) and its push (120–121); `attempts` = history of POST outcomes per payload |
| `Scope.tla` | the `Scope` constructor (with `setDefaultTags`, whose `getlogin`/`gethostname` may fail) and its mutators as Hub calls them (each atomic: Hub holds `m_scopeMutex`) | `tags`, `extras`, `release`, `breadcrumbs`, `maxBreadcrumbs` = `m_maxBreadcrumbs` (a `uint16_t`; `setMaxBreadcrumbs` stores it); history `crumbLog` (every crumb added) |
| `Hub.tla` (EXTENDS Scope) | `captureEvent` split at its lock boundaries, plus `captureException`, `setTag`/`setExtra`/`addBreadcrumb`, `lastEventId` and the facade's `log` (an error or above is a capture, anything below a breadcrumb), for a set of threads | `pc[t]` ∈ idle → assign → purge → check → apply → merge → crumb: the unlocked write of `m_lastEventId` (a step of its own, so two writers can meet), `removeOldEventsFromList`'s section, the count-and-insert section, the unlocked `applyToEvent`, then the dump/sample/`sendEvent`, then `addBreadcrumb` under `m_scopeMutex`; `ledger` = the multimap (entries tagged by event id so duplicates are distinct); `lastEventId` = `m_lastEventId`; `sampled[s]` = the draw `srand(time)` fixes for second `s`; `outbox` = ids handed to `sendEvent`; histories `accepted` (captures that passed dedup) and `dropped` (ids dedup dropped); `pc[t]` = readId is `Sentry::lastEventId` copying the string `Hub::lastEventId` returned a reference to |
| `HubReinit.tla` (EXTENDS Hub) | the Hub, already initialised, while the application calls `Sentry::init` again with a DSN `parseDSN` rejects: `initRejected` is `Hub::init` up to its WRONG_DSN return (`setMaxBreadcrumbs` with the `uint16_t` cast unless the option is −1, then `m_sampleRate`). A call with no DSN returns NO_DSN before the Hub and changes nothing. | Hub's, with `sampleRate` = `m_sampleRate`; in the `hub` run neither it nor `maxBreadcrumbs` ever changes |
| `FrameInfo.tla` | `translateAddressesBuf`'s output line and the `FrameInfo` constructor that parses it, as pure operators over sequences of one-character strings | `find`/`rfind`/`substr` with `npos` = 2^Width − 1 and `size_t` wrap, `stoul` with base 0 (hex, octal, decimal, `invalid_argument` when no digit) |
| `Backtrace.tla` | `getStacktraceJSON`'s two loops, one iteration per step: `createBacktraceSymbols`' `size_t` countdown with each address's resolution, and `getContextLines`' read loop at the line the innermost frame's parse gives | `i` and `ci` = the `size_t` counters (arithmetic `% 2^Width`); `frames` = the indices emitted; `res` = what bfd gave for the last frame; `pc` also records a capture that died (`thrown`, `crashed`); `consumed`/`eof` = the `ifstream` position and eofbit; `pre`/`ctx`/`post` = the three attachments. A file's line k has text k, and `""` is 0. `RefFrames`, `RefPre`, `RefCtx`, `RefPost` and `ExpectedFrame` are the spec's windows and frame. |
| `FaultPath.tla` | `Sentry::init` and `Hub::init` (the DSN from the option or `$SENTRY_DSN`; NO_DSN and WRONG_DSN return before anything starts), a second `init`, `installHandler`, `terminationHandler`, `signalsHandler` on the application thread or the worker, against the locks and the `m_thread` they reach | `apc`/`wpc` = where each thread is; `qHolder`/`sHolder` = `m_tasksQueueMutex`/`m_scopeMutex`; `joined` = `m_thread` no longer joinable; `disp` = each signal's disposition (`FAULT` stands for every caught signal but SIGABRT); `hkind`/`hpc` = the handler running on a thread and its next step (the sampling draw, `addActionToQueue`'s `m_shouldStop` check, its `lock_guard`, the scope lock, stop, join, raise or the chained terminate); `misuse` = a `std::thread` precondition was broken |
| `MCTransport`, `MCHub`, `MCHubReinit`, `MCBacktrace`, `MCFaultPath` | model values for threads and clients, thread symmetry, the callers' `skip` pairs, the paths, names and addresses bfd may return | — |

Each action is one atomic step of the code between two points where another thread can observe or interfere:

- a lock section;
- an atomic read;
- the gap between two lock sections.

Data is abstracted:

- a payload is `<<client, n>>`;
- an event id is a counter;
- a message is a model value;
- timestamps are whole seconds, as the ISO-8601 strings are;
- the HTTP exchange is a choice among 200, 429, other status and a thrown `system_error`;
- what bfd finds for an address is a choice among a file/line/name (either may be missing), "in no section", and `processFile` returning `nullptr`. Only the text between bfd and the frame JSON is kept character by character, because the parse is what can fail.

`perform`'s no-op iterations are modelled explicitly as `performIdle`:

- DROP_EVENTS's bare `break`;
- NO_CONNECTION before the timeout;
- SEND_EVENTS with an empty queue.

The busy loop therefore appears as stuttering, so a stuck `stop()` shows up as a liveness violation rather than as a deadlock.

**Refinement.** `Transport` instantiates `TransportQueue` with `queue <- tasks`, `posts <- attempts`, `closing <- shouldStop`, `running <- (worker = "run")` and `blocked <- (state = "DROP_EVENTS")`. `ImplementsTransportQueue` (the abstract `Spec`, fairness included) is a PROPERTY of the `transport` run. Every Transport step is an abstract step or a stutter:

- the push of `addActionToQueue` is `Accept`;
- `sendPost` is `Post`;
- `stop` is `Close`;
- `run`'s return is `Exit`;
- the clock, state changes other than to DROP_EVENTS, and the idle iterations are stutters.

**Clock skew.** `isTimeDiffGreaterThan` (hub.cpp:371) fills two uninitialised `struct tm`s with `strptime`, which leaves `tm_isdst` as it was. `mktime` may therefore read either time as daylight saving time. The model lets each age test be off by −1 h, 0 or +1 h (`DstSkew`). Against a one-hour window, that is the whole interval.

## 3. Runs

| Run | Expect | What it checks |
|-----|--------|----------------|
| `transport` (`Transport.cfg`) | pass | **RetryDiscipline:** a payload is POSTed at most twice, a second time only after a non-200/429 status, and a retry task exists only for such a payload. **NoPostDuringBackoff:** no POST while the reconnection timeout has not elapsed. **DeliveryProgress:** every task the running worker holds is eventually POSTed, unless a 429 put it in DROP_EVENTS. **ImplementsTransportQueue:** the refinement above, liveness included. |
| `transport_stop_drains` | violation | **StopDrains:** the spec's `stop()` contract is that it blocks until the queue drains, joins, and loses no task enqueued while running. Once called, `stop()` must return with `m_tasks` empty. It fails in two independent ways. (1) A caller passes the `m_shouldStop` check, `stop()` runs, the worker drains and exits, then the caller pushes, and `stop()` returns with the task stranded; this is the shortest trace. (2) After a 429, DROP_EVENTS is never left (the `case` is a bare `break`), so with a task queued `run`'s drain loop spins and `stop()` never returns; with (1) ruled out, TLC finds this one. |
| `transport_exception_not_retried` | violation | **FailedSendRetried:** the spec promises one retry after a transport failure, but the `catch` drops the payload. |
| `hub` (`Hub.cfg`) | pass | **BreadcrumbWindow:** the breadcrumb deque is always exactly the newest `MaxBreadcrumbs` crumbs, in order, whichever of `addBreadcrumb` and `captureEvent`'s trailing crumb interleave. |
| `hub_failed_reinit` (`MCHubReinit`) | violation | **BreadcrumbBound:** "breadcrumb count never exceeds max_breadcrumbs". Two breadcrumbs are added, then a second `Sentry::init` with a malformed DSN and `maxBreadcrumbs` 1 returns WRONG_DSN, but only after `Hub::init` has stored the new bound (and the sample rate). The deque holds two against a bound of one, and stays so, because `addBreadcrumb` pops at most one per push. |
| `hub_dedup_ceiling` | violation | **DedupCeiling:** more than `MaxEventsPerInterval` captures of one message pass dedup inside one interval. There are three independent causes: (1) the erase-all `erase(entry.first)` (hub.cpp:406); (2) the timestamp taken before the purge's clock read; (3) the DST skew. The shortest trace shows (2). With (1) and (2) repaired, the skew alone still fails, and without the skew the property holds. |
| `hub_data_race` | violation | **NoDataRace:** the Hub's shared state is accessed by two threads at once with no lock ordering them. Two `captureEvent`s write `m_lastEventId` together (the shortest trace: both have generated their ids), `Sentry::lastEventId` can copy it mid-write, and a scope mutator can run while another thread is inside the unlocked `applyToEvent`. |
| `backtrace` (`Backtrace.cfg`) | pass | **FramesMatchReference:** a capture that completes emits exactly the frames between `skip_front` and `nFrames - skip_back`, outermost first. **ContextLineExact:** `context_line` is the frame's line, or `""` when the file is missing or shorter. **FrameInfoRoundTrip:** FrameInfo's parse of `translateAddressesBuf`'s `"%s:%u %s %lu"` gives back exactly the path, file name, line, function and address bfd found. This covers `"??"` files and names with spaces; the `npos + 1` wrap and the clipped wrapped counts are what make it work. |
| `backtrace_capture_aborts` | violation | **CaptureCompletes:** the spec says a resolution failure degrades one frame and never aborts the capture. In the code, `processFile`'s `nullptr` is read through by `strlen(location[0])` (a SIGSEGV), and for an address in no section FrameInfo's `stoul("??:0")` throws `std::invalid_argument`. |
| `backtrace_context_window` | violation | **ContextWindow:** `pre_context`/`post_context` are not the spec's window. An extra `""` comes from the `eof()`-before-`getline` loop, and `lineNo - 4` wraps in `size_t` for the first lines of a file, dropping their pre-context. |
| `fault_thread_contract` | violation | **ThreadContract:** `m_thread` is joined by itself (a signal, or `std::terminate` from an exception escaping the worker such as `stoul` on an HTTP-date `Retry-After`, on the worker), joined twice (terminate, then SIGABRT from the chained `abort`), or destroyed while joinable (a second `init`). |
| `fault_hang` | violation | **FaultTerminates:** a handler that interrupts a thread inside its `m_scopeMutex` or `m_tasksQueueMutex` section waits in `captureEvent` for the lock its own thread holds, and the process never ends. The shortest trace is `terminationHandler` on the application thread inside `setTag`'s section, stuck at `addBreadcrumb`'s lock. With that case removed, TLC finds a signal inside `addActionToQueue`'s section, stuck at its own `lock_guard`. The handler's lock acquisitions are strongly fair, so no trace relies on another thread starving the handler. |

Each passing property has a mutant in `PROJECT.json`: a plausible bug in the mapped definition, which TLC then catches. Examples:

- eviction at `>=`;
- a retry that is retried again;
- reconnecting without the timeout;
- a worker that exits without draining, caught by the refinement;
- a file name that keeps its `/`.

Observations that are not runs:

- `setValueMap` uses `json::emplace`, so a second `setTag` on a key keeps the first value. This includes `server_name`, which `setDefaultTags` sets first. The spec does not say a tag is overwritten, so the model keeps this as the behaviour, not as a finding.
- A source path containing a space gives FrameInfo a wrong function name. The `PROJECT.json` hazards list records it.
- The same failed re-`init` also sets `m_sampleRate`. A rejected init with sample rate 0 silently turns sending off. No property is stated about the rate, because the spec states sampling only as a per-event probability.
- `m_lastEventId` is set before dedup, so after a capture that dedup drops (it returns `""`), `Sentry::lastEventId` names an event that was never emitted, against the comment at sentry.cpp:119. Two steps show it; the hazards list records it.

### Bounds

**Transport:**

- 2 clients × 2 events;
- reconnection timeout of 2 ticks;
- about 60k distinct states.

Two clients make the check/push race and FIFO interleavings of retries possible. Two events each let a retry be queued behind a fresh task. A timeout of 2 separates "just failed" from "timeout reached" with a tick in between. Three events per client did not finish within 10 minutes, because of the liveness checks.

**Hub:**

- 2 threads × 2 operations;
- one message;
- ceiling 2, window 1 s, 3 seconds of clock;
- `MaxBreadcrumbs` 2 with up to 4 crumbs;
- the tag key `server_name`, which the constructor may already have set;
- about 4.7M distinct states, in about 2 minutes.

Together this gives captures of one message across a window boundary, the smallest case where the ceiling, the purge, the skew and eviction all act. Thread symmetry is sound because threads are interchangeable model values that no property names.

**HubReinit:** the Hub's bounds, with a re-`init` passing `maxBreadcrumbs` −1 or 1 and sample rate 0 or 50. Two crumbs in a two-slot list, then a bound of one, is the shortest sequence in which the bound falls below the deque.

**Backtrace:**

- `size_t` of 5 bits;
- up to 10 frames, with the two callers' skips: `(3, 2)` from `signalsHandler` and `(6, 2)` from `captureException`;
- `deltaLines` = 4, the code's value;
- files of up to 8 lines, with or without a final newline;
- resolutions: `/s/a.c` or no file; lines 0–9; names `f`, `g(a, b)` or none; address 0x5d; "in no section"; and no symbols;
- about 68k distinct states;

Lines 1–3 exercise the wrap, and lines 5–9 in files of 4–8 lines exercise the end of file. The width is the smallest that keeps every unwrapped value, and every output line (at most 17 characters), below `2^Width - 1`. A wrap is therefore always distinguishable, as on a 64-bit build.

**FaultPath:**

- the application thread and the worker;
- one fault (`MaxFaults` = 1).

One fault is enough, because the second handler in every trace (SIGABRT after terminate) is a consequence of the first, not a new fault.

### Fairness

Transport assumes weak fairness of:

- the worker's `perform` and `workerExit`: the OS keeps scheduling a runnable busy-looping thread;
- a caller that has passed its check (`sendEventPush`);
- `start`, `setupClient` and `join`;
- the clock.

Whether a caller sends at all, or calls `stop()`, is the application's choice and gets no fairness. The abstract `TransportQueue` asks for weak fairness only of start, POST and exit, which that implies. Hub checks only safety and assumes no fairness.

Backtrace assumes weak fairness of its two loops: the code runs them to the end on one thread. A capture that throws or crashes ends there, and the model stutters.

FaultPath assumes weak fairness of:

- every handler step other than taking a mutex;
- leaving a critical section;
- the worker's loop;
- the exit path's join;
- strong fairness of a handler taking `m_tasksQueueMutex` or `m_scopeMutex`: a lock that other threads keep releasing is eventually granted, so a handler can be held back for ever only by a lock that is never released;
- and strong fairness of the worker's exit once `m_shouldStop` is set: its drain loop pops a finite queue, so between its pops the exit is enabled again and again, and it eventually takes it.

It assumes no fairness for whether the application calls anything or a fault occurs. `fault_hang` sets `CHECK_DEADLOCK FALSE` because the process really stops: a dead process is final, and a handler blocked on its own thread's mutex leaves no step enabled. The liveness property is what reports the latter.

## 4. Not modelled (yet), and why

- **The content of a handler's event** (the stack trace is `Backtrace.tla`'s subject) and its dedup section, which an event with no `message` skips.
- **DSN parsing, header formatting, JSON layout, logging.** These are string conversions that no property depends on.
- **bfd's symbol tables and line lookup, and `__cxa_demangle`.** These are library code. Their results are inputs to `Backtrace`.
- **Context lines for every frame.** The model reads them for the innermost frame only. The code does the same for each frame.
- **`m_retryAfterMilliseconds`.** It is written but never used (`performDropEvents` is dead code).
- **The address lookup** (`dl_iterate_phdr` with `findMatchingFile`, the rebase on `dlpi_addr`, and `bfd_map_over_sections` with `findAddressInSection`). Its unsigned bounds tests could differ from plain arithmetic only at the top of the address space, where no loaded segment ends. A model of it could only restate its guards, so which module and section an address falls in is part of the resolution input.
- **The data race on `m_tasks.empty()`.** It is taken as an atomic read, and the hazards list records it.
- **`Sentry::init`'s `setTag` of release and environment** (an ordinary locked `setTag`) and `getErrorDescription` (a string table).
- **Scope setters that nothing in `src/` calls:** `setUser`, `setTransaction`, `setLevel`, `setTags`, `setExtras`, `clear`.
- **`m_isSourceAvailable`**, which a re-`init` also writes. It only decides whether frames get context lines, and the Backtrace module reads context lines whatever it is.
- **The unlocked `setMaxBreadcrumbs`** racing a locked `addBreadcrumb`. `initRejected` is one atomic step. `NoDataRace` already shows that the scope is not race-free.

## 5. Plan

Done so far:

- Transport, with its abstract queue and the refinement;
- Scope;
- Hub's capture path, including the DST skew;
- Backtrace, with FrameInfo and resolution failures;
- FaultPath, with `Sentry::init`'s DSN outcomes;
- the unlocked `m_lastEventId` write as a data race;
- a failed re-`init` (`HubReinit`), with `m_maxBreadcrumbs` and `m_sampleRate` as variables;
- the handler's sampling draw and `addActionToQueue`'s check and lock as separate steps, with strongly fair lock acquisition, so that `fault_hang`'s traces are the self-deadlocks;
- `stop()`'s contract as one property (`StopDrains`), replacing the two half-properties that checked its drain and its return separately.

Next sittings, in order:

1. **`lastEventId` after a dropped capture**, as a run of its own. The project is at twelve runs, so a run has to be retired for it.
2. **FaultPath.** A passing run for a fixed handler (recursive-safe locking, a stop guarded by `joinable()` and the calling thread's id) that shows `FaultTerminates` can hold.
3. **A composition.** Hub's `sendEvent` feeding `Transport`'s queue.
