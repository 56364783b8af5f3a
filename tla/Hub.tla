-------------------------------- MODULE Hub --------------------------------
(***************************************************************************)
(* Sentry::Hub's capture path (src/src/hub.cpp) driven by several caller  *)
(* threads: captureEvent with its dedup ledger, Scope merge, sampling and  *)
(* hand-off to the transport, the scope mutators setTag, setExtra and     *)
(* addBreadcrumb, lastEventId, and the facade's log (src/src/sentry.cpp), *)
(* called once the Hub is initialised.                                     *)
(*                                                                         *)
(* Locks as in the code: the scope mutators hold m_scopeMutex; the ledger  *)
(* purge and the count-and-insert each hold m_lastEventsListMutex, in two  *)
(* separate sections; Scope::applyToEvent holds nothing.  Transport is     *)
(* reduced to the sequence of event ids handed to sendEvent (the Transport *)
(* module models what happens to them).  Time is whole seconds, as the    *)
(* ISO-8601 timestamps are.                                                *)
(***************************************************************************)
EXTENDS Scope, Integers, FiniteSets

CONSTANTS
  Threads,           \* caller threads
  OpsPerThread,      \* Hub calls each thread makes (bound)
  Messages,          \* values of an event's "message" field
  NoMessage,         \* an event without "message" (exceptions, signals)
  MaxEventsPerInterval,  \* m_maxEventsPerInterval (3)
  RepetitionInterval,    \* m_maxEventsRepetitionIntervalInSeconds (3600)
  SampleRate,        \* sampleRate of the Hub::init that succeeded
  MaxTime            \* bound on the clock, in seconds

ReleaseKey == "release"

ASSUME NoMessage \notin Messages /\ ReleaseKey \notin TagKeys
ASSUME SampleRate \in 0..100 /\ MaxTime \in Nat
ASSUME MaxCrumbs >= Cardinality(Threads) * OpsPerThread

NoId == 0   \* m_lastEventId before any capture: ""

Times == 0..MaxTime
Ids == 1..(Cardinality(Threads) * OpsPerThread)

VARIABLES
  now,          \* the system clock, seconds
  pc,           \* per thread: where in its current Hub call it is
  opsDone,      \* per thread: Hub calls completed
  msg,          \* per thread: the captured event's message
  ts,           \* per thread: captureEvent's timestamp
  eid,          \* per thread: captureEvent's eventId
  nextId,       \* ids handed out by generateUuid so far
  lastEventId,  \* m_lastEventId
  ledger,       \* m_listOfLastUniqueEventsWithTimestamps, entries tagged by id
  sampled,      \* per second: the draw srand(time)/rand() gives in that second
  outbox,       \* ids passed to Transport::sendEvent, in order
  accepted,     \* history: [msg, ts] of every capture that passed dedup
  dropped,      \* history: ids of the captures dedup dropped
  sampleRate    \* m_sampleRate, percent

hubVars == <<now, pc, opsDone, msg, ts, eid, nextId, lastEventId, ledger,
             sampled, outbox, accepted, dropped, sampleRate>>
vars == <<hubVars, scopeVars>>

Pcs == {"idle", "assign", "purge", "check", "apply", "merge", "crumb", "readId"}

LedgerEntry == [msg : Messages, ts : Times, id : Ids]

TypeOK ==
  /\ ScopeTypeOK
  /\ now \in Times
  /\ pc \in [Threads -> Pcs]
  /\ opsDone \in [Threads -> 0..OpsPerThread]
  /\ msg \in [Threads -> Messages \cup {NoMessage}]
  /\ ts \in [Threads -> Times]
  /\ eid \in [Threads -> Ids \cup {NoId}]
  /\ nextId \in 0..Cardinality(Ids)
  /\ lastEventId \in Ids \cup {NoId}
  /\ ledger \subseteq LedgerEntry
  /\ sampled \in [Times -> {"unset", "send", "drop"}]
  /\ outbox \in Seq(Ids)
  /\ accepted \in Seq([msg : Messages, ts : Times])
  /\ dropped \subseteq Ids
  /\ sampleRate \in Int

Init ==
  /\ ScopeInit
  /\ now = 0
  /\ pc = [t \in Threads |-> "idle"]
  /\ opsDone = [t \in Threads |-> 0]
  /\ msg = [t \in Threads |-> NoMessage]
  /\ ts = [t \in Threads |-> 0]
  /\ eid = [t \in Threads |-> NoId]
  /\ nextId = 0
  /\ lastEventId = NoId
  /\ ledger = {}
  /\ sampled = [s \in Times |-> "unset"]
  /\ outbox = <<>>
  /\ accepted = <<>>
  /\ dropped = {}
  /\ sampleRate = SampleRate

-----------------------------------------------------------------------------
(* Thread t finishes its current Hub call.                                 *)
Finish(t) ==
  /\ pc' = [pc EXCEPT ![t] = "idle"]
  /\ opsDone' = [opsDone EXCEPT ![t] = @ + 1]

Goto(t, where) == pc' = [pc EXCEPT ![t] = where] /\ UNCHANGED opsDone

(* Hub::setTag under m_scopeMutex; key "release" goes to setRelease.       *)
setTag(t, k, v) ==
  /\ pc[t] = "idle" /\ opsDone[t] < OpsPerThread
  /\ IF k = ReleaseKey THEN ScopeSetRelease(v) ELSE ScopeSetTag(k, v)
  /\ Finish(t)
  /\ UNCHANGED <<now, msg, ts, eid, nextId, lastEventId, ledger, sampled,
                 outbox, accepted, dropped, sampleRate>>

(* Hub::setExtra under m_scopeMutex.                                       *)
setExtra(t, k, v) ==
  /\ pc[t] = "idle" /\ opsDone[t] < OpsPerThread
  /\ ScopeSetExtra(k, v)
  /\ Finish(t)
  /\ UNCHANGED <<now, msg, ts, eid, nextId, lastEventId, ledger, sampled,
                 outbox, accepted, dropped, sampleRate>>

(* Hub::addBreadcrumb called by the application: build the crumb, then    *)
(* Scope::addBreadcrumb under m_scopeMutex.                                *)
addBreadcrumb(t) ==
  /\ pc[t] = "idle" /\ opsDone[t] < OpsPerThread
  /\ ScopeAddBreadcrumb
  /\ Finish(t)
  /\ UNCHANGED <<now, msg, ts, eid, nextId, lastEventId, ledger, sampled,
                 outbox, accepted, dropped, sampleRate>>

-----------------------------------------------------------------------------
(* captureEvent: eventId = generateUuid(); the thread then writes the    *)
(* shared m_lastEventId, with no lock.                                     *)
captureStart(t, m) ==
  /\ pc[t] = "idle" /\ opsDone[t] < OpsPerThread
  /\ nextId' = nextId + 1
  /\ eid' = [eid EXCEPT ![t] = nextId + 1]
  /\ msg' = [msg EXCEPT ![t] = m]
  /\ Goto(t, "assign")
  /\ UNCHANGED <<now, ts, lastEventId, ledger, sampled, outbox, accepted,
                 dropped, scopeVars, sampleRate>>

(* Hub::captureException: the event is the caller's context with an      *)
(* "exception" member added (its stack comes from backtraceHandler, the    *)
(* Backtrace module); it goes through dedup only when that context has a  *)
(* "message".                                                              *)
captureException(t, m) == captureStart(t, m)

(* Mutation: m_lastEventId set to one past the event's id.               *)
captureAssignIdPastEnd(t) ==
  /\ pc[t] = "assign"
  /\ lastEventId' = eid[t] + 1
  /\ ts' = [ts EXCEPT ![t] = now]
  /\ Goto(t, IF msg[t] = NoMessage THEN "apply" ELSE "purge")
  /\ UNCHANGED <<now, msg, eid, nextId, ledger, sampled, outbox, accepted,
                 dropped, scopeVars, sampleRate>>

(* m_lastEventId = eventId, then the timestamp; only an event with a       *)
(* "message" goes through dedup.                                           *)
captureAssign(t) ==
  /\ pc[t] = "assign"
  /\ lastEventId' = eid[t]
  /\ ts' = [ts EXCEPT ![t] = now]
  /\ Goto(t, IF msg[t] = NoMessage THEN "apply" ELSE "purge")
  /\ UNCHANGED <<now, msg, eid, nextId, ledger, sampled, outbox, accepted,
                 dropped, scopeVars, sampleRate>>

(* mktime's shift for daylight saving time: one hour, the length of     *)
(* m_maxEventsRepetitionIntervalInSeconds (3600 s).                       *)
DstSkew == RepetitionInterval

(* isTimeDiffGreaterThan(entry, currTime, interval): the struct tm's are   *)
(* uninitialised and strptime leaves tm_isdst alone, so mktime may take   *)
(* either time as daylight saving time: the set of results the difference *)
(* can produce, off by an hour either way.                                 *)
isTimeDiffGreaterThan(t1, t2, diff) ==
  {(t2 - t1) + k > diff : k \in {-DstSkew, 0, DstSkew}}

(* removeOldEventsFromList at currTime = now: each entry's age test comes *)
(* out one of its possible ways; for each entry found old enough,         *)
(* erase(entry.first) erases every entry with that message.  The set of   *)
(* ledgers the purge can leave.                                            *)
removeOldEventsFromList(l) ==
  LET Verdicts == {v \in [l -> BOOLEAN] :
                     \A x \in l : v[x] \in isTimeDiffGreaterThan(x.ts, now, RepetitionInterval)}
  IN  {{e \in l : e.msg \notin {x.msg : x \in {y \in l : v[y]}}} : v \in Verdicts}

capturePurge(t) ==
  /\ pc[t] = "purge"
  /\ ledger' \in removeOldEventsFromList(ledger)
  /\ Goto(t, "check")
  /\ UNCHANGED <<now, msg, ts, eid, nextId, lastEventId, sampled, outbox,
                 accepted, dropped, scopeVars, sampleRate>>

CountOf(l, m) == Cardinality({e \in l : e.msg = m})

(* checkIfEventTooOften, the locked half: at the ceiling the event is      *)
(* dropped and captureEvent returns ""; otherwise it is recorded.          *)
checkIfEventTooOften(t) ==
  /\ pc[t] = "check"
  /\ IF CountOf(ledger, msg[t]) >= MaxEventsPerInterval
       THEN /\ Finish(t)
            /\ dropped' = dropped \cup {eid[t]}
            /\ UNCHANGED <<ledger, accepted>>
       ELSE /\ ledger' = ledger \cup {[msg |-> msg[t], ts |-> ts[t], id |-> eid[t]]}
            /\ accepted' = Append(accepted, [msg |-> msg[t], ts |-> ts[t]])
            /\ Goto(t, "apply")
            /\ UNCHANGED dropped
  /\ UNCHANGED <<now, msg, ts, eid, nextId, lastEventId, sampled, outbox,
                 scopeVars, sampleRate>>

(* Scope::applyToEvent starts reading m_breadcrumbs, m_tags, ... without   *)
(* m_scopeMutex.                                                           *)
applyToEventBegin(t) ==
  /\ pc[t] = "apply"
  /\ Goto(t, "merge")
  /\ UNCHANGED <<now, msg, ts, eid, nextId, lastEventId, ledger, sampled,
                 outbox, accepted, dropped, scopeVars, sampleRate>>

(* The rest of captureEvent: finish the merge, dump, sample, sendEvent.   *)
(* srand(time(nullptr)) reseeds every call, so every capture in the same  *)
(* second gets the same draw of rand() % 100.                              *)
SampleChoices(s) ==
  IF sampled[s] # "unset" THEN {sampled[s]}
  ELSE {d \in {"send", "drop"} : /\ (d = "send" => sampleRate > 0)
                                  /\ (d = "drop" => sampleRate < 100)}

captureSend(t) ==
  /\ pc[t] = "merge"
  /\ \E d \in SampleChoices(now) :
       /\ sampled' = [sampled EXCEPT ![now] = d]
       /\ outbox' = IF d = "send" THEN Append(outbox, eid[t]) ELSE outbox
  /\ Goto(t, "crumb")
  /\ UNCHANGED <<now, msg, ts, eid, nextId, lastEventId, ledger, accepted, dropped,
                 scopeVars, sampleRate>>

(* captureEvent ends with addBreadcrumb(event), under m_scopeMutex.        *)
captureBreadcrumb(t) ==
  /\ pc[t] = "crumb"
  /\ ScopeAddBreadcrumb
  /\ Finish(t)
  /\ UNCHANGED <<now, msg, ts, eid, nextId, lastEventId, ledger, sampled,
                 outbox, accepted, dropped, sampleRate>>

(* Sentry::lastEventId: Hub::lastEventId returns a reference to the       *)
(* shared m_lastEventId, which the facade then copies into its result.     *)
lastEventIdRef(t) ==
  /\ pc[t] = "idle" /\ opsDone[t] < OpsPerThread
  /\ Goto(t, "readId")
  /\ UNCHANGED <<now, msg, ts, eid, nextId, lastEventId, ledger, sampled,
                 outbox, accepted, dropped, scopeVars, sampleRate>>

lastEventIdCopy(t) ==
  /\ pc[t] = "readId"
  /\ Finish(t)
  /\ UNCHANGED <<now, msg, ts, eid, nextId, lastEventId, ledger, sampled,
                 outbox, accepted, dropped, scopeVars, sampleRate>>

(* EventLevel (src/include/sentry_common.h): LEVEL_DEBUG = -1 .. FATAL.    *)
Levels == -1..3
LEVEL_ERROR == 2

(* Sentry::log: at LEVEL_ERROR or above an event {message, level} goes to *)
(* captureEvent, below it a breadcrumb to addBreadcrumb.                   *)
log(t, level, m) ==
  IF level >= LEVEL_ERROR THEN captureStart(t, m) ELSE addBreadcrumb(t)

Tick ==
  /\ now < MaxTime
  /\ now' = now + 1
  /\ UNCHANGED <<pc, opsDone, msg, ts, eid, nextId, lastEventId, ledger,
                 sampled, outbox, accepted, dropped, scopeVars, sampleRate>>

Terminated ==
  /\ \A t \in Threads : pc[t] = "idle" /\ opsDone[t] = OpsPerThread
  /\ now = MaxTime
  /\ UNCHANGED vars

Next ==
  \/ \E t \in Threads :
       \/ \E k \in TagKeys \cup {ReleaseKey}, v \in Values \cup {Empty} : setTag(t, k, v)
       \/ \E k \in ExtraKeys, v \in Values \cup {Empty} : setExtra(t, k, v)
       \/ addBreadcrumb(t)
       \/ \E m \in Messages \cup {NoMessage} : captureStart(t, m)
       \/ captureAssign(t)
       \/ \E m \in Messages \cup {NoMessage} : captureException(t, m)
       \/ capturePurge(t)
       \/ checkIfEventTooOften(t)
       \/ applyToEventBegin(t)
       \/ captureSend(t)
       \/ captureBreadcrumb(t)
       \/ lastEventIdRef(t)
       \/ lastEventIdCopy(t)
       \/ \E level \in Levels, m \in Messages : log(t, level, m)
  \/ Tick
  \/ Terminated

Spec == Init /\ [][Next]_vars

-----------------------------------------------------------------------------
(* "dedup ledger never reports more than the configured ceiling of        *)
(* identical messages inside the retention window": in every window of    *)
(* RepetitionInterval seconds, at most MaxEventsPerInterval captures of   *)
(* one message pass dedup.                                                 *)
DedupCeiling ==
  \A m \in Messages, s \in Times :
    Cardinality({i \in 1..Len(accepted) :
                   /\ accepted[i].msg = m
                   /\ accepted[i].ts <= s
                   /\ s - accepted[i].ts <= RepetitionInterval}) <= MaxEventsPerInterval

(* The Hub's shared mutable state is free of data races: no thread writes *)
(* m_lastEventId while another is writing or copying it (captureEvent's   *)
(* unlocked assignment against another capture or Sentry::lastEventId),   *)
(* and no thread mutates the Scope while another is inside                *)
(* Scope::applyToEvent reading it.                                         *)
NoDataRace ==
  /\ [](\A t \in Threads : pc[t] = "assign" =>
          \A u \in Threads \ {t} : pc[u] \notin {"assign", "readId"})
  /\ [][(tags' # tags \/ extras' # extras \/ release' # release
         \/ breadcrumbs' # breadcrumbs)
        => \A t \in Threads : pc[t] # "merge"]_vars

=============================================================================
