----------------------------- MODULE HubReinit -----------------------------
(***************************************************************************)
(* The Hub of module Hub, initialised, while the application calls        *)
(* Sentry::init (src/src/sentry.cpp) again with a DSN parseDSN rejects.   *)
(* Nothing in the facade or the Hub refuses a second init, and Hub::init  *)
(* writes its configuration before it parses the DSN: a call that returns *)
(* WRONG_DSN has already stored m_maxBreadcrumbs and m_sampleRate.  (A    *)
(* call with no DSN at all returns NO_DSN before reaching the Hub and     *)
(* changes nothing.)                                                       *)
(***************************************************************************)
EXTENDS Hub

CONSTANTS
  BreadcrumbOptions,   \* SentryOptions::maxBreadcrumbs values passed (-1: keep)
  SampleRateOptions    \* SentryOptions::sampleRate values passed

(* Hub::init up to the failed parseDSN: setMaxBreadcrumbs(static_cast<    *)
(* uint16_t>(maxBreadcrumbs)) unless it is -1, m_sampleRate = sampleRate, *)
(* then WRONG_DSN; Sentry::init returns it to the caller.                 *)
initRejected(t, maxBc, rate) ==
  /\ pc[t] = "idle" /\ opsDone[t] < OpsPerThread
  /\ IF maxBc # -1 THEN ScopeSetMaxBreadcrumbs(maxBc % 2^16)
                   ELSE UNCHANGED scopeVars
  /\ sampleRate' = rate
  /\ Finish(t)
  /\ UNCHANGED <<now, msg, ts, eid, nextId, lastEventId, ledger, sampled,
                 outbox, accepted, dropped>>

ReinitNext ==
  \/ Next
  \/ \E t \in Threads, maxBc \in BreadcrumbOptions, rate \in SampleRateOptions :
       initRejected(t, maxBc, rate)

ReinitSpec == Init /\ [][ReinitNext]_vars

-----------------------------------------------------------------------------
(* "breadcrumb count never exceeds max_breadcrumbs": the list Scope keeps *)
(* is never longer than the bound Scope::addBreadcrumb trims it to.        *)
BreadcrumbBound == Len(breadcrumbs) <= maxBreadcrumbs

=============================================================================
