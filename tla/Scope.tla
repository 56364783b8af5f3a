------------------------------- MODULE Scope -------------------------------
(***************************************************************************)
(* Sentry::Scope (src/src/scope.cpp): the session context merged into     *)
(* every event -- tags, extras, release and the bounded breadcrumb list.  *)
(* The Scope is not thread-safe itself; Hub wraps its mutators in          *)
(* m_scopeMutex, which is why each operation here is one atomic step.     *)
(*                                                                         *)
(* A map is a total function onto Values \cup {Empty}; Empty ("") stands   *)
(* for an absent key, the only value setValueMap never stores.  A          *)
(* breadcrumb is its position in crumbLog, the history of every crumb     *)
(* ever added, so the retained list can be compared with what was added.  *)
(***************************************************************************)
EXTENDS Naturals, Sequences, SequencesExt

CONSTANTS
  TagKeys,         \* tag keys callers use
  ExtraKeys,       \* extra keys callers use
  Values,          \* non-empty string values
  MaxBreadcrumbs,  \* maxBreadcrumbs of the Hub::init that succeeded
  MaxCrumbs        \* bound on breadcrumbs added in one behaviour

Empty == ""

ASSUME Empty \notin Values
ASSUME MaxBreadcrumbs \in 0..(2^16 - 1) /\ MaxCrumbs \in Nat

VARIABLES
  tags,          \* m_tags
  extras,        \* m_extras
  release,       \* m_release
  breadcrumbs,   \* m_breadcrumbs
  maxBreadcrumbs, \* m_maxBreadcrumbs, a uint16_t
  crumbLog       \* history: every crumb passed to addBreadcrumb, in order

scopeVars == <<tags, extras, release, breadcrumbs, maxBreadcrumbs, crumbLog>>

ScopeTypeOK ==
  /\ tags \in [TagKeys -> Values \cup {Empty}]
  /\ extras \in [ExtraKeys -> Values \cup {Empty}]
  /\ release \in Values \cup {Empty}
  /\ breadcrumbs \in Seq(1..MaxCrumbs)
  /\ maxBreadcrumbs \in 0..(2^16 - 1)
  /\ crumbLog \in Seq(1..MaxCrumbs)

(* Scope::Scope: clear() empties the breadcrumbs, then setDefaultTags     *)
(* calls setTag("user_login", getlogin()) and setTag("server_name",       *)
(* hostname) when getlogin and gethostname succeed; either may fail.       *)
DefaultTagKeys == {"user_login", "server_name"}

ScopeInit ==
  /\ tags \in {m \in [TagKeys -> Values \cup {Empty}] :
                \A k \in TagKeys \ DefaultTagKeys : m[k] = Empty}
  /\ extras = [k \in ExtraKeys |-> Empty]
  /\ release = Empty
  /\ breadcrumbs = <<>>
  /\ maxBreadcrumbs = MaxBreadcrumbs
  /\ crumbLog = <<>>

(* Scope::setValueMap: "" erases the key; otherwise json::emplace, which  *)
(* inserts only when the key is absent and leaves an existing value.       *)
setValueMap(map, key, value) ==
  IF value = Empty THEN [map EXCEPT ![key] = Empty]
  ELSE IF map[key] = Empty THEN [map EXCEPT ![key] = value]
  ELSE map

(* Mutation: evicts at size == bound, one slot short.                    *)
pushBreadcrumbEvictsEarly(list, crumb) ==
  LET pushed == Append(list, crumb)
  IN  IF Len(pushed) >= maxBreadcrumbs THEN Tail(pushed) ELSE pushed

(* Scope::addBreadcrumb: push_back, then pop_front once if over the bound. *)
pushBreadcrumb(list, crumb) ==
  LET pushed == Append(list, crumb)
  IN  IF Len(pushed) > maxBreadcrumbs THEN Tail(pushed) ELSE pushed

-----------------------------------------------------------------------------
ScopeSetTag(k, v) ==
  /\ tags' = setValueMap(tags, k, v)
  /\ UNCHANGED <<extras, release, breadcrumbs, maxBreadcrumbs, crumbLog>>

ScopeSetExtra(k, v) ==
  /\ extras' = setValueMap(extras, k, v)
  /\ UNCHANGED <<tags, release, breadcrumbs, maxBreadcrumbs, crumbLog>>

ScopeSetRelease(v) ==
  /\ release' = v
  /\ UNCHANGED <<tags, extras, breadcrumbs, maxBreadcrumbs, crumbLog>>

(* Scope::setMaxBreadcrumbs: a plain store, no lock taken by its caller. *)
ScopeSetMaxBreadcrumbs(n) ==
  /\ maxBreadcrumbs' = n
  /\ UNCHANGED <<tags, extras, release, breadcrumbs, crumbLog>>

ScopeAddBreadcrumb ==
  /\ Len(crumbLog) < MaxCrumbs
  /\ LET crumb == Len(crumbLog) + 1
     IN  /\ breadcrumbs' = pushBreadcrumb(breadcrumbs, crumb)
         /\ crumbLog' = Append(crumbLog, crumb)
  /\ UNCHANGED <<tags, extras, release, maxBreadcrumbs>>

-----------------------------------------------------------------------------
(* The most recent n elements of s.                                        *)
LastN(s, n) == IF Len(s) <= n THEN s ELSE SubSeq(s, Len(s) - n + 1, Len(s))

(* "adding N breadcrumbs where N > max_breadcrumbs retains exactly the    *)
(* most recent max_breadcrumbs, oldest-first eviction": the list is       *)
(* always the newest MaxBreadcrumbs crumbs added, in insertion order.     *)
BreadcrumbWindow == breadcrumbs = LastN(crumbLog, MaxBreadcrumbs)

=============================================================================
