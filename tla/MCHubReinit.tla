---------------------------- MODULE MCHubReinit ----------------------------
(* Two caller threads making two calls each, the Hub configured with a    *)
(* two-slot breadcrumb list: one thread adds two breadcrumbs and the      *)
(* other re-inits with maxBreadcrumbs 1 or -1 and a sample rate of 0 or  *)
(* the configured 50.                                                     *)
EXTENDS HubReinit, TLC

CONSTANTS t1, t2, NoMsg

MCThreads == {t1, t2}

(* -1 is "leave m_maxBreadcrumbs alone". *)
MCBreadcrumbOptions == {-1, 1}

ThreadSymmetry == Permutations(MCThreads)
=============================================================================
