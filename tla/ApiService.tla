----------------------------- MODULE ApiService -----------------------------
(***************************************************************************)
(* The HTTP API as one service: the requests of tenants, the rate limiter  *)
(* in front of them, and the analytics that requests are answered with.    *)
(* They share no variable; a step of the service is a step of one of them. *)
(***************************************************************************)
EXTENDS TenantApi, RateLimiter, WalletAnalytics, ActivityAnalytics

serviceVars == <<apiVars, limVars, anVars, acVars>>

ServiceInit == ApiInit /\ LimInit /\ AnInit /\ AcInit

ServiceNext ==
    \/ ApiNext /\ UNCHANGED <<limVars, anVars, acVars>>
    \/ LimNext /\ UNCHANGED <<apiVars, anVars, acVars>>
    \/ AnNext /\ UNCHANGED <<apiVars, limVars, acVars>>
    \/ AcNext /\ UNCHANGED <<apiVars, limVars, anVars>>

ServiceSpec == ServiceInit /\ [][ServiceNext]_serviceVars

-----------------------------------------------------------------------------
(* Properties. *)

\* Types of the requests' tables and of the analytics rows; foreign keys of jobs,
\* subscriptions and matches.
TypesOK == ApiTypeOK /\ AnTypeOK

\* Reports add up though rows arrive in any order, are materialized again, and are
\* read table by table while wallets are rebuilt: market and traders, settled
\* totals, forensics, protocol activity and TVL.
ReportsAddUp ==
    MarketIsSumOfTraders /\ NetIsSettled /\ ForensicsAddsUp /\ ActivityCountsOnce /\ TvlIsLatest
=============================================================================
