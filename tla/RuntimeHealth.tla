---------------------------- MODULE RuntimeHealth ----------------------------
(***************************************************************************)
(* The two processes of the system as their health probes see them: the    *)
(* worker (ConsumerHealth) and the API (ApiRuntime).  They share nothing   *)
(* but the services they check, so a behaviour is one of either.           *)
(***************************************************************************)
EXTENDS ConsumerHealth, ApiRuntime

vars == <<healthVars, apiVars>>

Init == (HealthInit /\ ApiOff) \/ (HealthOff /\ ApiInit)
Next == (HealthNext /\ UNCHANGED apiVars) \/ (ApiNext /\ UNCHANGED healthVars)
FairSpec == Init /\ [][Next]_vars /\ HealthFairness /\ ApiFairness

\* What the probes and the shutdown of both processes never do: keep a proof of a
\* session that is gone, leave a worker ready behind an ended probe, use a closed
\* channel, or close the process over work or writers that are still open.
RuntimeSafe == HealthSafe /\ ApiSafe

\* Readiness comes back when faults stop, and both processes end when told to.
RuntimeSettles == HealthSettles /\ ApiSettles
=============================================================================
