----------------------------- MODULE HostServices -----------------------------
(***************************************************************************)
(* The two services of a process that a host and a VM share, each behind   *)
(* its own mutex: the push registry and the translation service.  A        *)
(* process uses the one or the other here: they have no state in common.   *)
(***************************************************************************)
EXTENDS PushRegistry, TranslationService

hostVars == <<vars, translationVars>>

HostInit == Init /\ TranslationInit

\* A bound: a process that translates registers nothing.
Pushes == ~configuration.enabled

HostNext ==
  \/ Pushes /\ Next /\ UNCHANGED translationVars
  \/ TranslationNext /\ UNCHANGED vars

\* Calls on the registry return, time passes, and the host polls each suite it
\* serves time and again; of the other service, TranslationFairness.
HostFairSpec ==
  /\ HostInit /\ [][HostNext]_hostVars
  /\ WF_vars(Pushes /\ Return) /\ SF_vars(Pushes /\ Tick)
  /\ \A s \in Served : SF_vars(Pushes /\ EligibleLaunchRequests(s))
  /\ TranslationFairness

HostTypeOK == TypeOK /\ TranslationTypeOK
=============================================================================
