------------------------------ MODULE SiteStats ------------------------------
(***************************************************************************)
(* What the telemetry registry promises about each construction site: a    *)
(* name fixed once, a count of constructions, a count of observations and  *)
(* a bounded selection of the observed samples, each updated in one step.  *)
(* (The comments of src/src/registry.rs:1-29 and src/src/reservoir.rs:1-6, *)
(* without the threads, the map and the locks that implement them.)        *)
(***************************************************************************)
EXTENDS Naturals, FiniteSets

CONSTANTS Sites, Names, Samples, Cap, Unregistered

VARIABLES
  name,          \* name of each site, or Unregistered
  creations,     \* constructions counted at each site
  observations,  \* samples counted at each site
  retained       \* samples kept for each site

vars == <<name, creations, observations, retained>>

Registered(s) == name[s] # Unregistered

Register(s, n) ==
  /\ ~Registered(s)
  /\ name' = [name EXCEPT ![s] = n]
  /\ UNCHANGED <<creations, observations, retained>>

Create(s) ==
  /\ Registered(s)
  /\ creations' = [creations EXCEPT ![s] = @ + 1]
  /\ UNCHANGED <<name, observations, retained>>

\* Below the capacity the sample is kept; from there on it may take the
\* place of one that is kept, and no other sample is touched.
Observe(s, v) ==
  /\ Registered(s)
  /\ v \notin retained[s]
  /\ observations' = [observations EXCEPT ![s] = @ + 1]
  /\ \/ /\ observations[s] < Cap
        /\ retained' = [retained EXCEPT ![s] = @ \cup {v}]
     \/ /\ observations[s] >= Cap
        /\ \E out \in retained[s] \cup {v} :
             retained' = [retained EXCEPT ![s] = (@ \cup {v}) \ {out}]
  /\ UNCHANGED <<name, creations>>

Init ==
  /\ name = [s \in Sites |-> Unregistered]
  /\ creations = [s \in Sites |-> 0]
  /\ observations = [s \in Sites |-> 0]
  /\ retained = [s \in Sites |-> {}]

Next ==
  \E s \in Sites :
    \/ \E n \in Names : Register(s, n)
    \/ Create(s)
    \/ \E v \in Samples : Observe(s, v)

Spec == Init /\ [][Next]_vars
=============================================================================
