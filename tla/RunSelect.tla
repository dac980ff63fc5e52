----------------------------- MODULE RunSelect -----------------------------
(***************************************************************************)
(* run_options.go, unknownOnly and filter: which of the checks it was      *)
(* given one Run works on.  The seeds are the checks the options keep; a   *)
(* worklist then pulls in what they depend on, directly or not, except     *)
(* what WithExclude names.  The worklist starts in the order of a Go map,  *)
(* which is random, so any of its members may come next.                   *)
(***************************************************************************)
EXTENDS FiniteSets

CONSTANTS ID,         \* the IDs checks can have
          Graphs,     \* the dependencies considered
          Options     \* the run options considered

\* The IDs of WithOnly, those of WithExclude, and the checks that pass every predicate
\* of the WithFilter family.
Option == [only : SUBSET ID, exclude : SUBSET ID, kept : SUBSET ID]

ASSUME GraphsAssumption  == Graphs \subseteq [ID -> SUBSET ID]
ASSUME OptionsAssumption == IsFiniteSet(ID) /\ Options \subseteq Option

VARIABLES dependsOn,     \* the dependencies of the check with each ID
          options,       \* the run options
          given,         \* the IDs of the checks given to filter
          selected,      \* the map of the same name
          queue,         \* the worklist
          phase          \* where the Run is, or what it led to

selectVars == <<dependsOn, options, given, selected, queue, phase>>

SelectInit == /\ dependsOn \in Graphs /\ options \in Options
              /\ given = {} /\ selected = {} /\ queue = {}
              /\ phase = "idle"

Unrestricted == options.only = {} /\ options.exclude = {} /\ given \subseteq options.kept

\* An empty WithOnly restricts nothing.
Seeds == {c \in given \ options.exclude :
            (options.only = {} \/ c \in options.only) /\ c \in options.kept}

Take(checks) == given' = checks /\ UNCHANGED <<dependsOn, options, selected, queue>>

\* unknownOnly stops the run; without any option the checks are left as they are.
Unknown == /\ phase = "select"
           /\ ~(options.only \subseteq given)
           /\ phase' = "unknown ID"
           /\ UNCHANGED <<dependsOn, options, given, selected, queue>>

Select == /\ phase = "select"
          /\ options.only \subseteq given
          /\ selected' = IF Unrestricted THEN given ELSE Seeds
          /\ queue'    = IF Unrestricted THEN {} ELSE Seeds
          /\ phase'    = IF Unrestricted THEN "done" ELSE "close"
          /\ UNCHANGED <<dependsOn, options, given>>

\* Mutants: one level of dependencies only; a known dependency is queued again.
PopShallow(id) ==
  LET new == IF id \in given THEN (dependsOn[id] \ options.exclude) \ selected ELSE {}
  IN  /\ phase = "close" /\ id \in queue
      /\ selected' = selected \cup new
      /\ queue' = queue \ {id}
      /\ UNCHANGED <<dependsOn, options, given, phase>>
PopAgain(id) ==
  LET new == IF id \in given THEN dependsOn[id] \ options.exclude ELSE {}
  IN  /\ phase = "close" /\ id \in queue
      /\ selected' = selected \cup new
      /\ queue' = (queue \ {id}) \cup new
      /\ UNCHANGED <<dependsOn, options, given, phase>>

\* One turn of the worklist: an ID that names no check is left alone.
Pop(id) ==
  LET new == IF id \in given THEN (dependsOn[id] \ options.exclude) \ selected ELSE {}
  IN  /\ phase = "close" /\ id \in queue
      /\ selected' = selected \cup new
      /\ queue' = (queue \ {id}) \cup new
      /\ UNCHANGED <<dependsOn, options, given, phase>>

Close == /\ phase = "close" /\ queue = {}
         /\ phase' = "done"
         /\ UNCHANGED <<dependsOn, options, given, selected, queue>>

Selection == Unknown \/ Select \/ Close \/ \E id \in ID : Pop(id)

\* The checks handed to run, and whether levels will find one that is not there.
Filtered    == selected \cap given
Dangling(S) == \E c \in S : ~(dependsOn[c] \subseteq S)
=============================================================================
