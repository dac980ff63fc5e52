------------------------------ MODULE Reporters ------------------------------
(***************************************************************************)
(* reporters/: what an OTelReporter and, called after it, a TextReporter   *)
(* or a JSONReporter make of the callbacks of several scans that share     *)
(* them.  A scan calls them in the order that module Scan guarantees       *)
(* (ReporterProtocol), from one goroutine for each execution.  Each step   *)
(* of a callback is what it does between two points where another          *)
(* goroutine can interfere: the map of spans, the mutexes, the tracer.     *)
(*                                                                         *)
(* An execution is <<s, k>>: scan s runs the check and resource of key k.  *)
(* A span is named after the execution, or the scan, it was started for.   *)
(***************************************************************************)
EXTENDS Naturals, Sequences, FiniteSets, Functions

CONSTANTS Scan,    \* the scans
          Key,     \* the spanKeys: a check, and a resource or none
          None,    \* no key, no span
          Before,  \* the scans that are over when a scan begins
          Results, \* the statuses of the results of checks
          Formats, \* the writers: "text", "json"
          MaxLost  \* how often the underlying writer fails

ASSUME ScansAssumption  == /\ IsFiniteSet(Scan) /\ IsFiniteSet(Key)
                           /\ Before \in [Scan -> SUBSET Scan]
\* "Use one reporter per concurrent scan" (otel.go:64): those that share one take turns.
ASSUME InTurnAssumption == \A s, t \in Scan : s = t \/ s \in Before[t] \/ t \in Before[s]
\* The names of executions, of scans and of lines are kept apart.
ASSUME NamesAssumption  == /\ None \notin Key \cup Scan /\ {"start", "complete"} \cap Key = {}
                           /\ None \notin Scan \X (Key \cup {None, "start", "complete"})
ASSUME WriterAssumption == Formats \subseteq {"text", "json"} /\ MaxLost \in Nat
ASSUME ResultsAssumption == Results \subseteq {"passed", "failed", "error", "skipped"}

VARIABLES
  format,   \* which of the writers the scans have
  phase,    \* where the goroutine of each scan is
  pc,       \* where the goroutine of each execution is
  result,   \* the status each execution reports
  local,    \* the span, or the parent, each callback under way has in hand
  spans,    \* the spans started: their parent, how often they ended, and what is on them
  active,   \* activeSpans
  scanSpan, \* scanSpan, and the span of scanCtx
  metrics,  \* what the counters and histograms were given
  lines,    \* the lines handed to the writer, and whether they were written
  err       \* the error the writer remembers: the line it came with, or None

vars == <<format, phase, pc, result, local, spans, active, scanSpan, metrics, lines, err>>

Exec    == Scan \X Key
Root(s) == <<s, None>>
Of(s)   == {s} \X Key

Init == /\ format \in Formats
        /\ phase = [s \in Scan |-> "idle"] /\ pc = [e \in Exec |-> "idle"]
        /\ result = [e \in Exec |-> "none"]
        /\ local = [e \in Exec \cup {Root(s) : s \in Scan} |-> None]
        /\ spans = [x \in {} |-> {}] /\ active = [k \in {} |-> None] /\ scanSpan = None
        /\ metrics = [executions |-> [r \in Results \cup {"skipped"} |-> 0],
                       durations |-> 0, scans |-> 0]
        /\ lines = <<>> /\ err = None

Put(f, k, v)    == [x \in DOMAIN f \cup {k} |-> IF x = k THEN v ELSE f[x]]
Without(f, k)   == [x \in DOMAIN f \ {k} |-> f[x]]
Goto(e, from, to)     == pc[e] = from /\ pc' = [pc EXCEPT ![e] = to]
ScanGoto(s, from, to) == phase[s] = from /\ phase' = [phase EXCEPT ![s] = to]

-----------------------------------------------------------------------------
(* The tracer: what is done to a span that has ended leaves no trace.      *)

Started(sp, x, parent) ==
  Put(sp, x, [parent |-> parent, ended |-> 0, skips |-> {}, status |-> "none"])
Noted(sp, x, e) == IF sp[x].ended = 0 THEN [sp EXCEPT ![x].skips = @ \cup {e}] ELSE sp
Ended(sp, x, r) == [sp EXCEPT ![x].status = IF sp[x].ended = 0 THEN r ELSE @, ![x].ended = @ + 1]

-----------------------------------------------------------------------------
(* The writer.                                                             *)

Lost == {i \in DOMAIN lines : ~lines[i].ok}

\* One Write under the mutex.  The encoder of a JSONReporter returns its first error
\* again and writes no more.
Write(line, ok) == /\ IF format = "json" /\ err # None THEN ~ok
                                                      ELSE ok \/ Cardinality(Lost) < MaxLost
                   /\ lines' = Append(lines, [of |-> line, ok |-> ok])

\* Mutant: the last error is remembered.
EmitLast(line) == \E ok \in BOOLEAN :
  Write(line, ok) /\ err' = IF ~ok THEN line ELSE err

\* printf and emit keep the first error.
Emit(line) == \E ok \in BOOLEAN :
  Write(line, ok) /\ err' = IF ~ok /\ err = None THEN line ELSE err

-----------------------------------------------------------------------------
(* OnScanStart.                                                            *)

StartScan(s) == /\ \A t \in Before[s] : phase[t] = "over"
                /\ ScanGoto(s, "idle", "starting")
                /\ spans' = Started(spans, Root(s), None)
                /\ UNCHANGED <<format, pc, result, local, active, scanSpan, metrics, lines, err>>

SetScan(s) == /\ ScanGoto(s, "starting", "header")
              /\ scanSpan' = Root(s)
              /\ UNCHANGED <<format, pc, result, local, spans, active, metrics, lines, err>>

Header(s) == /\ ScanGoto(s, "header", "open")
             /\ Emit(<<s, "start">>)
             /\ UNCHANGED <<format, pc, result, local, spans, active, scanSpan, metrics>>

-----------------------------------------------------------------------------
(* OnCheckStart.                                                           *)

\* checkParent.
Parent(e) == /\ phase[e[1]] = "open"
             /\ Goto(e, "idle", "parent")
             /\ local' = [local EXCEPT ![e] = scanSpan]
             /\ UNCHANGED <<format, phase, result, spans, active, scanSpan, metrics, lines, err>>

Open(e) == /\ Goto(e, "parent", "running")
           /\ spans' = Started(spans, e, local[e])
           /\ active' = Put(active, e[2], e)
           /\ UNCHANGED <<format, phase, result, local, scanSpan, metrics, lines, err>>

-----------------------------------------------------------------------------
(* OnCheckComplete.                                                        *)

\* Mutant: the span stays in the map.
TakeLoading(e) == \E r \in Results \cup {"skipped"} :
  /\ phase[e[1]] = "open"
  /\ \/ Goto(e, "running", "taken") /\ r \in Results
     \/ Goto(e, "idle", "taken") /\ r = "skipped"
  /\ result' = [result EXCEPT ![e] = r]
  /\ local' = [local EXCEPT ![e] = IF e[2] \in DOMAIN active THEN active[e[2]] ELSE None]
  /\ UNCHANGED <<format, phase, spans, active, scanSpan, metrics, lines, err>>

\* LoadAndDelete, for a result that was announced or for a skip that was not.
Take(e) == \E r \in Results \cup {"skipped"} :
  /\ phase[e[1]] = "open"
  /\ \/ Goto(e, "running", "taken") /\ r \in Results
     \/ Goto(e, "idle", "taken") /\ r = "skipped"
  /\ result' = [result EXCEPT ![e] = r]
  /\ local' = [local EXCEPT ![e] = IF e[2] \in DOMAIN active THEN active[e[2]] ELSE None]
  /\ active' = Without(active, e[2])
  /\ UNCHANGED <<format, phase, spans, scanSpan, metrics, lines, err>>

Unstarted(e) == local[e] = None /\ result[e] = "skipped"

\* Mutant: a skip without a span has a duration of nothing.
CountedAll(e, started) == [metrics EXCEPT !.executions[result[e]] = @ + 1, !.durations = @ + 1]

\* The counters: no duration for what never started.
Counted(e, started) == [metrics EXCEPT !.executions[result[e]] = @ + 1,
                                       !.durations = IF started THEN @ + 1 ELSE @]

\* The span is completed and ended; without one, and without a skip to tell, only the
\* counters are left.
End(e) == /\ ~Unstarted(e) /\ Goto(e, "taken", "line")
          /\ spans' = IF local[e] = None THEN spans ELSE Ended(spans, local[e], result[e])
          /\ metrics' = Counted(e, local[e] # None)
          /\ UNCHANGED <<format, phase, result, local, active, scanSpan, lines, err>>

\* recordSkipEvent: the scan's span is looked up, then told.
Look(e) == /\ Unstarted(e) /\ Goto(e, "taken", "event")
           /\ local' = [local EXCEPT ![e] = scanSpan]
           /\ UNCHANGED <<format, phase, result, spans, active, scanSpan, metrics, lines, err>>

Event(e) == /\ Goto(e, "event", "line")
            /\ spans' = IF local[e] = None THEN spans ELSE Noted(spans, local[e], e)
            /\ metrics' = Counted(e, FALSE)
            /\ UNCHANGED <<format, phase, result, local, active, scanSpan, lines, err>>

Line(e) == /\ Goto(e, "line", "done")
           /\ Emit(e)
           /\ UNCHANGED <<format, phase, result, local, spans, active, scanSpan, metrics>>

-----------------------------------------------------------------------------
(* OnScanComplete.                                                         *)

\* Mutant: the scan's span is not forgotten.
SwapKeeping(s) == /\ \/ ScanGoto(s, "open", "closing") /\ \A e \in Of(s) : pc[e] = "done"
                     \/ ScanGoto(s, "idle", "closing") /\ \A t \in Before[s] : phase[t] = "over"
                  /\ local' = [local EXCEPT ![Root(s)] = scanSpan]
                  /\ UNCHANGED <<format, pc, result, spans, active, scanSpan, metrics, lines, err>>

\* After the last result, or at once for a scan that is refused before it starts.
Swap(s) == /\ \/ ScanGoto(s, "open", "closing") /\ \A e \in Of(s) : pc[e] = "done"
              \/ ScanGoto(s, "idle", "closing") /\ \A t \in Before[s] : phase[t] = "over"
           /\ local' = [local EXCEPT ![Root(s)] = scanSpan]
           /\ scanSpan' = None
           /\ UNCHANGED <<format, pc, result, spans, active, metrics, lines, err>>

\* A scan that never started gets a span now, so that its failure is visible.
Close(s) == LET root == local[Root(s)] IN
  /\ ScanGoto(s, "closing", "footer")
  /\ spans' = IF root = None THEN Ended(Started(spans, Root(s), None), Root(s), "summary")
                             ELSE Ended(spans, root, "summary")
  /\ metrics' = [metrics EXCEPT !.scans = @ + 1]
  /\ UNCHANGED <<format, pc, result, local, active, scanSpan, lines, err>>

Footer(s) == /\ ScanGoto(s, "footer", "over")
             /\ Emit(<<s, "complete">>)
             /\ UNCHANGED <<format, pc, result, local, spans, active, scanSpan, metrics>>

-----------------------------------------------------------------------------

OfScan(s) == StartScan(s) \/ SetScan(s) \/ Header(s) \/ Swap(s) \/ Close(s) \/ Footer(s)
OfExec(e) == Parent(e) \/ Open(e) \/ Take(e) \/ End(e) \/ Look(e) \/ Event(e) \/ Line(e)

Next == (\E s \in Scan : OfScan(s)) \/ \E e \in Exec : OfExec(e)
Spec == Init /\ [][Next]_vars

-----------------------------------------------------------------------------
(* Properties.                                                             *)

Over(s) == phase[s] = "over"

\* "The spans form a tree" (otel.go:25): a check's span belongs to its own scan's and ends
\* once, with its own result, before that one does; a scan's span ends once, when
\* the scan does, and no span is left open behind it.  Scans that share the reporter
\* one after another keep their spans apart, although they use the same keys.
SpanTree ==
  /\ \A e \in Exec \cap DOMAIN spans :
       /\ spans[e].parent = Root(e[1]) /\ spans[e].ended <= 1
       /\ spans[e].ended = 1 => spans[e].status = result[e]
       /\ spans[e].ended = 0 => spans[Root(e[1])].ended = 0
  /\ \A s \in Scan : Root(s) \in DOMAIN spans =>
       /\ spans[Root(s)].parent = None
       /\ spans[Root(s)].ended = IF phase[s] \in {"footer", "over"} THEN 1 ELSE 0
  /\ \A s \in Scan : Over(s) => Root(s) \in DOMAIN spans

\* Every result that was reported is in the trace of its own scan, once.  If its start
\* was announced, it is on a span of its own, which has ended with it, also when the
\* check skipped itself: the span is then marked check.skipped (otel.go:172), and no event
\* tells of it.  Only "a check that was skipped without ever starting" (otel.go:227) is
\* an event on the scan's span.  (otel.go:26 promises that event, and no span, of every
\* skipped check; the reason it gives is that skips are not announced.)
EveryResultTraced == \A e \in Exec : pc[e] \in {"line", "done"} =>
  LET told == {x \in DOMAIN spans : e \in spans[x].skips}
  IN  IF e \in DOMAIN spans
      THEN spans[e].ended = 1 /\ spans[e].status = result[e] /\ told = {}
      ELSE result[e] = "skipped" /\ told = {Root(e[1])}

\* The metrics say what the results say: each counts once under its status, those
\* that ran have a duration, "recording a zero would drag the histogram down"
\* (otel.go:210), and every scan has one.
Reported == {e \in Exec : pc[e] \in {"line", "done"}}

MetricsAgree ==
  /\ \A r \in DOMAIN metrics.executions :
       metrics.executions[r] = Cardinality({e \in Reported : result[e] = r})
  /\ metrics.durations = Cardinality(Reported \cap DOMAIN spans)
  /\ metrics.scans = Cardinality({s \in Scan : phase[s] \in {"footer", "over"}})

\* "Err returns the first error" (text.go:30) and "a write error never interrupts the
\* scan": every result and the summary are still offered to the writer, a text
\* loses only the lines that failed, and JSON Lines have no hole, they stop.
FirstErrorKept ==
  /\ IF Lost = {} THEN err = None
                  ELSE \E i \in Lost : err = lines[i].of /\ \A j \in Lost : i <= j
  /\ format = "json" => \A i \in Lost : \A j \in i..Len(lines) : j \in Lost
  /\ \A s \in Scan : Over(s) =>
       \A x \in {<<s, "complete">>} \cup {e \in Of(s) : pc[e] = "done"} :
         Cardinality({i \in DOMAIN lines : lines[i].of = x}) = 1
=============================================================================
