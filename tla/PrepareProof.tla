---------------------------- MODULE PrepareProof ----------------------------
(***************************************************************************)
(* What a Run works on, for any batches, graphs and options.  A batch is   *)
(* appended as a whole while its registrar holds the lock, so the list     *)
(* never holds a part of one (Registered), and a Run copies the list       *)
(* between two of them.  The worklist never selects what a closed set      *)
(* around the seeds does not hold (Least), and what it has worked off is   *)
(* closed (Closing).                                                       *)
(***************************************************************************)
EXTENDS Prepare, TLAPS

Check == [id : ID, by : Registrar \cup {New}]

Types == /\ batch \in [Registrar \cup {New} -> Seq(ID)] /\ checks \in Seq(Check)
         /\ pc \in [Registrar -> {"idle", "locked", "rejected", "registered"}]

Registered ==
  /\ Distinct(checks)
  /\ initErr = ~Valid(<<>>, Batch(New))
  /\ \A p \in Registrar : IF pc[p] = "registered" THEN Whole(checks, p) ELSE Places(checks, p) = {}

EngineInv == Types /\ Registered

-----------------------------------------------------------------------------
(* Registration.                                                           *)

LEMMA BatchType ==
  ASSUME Types, NEW p \in Registrar \cup {New}
  PROVE  /\ Batch(p) \in Seq(Check) /\ Len(Batch(p)) = Len(batch[p]) /\ DOMAIN Batch(p) = DOMAIN batch[p]
         /\ \A i \in DOMAIN batch[p] : Batch(p)[i].id = batch[p][i] /\ Batch(p)[i].by = p
<1>1. batch[p] \in Seq(ID)
  BY DEF Types
<1>2. DOMAIN batch[p] = 1..Len(batch[p]) /\ \A i \in 1..Len(batch[p]) : batch[p][i] \in ID
  BY <1>1
<1>3. Batch(p) = [i \in 1..Len(batch[p]) |-> [id |-> batch[p][i], by |-> p]]
  BY <1>2 DEF Batch
<1> QED
  BY <1>1, <1>2, <1>3 DEF Check

LEMMA AppendBatch ==
  ASSUME EngineInv, NEW p \in Registrar, pc[p] # "registered"
  PROVE  LET cs == checks \o Batch(p) IN
         /\ cs \in Seq(Check) /\ Whole(cs, p)
         /\ \A q \in Registrar \ {p} : /\ Places(cs, q) = Places(checks, q)
                                       /\ Whole(checks, q) => Whole(cs, q)
<1> DEFINE cs == checks \o Batch(p)
           n == Len(checks)
           m == Len(batch[p])
<1>1. /\ checks \in Seq(Check) /\ Batch(p) \in Seq(Check) /\ Len(Batch(p)) = m
      /\ DOMAIN batch[p] = 1..m /\ n \in Nat /\ m \in Nat
      /\ \A i \in 1..m : Batch(p)[i].id = batch[p][i] /\ Batch(p)[i].by = p
  BY BatchType DEF EngineInv, Types
<1>2. /\ cs \in Seq(Check) /\ Len(cs) = n + m
      /\ \A i \in 1..n : cs[i] = checks[i]
      /\ \A i \in 1..m : cs[n + i] = Batch(p)[i]
  <2> DEFINE b == Batch(p)
  <2>1. checks \in Seq(Check) /\ b \in Seq(Check) /\ Len(b) = m
    BY <1>1
  <2> HIDE DEF b, m
  <2>2. /\ checks \o b \in Seq(Check) /\ Len(checks \o b) = Len(checks) + Len(b)
        /\ \A i \in 1..Len(checks) : (checks \o b)[i] = checks[i]
        /\ \A i \in 1..Len(b) : (checks \o b)[Len(checks) + i] = b[i]
    BY <2>1
  <2> QED
    BY <2>1, <2>2 DEF b
<1>3. Places(checks, p) = {}
  BY DEF EngineInv, Registered
<1> HIDE DEF cs, n, m
<1>0. n \in Nat /\ m \in Nat
  BY <1>1
<1>4. DOMAIN checks = 1..n /\ DOMAIN cs = 1..(n + m)
  BY <1>1, <1>2 DEF n
<1>5. \A i \in (n + 1)..(n + m) : i - n \in 1..m /\ i = n + (i - n)
  BY <1>0
<1>6. \A i \in (n + 1)..(n + m) : cs[i].by = p
  <2>1. \A j \in 1..m : cs[n + j].by = p
    BY <1>1, <1>2
  <2> QED
    BY <1>5, <2>1
<1>7. \A i \in 1..(n + m) : i \in 1..n \/ i \in (n + 1)..(n + m)
  BY <1>0
<1>8. Places(cs, p) = {n + i : i \in DOMAIN batch[p]}
  <2>1. \A i \in 1..n : cs[i].by # p
    BY <1>2, <1>3, <1>4 DEF Places
  <2>2. \A i \in DOMAIN cs : i \in Places(cs, p) <=> i \in (n + 1)..(n + m)
    BY <1>4, <1>6, <1>7, <2>1 DEF Places
  <2>3. Places(cs, p) = (n + 1)..(n + m)
    BY <1>1, <1>4, <2>2 DEF Places
  <2>4. {n + i : i \in 1..m} = (n + 1)..(n + m)
    BY <1>1, <1>5
  <2> QED
    BY <1>1, <2>3, <2>4
<1>9. Whole(cs, p)
  <2>1. n \in 0..Len(cs)
    BY <1>1, <1>2
  <2>2. \A i \in DOMAIN batch[p] : cs[n + i].id = batch[p][i]
    BY <1>1, <1>2
  <2> QED
    BY <1>8, <2>1, <2>2 DEF Whole
<1>10. ASSUME NEW q \in Registrar \ {p}
       PROVE  Places(cs, q) = Places(checks, q) /\ (Whole(checks, q) => Whole(cs, q))
  <2>1. Places(cs, q) = Places(checks, q)
    BY <1>1, <1>2, <1>4, <1>6, <1>7 DEF Places
  <2>2. ASSUME Whole(checks, q) PROVE Whole(cs, q)
    <3>1. PICK k \in 0..n : /\ Places(checks, q) = {k + i : i \in DOMAIN batch[q]}
                            /\ \A i \in DOMAIN batch[q] : checks[k + i].id = batch[q][i]
      BY <2>2 DEF Whole, n
    <3>2. \A i \in DOMAIN batch[q] : k + i \in 1..n
      BY <1>4, <3>1 DEF Places
    <3>3. \A i \in DOMAIN batch[q] : cs[k + i].id = batch[q][i]
      BY <1>2, <3>1, <3>2
    <3>4. k \in 0..Len(cs)
      BY <1>1, <1>2
    <3> QED
      BY <2>1, <3>1, <3>3, <3>4 DEF Whole
  <2> QED
    BY <2>1, <2>2
<1> QED
  BY <1>2, <1>9, <1>10 DEF cs

LEMMA RegistrationInv ==
  ASSUME EngineInv, Registration
  PROVE  /\ EngineInv' /\ batch' = batch /\ initErr' = initErr
         /\ \A p \in Registrar : pc[p] = "registered" => pc'[p] = "registered"
<1>1. PICK p \in Registrar : Lock(p) \/ Reject(p) \/ Accept(p)
  BY DEF Registration
<1>2. batch' = batch /\ initErr' = initErr
  BY <1>1 DEF Lock, Reject, Accept
<1>3. Valid(<<>>, Batch(New))' <=> Valid(<<>>, Batch(New))
  BY <1>2 DEF Valid, Distinct, IDs, Batch
<1>4. CASE Lock(p) \/ Reject(p)
  <2>1. /\ checks' = checks
        /\ \E to \in {"locked", "rejected"} : pc' = [pc EXCEPT ![p] = to]
        /\ pc[p] \in {"idle", "locked"}
    BY <1>4 DEF Lock, Reject, Goto
  <2>2. Types' /\ \A q \in Registrar : pc[q] = "registered" <=> pc'[q] = "registered"
    BY <1>2, <2>1 DEF EngineInv, Types
  <2>3. \A q \in Registrar : (Whole(checks, q)' <=> Whole(checks, q)) /\ Places(checks, q)' = Places(checks, q)
    BY <1>2, <2>1 DEF Whole, Places
  <2>4. Distinct(checks)'
    BY <2>1 DEF EngineInv, Registered, Distinct
  <2> QED
    BY <1>2, <1>3, <2>2, <2>3, <2>4 DEF EngineInv, Registered
<1>5. CASE Accept(p)
  <2>1. /\ checks' = checks \o Batch(p) /\ pc' = [pc EXCEPT ![p] = "registered"]
        /\ pc[p] = "locked" /\ Distinct(checks \o Batch(p))
    BY <1>5 DEF Accept, Goto, Valid
  <2>2. /\ checks' \in Seq(Check) /\ Whole(checks \o Batch(p), p)
        /\ \A q \in Registrar \ {p} : /\ Places(checks \o Batch(p), q) = Places(checks, q)
                                      /\ Whole(checks, q) => Whole(checks \o Batch(p), q)
    BY <2>1, AppendBatch
  <2>3. \A q \in Registrar : /\ Whole(checks, q)' <=> Whole(checks \o Batch(p), q)
                             /\ Places(checks, q)' = Places(checks \o Batch(p), q)
    BY <1>2, <2>1 DEF Whole, Places
  <2>4. Distinct(checks)'
    BY <2>1 DEF Distinct
  <2>5. Types'
    BY <1>2, <2>1, <2>2 DEF EngineInv, Types
  <2>6. /\ pc'[p] = "registered" /\ \A q \in Registrar \ {p} : pc'[q] = pc[q]
    BY <2>1 DEF EngineInv, Types
  <2>7. \A q \in Registrar : IF pc'[q] = "registered" THEN Whole(checks, q)' ELSE Places(checks, q)' = {}
    BY <2>2, <2>3, <2>6 DEF EngineInv, Registered
  <2> QED
    BY <1>2, <1>3, <2>4, <2>5, <2>6, <2>7 DEF EngineInv, Registered
<1> QED
  BY <1>1, <1>2, <1>4, <1>5

-----------------------------------------------------------------------------
(* What the Run copied.                                                    *)

Copied ==
  /\ phase \in {"idle", "refused", "select", "unknown ID", "close", "done"}
  /\ phase = "idle" => seen = <<>>
  /\ AllOrNothing

LEMMA InitCopied == Init => EngineInv /\ Copied
<1> SUFFICES ASSUME Init PROVE EngineInv /\ Copied
  OBVIOUS
<1>1. batch \in [Registrar \cup {New} -> Seq(ID)]
  BY BatchesAssumption DEF Init, EngineInit
<1>2. /\ pc = [p \in Registrar |-> "idle"] /\ initErr = ~Valid(<<>>, Batch(New))
      /\ checks = IF initErr THEN <<>> ELSE Batch(New)
      /\ seen = <<>> /\ phase = "idle"
  BY DEF Init, EngineInit, SelectInit
<1>3. /\ DOMAIN Batch(New) = DOMAIN batch[New]
      /\ \A i \in DOMAIN Batch(New) : Batch(New)[i].by = New
  BY DEF Batch
<1>4. Batch(New) \in Seq(Check)
  <2>1. batch[New] \in Seq(ID)
    BY <1>1
  <2>2. DOMAIN batch[New] = 1..Len(batch[New]) /\ \A i \in 1..Len(batch[New]) : batch[New][i] \in ID
    BY <2>1
  <2>3. Batch(New) = [i \in 1..Len(batch[New]) |-> [id |-> batch[New][i], by |-> New]]
    BY <2>2 DEF Batch
  <2> QED
    BY <2>1, <2>2, <2>3 DEF Check
<1>5. Distinct(<<>>) /\ \A p \in Registrar : Places(<<>>, p) = {}
  BY DEF Distinct, Places
<1>6. <<>> \o Batch(New) = Batch(New)
  BY <1>4
<1>7. Types
  BY <1>1, <1>2, <1>4 DEF Types
<1>8. \A p \in Registrar : Places(checks, p) = {}
  BY <1>2, <1>3, <1>5, NamesAssumption DEF Places
<1>9. Distinct(checks)
  BY <1>2, <1>5, <1>6 DEF Valid
<1>10. EngineInv
  BY <1>2, <1>7, <1>8, <1>9 DEF EngineInv, Registered
<1>11. Copied
  BY <1>2, <1>5 DEF Copied, AllOrNothing
<1> QED
  BY <1>10, <1>11

LEMMA NextCopied == EngineInv /\ Copied /\ [Next]_vars => (EngineInv /\ Copied)'
<1> SUFFICES ASSUME EngineInv, Copied, [Next]_vars PROVE (EngineInv /\ Copied)'
  OBVIOUS
<1>1. ASSUME UNCHANGED engineVars
      PROVE  /\ EngineInv' /\ (Valid(<<>>, Batch(New))' <=> Valid(<<>>, Batch(New)))
             /\ pc' = pc /\ batch' = batch /\ checks' = checks
  <2>1. batch' = batch /\ checks' = checks /\ initErr' = initErr /\ pc' = pc
    BY <1>1 DEF engineVars
  <2>2. /\ Valid(<<>>, Batch(New))' <=> Valid(<<>>, Batch(New))
        /\ Distinct(checks)' <=> Distinct(checks)
    BY <2>1 DEF Distinct, Valid, IDs, Batch
  <2>3. \A p \in Registrar : Places(checks, p)' = Places(checks, p) /\ (Whole(checks, p)' <=> Whole(checks, p))
    BY <2>1 DEF Places, Whole
  <2> QED
    BY <2>1, <2>2, <2>3 DEF EngineInv, Types, Registered
<1>2. CASE Registration /\ UNCHANGED <<selectVars, callVars>>
  <2>1. /\ seen' = seen /\ scenario' = scenario /\ phase' = phase
    BY <1>2 DEF selectVars, callVars
  <2>2. /\ EngineInv' /\ batch' = batch
        /\ \A p \in Registrar : pc[p] = "registered" => pc'[p] = "registered"
    BY <1>2, RegistrationInv
  <2>3. /\ Valid(<<>>, Batch(New))' <=> Valid(<<>>, Batch(New))
        /\ Distinct(seen)' <=> Distinct(seen)
    BY <2>1, <2>2 DEF Valid, Distinct, IDs, Batch
  <2>4. \A p \in Registrar : Places(seen, p)' = Places(seen, p) /\ (Whole(seen, p)' <=> Whole(seen, p))
    BY <2>1, <2>2 DEF Places, Whole
  <2>5. Listed(scenario)' = Listed(scenario)
    BY <2>1 DEF Listed
  <2> QED
    BY <2>1, <2>2, <2>3, <2>4, <2>5 DEF Copied, AllOrNothing
<1>3. CASE Run
  <2>1. /\ seen' = checks /\ scenario' = None /\ phase = "idle"
        /\ phase' = IF initErr THEN "refused" ELSE "select"
        /\ UNCHANGED engineVars
    BY <1>3 DEF Run
  <2>2. \A p \in Registrar : Places(seen, p)' = Places(checks, p) /\ (Whole(seen, p)' <=> Whole(checks, p))
    BY <1>1, <2>1 DEF Places, Whole
  <2>3. Distinct(seen)'
    BY <2>1 DEF EngineInv, Registered, Distinct
  <2>4. \A p \in Registrar : Places(seen, p)' = {} \/ (pc'[p] = "registered" /\ Whole(seen, p)')
    BY <1>1, <2>1, <2>2 DEF EngineInv, Registered
  <2> QED
    BY <1>1, <2>1, <2>3, <2>4 DEF Copied, AllOrNothing, EngineInv, Registered
<1>4. CASE RunScenario
  <2>1. /\ seen' = Listed(scenario) /\ scenario' = scenario /\ scenario # None /\ phase' = "select"
        /\ UNCHANGED engineVars
    BY <1>4 DEF RunScenario
  <2> QED
    BY <1>1, <2>1 DEF Copied, AllOrNothing, Listed
<1>5. CASE (Selection /\ UNCHANGED <<engineVars, callVars>>) \/ UNCHANGED vars
  <2>1. /\ seen' = seen /\ scenario' = scenario /\ UNCHANGED engineVars
        /\ phase' = phase \/ (phase \in {"select", "close"} /\ phase' \in {"unknown ID", "done", "close"})
    <3>1. CASE UNCHANGED vars
      BY <3>1 DEF vars, selectVars, callVars
    <3>2. CASE Selection /\ UNCHANGED <<engineVars, callVars>>
      <4>1. phase \in {"select", "close"} /\ phase' \in {"unknown ID", "done", "close"}
        BY <3>2 DEF Selection, Unknown, Select, Close, Pop
      <4> QED
        BY <3>2, <4>1 DEF callVars
    <3> QED
      BY <1>5, <3>1, <3>2
  <2>2. \A p \in Registrar : Places(seen, p)' = Places(seen, p) /\ (Whole(seen, p)' <=> Whole(seen, p))
    <3>1. seen' = seen /\ batch' = batch
      BY <1>1, <2>1
    <3> QED
      BY <3>1 DEF Places, Whole
  <2>3. Distinct(seen)' <=> Distinct(seen)
    BY <2>1 DEF Distinct
  <2> QED
    BY <1>1, <2>1, <2>2, <2>3 DEF Copied, AllOrNothing, Listed
<1> QED
  BY <1>2, <1>3, <1>4, <1>5 DEF Next

-----------------------------------------------------------------------------
(* The worklist.                                                           *)

Kernel == Kept \ options.exclude

\* Whoever has left the worklist has its dependencies selected.
Closing == \A c \in Filtered \ queue : (dependsOn[c] \ options.exclude) \subseteq selected

\* No closed set around the seeds is smaller than what is selected.
Least == \A S \in SUBSET given : Kernel \subseteq S /\ ClosedUnder(S) => Filtered \subseteq S

Worklist ==
  /\ phase = "idle" => seen = <<>>
  /\ phase = "close" => Kernel \subseteq selected /\ queue \subseteq selected /\ Closing /\ Least
  /\ phase = "done" => /\ Kernel \subseteq Filtered /\ ClosedUnder(Filtered)
                       /\ \A S \in SUBSET Filtered : Kernel \subseteq S /\ ClosedUnder(S) => S = Filtered

LEMMA SeedsAre == Seeds = Kernel
BY DEF Seeds, Kernel, Kept

LEMMA InitWorklist == Init => Worklist
BY DEF Init, SelectInit, Worklist

LEMMA NextWorklist == Worklist /\ [Next]_vars => Worklist'
<1> SUFFICES ASSUME Worklist, [Next]_vars PROVE Worklist'
  OBVIOUS
<1>1. ASSUME dependsOn' = dependsOn, options' = options, given' = given
      PROVE  Kernel' = Kernel /\ \A S : ClosedUnder(S)' <=> ClosedUnder(S)
  BY <1>1 DEF Kernel, Kept, ClosedUnder
<1>2. CASE Run \/ RunScenario
  <2>1. phase' \in {"refused", "select"}
    BY <1>2 DEF Run, RunScenario
  <2> QED
    BY <2>1 DEF Worklist
<1>3. CASE (Registration /\ UNCHANGED <<selectVars, callVars>>) \/ UNCHANGED vars
  <2>1. /\ dependsOn' = dependsOn /\ options' = options /\ given' = given /\ selected' = selected
        /\ queue' = queue /\ phase' = phase /\ seen' = seen
    BY <1>3 DEF vars, selectVars, callVars
  <2>2. Filtered' = Filtered
    BY <2>1 DEF Filtered
  <2>3. (Closing' <=> Closing) /\ (Least' <=> Least) /\ Kernel' = Kernel /\ (ClosedUnder(Filtered)' <=> ClosedUnder(Filtered))
    BY <2>1 DEF Closing, Least, Filtered, Kernel, Kept, ClosedUnder
  <2> QED
    BY <1>1, <2>1, <2>2, <2>3 DEF Worklist
<1>4. CASE Unknown /\ UNCHANGED <<engineVars, callVars>>
  BY <1>4 DEF Unknown, Worklist
<1>5. CASE Select /\ UNCHANGED <<engineVars, callVars>>
  <2>1. /\ dependsOn' = dependsOn /\ options' = options /\ given' = given
        /\ selected' = IF Unrestricted THEN given ELSE Seeds
        /\ queue' = IF Unrestricted THEN {} ELSE Seeds
        /\ phase' = IF Unrestricted THEN "done" ELSE "close"
    BY <1>5 DEF Select
  <2>2. Kernel \subseteq given
    BY DEF Kernel, Kept
  <2>3. CASE Unrestricted
    <3>1. Kernel = given
      BY <2>3 DEF Unrestricted, Kernel, Kept
    <3>2. Filtered' = given
      BY <2>1, <2>3 DEF Filtered
    <3>3. ClosedUnder(Filtered)'
      BY <2>1, <3>2 DEF ClosedUnder
    <3> QED
      BY <1>1, <2>1, <2>3, <3>1, <3>2, <3>3 DEF Worklist
  <2>4. CASE ~Unrestricted
    <3>1. Filtered' = Kernel /\ selected' = Kernel /\ queue' = Kernel
      BY <2>1, <2>2, <2>4, SeedsAre DEF Filtered
    <3>2. Closing' /\ Least'
      BY <1>1, <2>1, <3>1 DEF Closing, Least
    <3> QED
      BY <1>1, <2>1, <2>4, <3>1, <3>2 DEF Worklist
  <2> QED
    BY <2>3, <2>4
<1>6. CASE Close /\ UNCHANGED <<engineVars, callVars>>
  <2>1. /\ dependsOn' = dependsOn /\ options' = options /\ given' = given /\ selected' = selected
        /\ phase = "close" /\ phase' = "done" /\ queue = {} /\ Filtered' = Filtered
    BY <1>6 DEF Close, Filtered
  <2>2. ClosedUnder(Filtered)
    BY <2>1 DEF Worklist, Closing, ClosedUnder, Filtered
  <2>3. Kernel \subseteq Filtered
    BY <2>1 DEF Worklist, Filtered, Kernel, Kept
  <2>4. \A S \in SUBSET Filtered : Kernel \subseteq S /\ ClosedUnder(S) => S = Filtered
    BY <2>1 DEF Worklist, Least, Filtered
  <2>5. ClosedUnder(Filtered)'
    BY <2>1, <2>2 DEF ClosedUnder
  <2> QED
    BY <1>1, <2>1, <2>3, <2>4, <2>5 DEF Worklist
<1>7. ASSUME NEW id \in ID, Pop(id) /\ UNCHANGED <<engineVars, callVars>>
      PROVE  Worklist'
  <2> DEFINE new == IF id \in given THEN (dependsOn[id] \ options.exclude) \ selected ELSE {}
  <2>1. /\ dependsOn' = dependsOn /\ options' = options /\ given' = given
        /\ selected' = selected \cup new /\ queue' = (queue \ {id}) \cup new
        /\ phase = "close" /\ phase' = "close" /\ id \in queue
    BY <1>7 DEF Pop
  <2>2. Kernel \subseteq selected /\ queue \subseteq selected /\ Closing /\ Least
    BY <2>1 DEF Worklist
  <2>3. Closing'
    <3> SUFFICES ASSUME NEW c \in Filtered', c \notin queue'
                 PROVE  (dependsOn[c] \ options.exclude) \subseteq selected'
      BY <2>1 DEF Closing
    <3>1. c \in given /\ c \in selected
      BY <2>1 DEF Filtered
    <3>2. CASE c = id
      BY <2>1, <3>1, <3>2
    <3>3. CASE c # id
      BY <2>1, <2>2, <3>1, <3>3 DEF Closing, Filtered
    <3> QED
      BY <3>2, <3>3
  <2>4. Least'
    <3> SUFFICES ASSUME NEW S \in SUBSET given, Kernel \subseteq S, ClosedUnder(S)
                 PROVE  Filtered' \subseteq S
      BY <1>1, <2>1 DEF Least
    <3>1. Filtered \subseteq S
      BY <2>2 DEF Least
    <3>2. new \cap given \subseteq S
      BY <2>1, <2>2, <3>1 DEF ClosedUnder, Filtered
    <3> QED
      BY <2>1, <3>1, <3>2 DEF Filtered
  <2> QED
    BY <1>1, <2>1, <2>2, <2>3, <2>4 DEF Worklist
<1> QED
  BY <1>2, <1>3, <1>4, <1>5, <1>6, <1>7 DEF Next, Selection

-----------------------------------------------------------------------------

\* A Run that races registrations works on whole batches or none of them, on IDs that differ,
\* and on nothing when New failed (engine.go:201).
THEOREM WholeBatches == Spec => []AllOrNothing
<1>1. Spec => [](EngineInv /\ Copied)
  BY InitCopied, NextCopied, PTL DEF Spec
<1>2. Copied => AllOrNothing
  BY DEF Copied
<1> QED
  BY <1>1, <1>2, PTL

\* The selection is the least closed set around its seeds, on any graph (run_options.go:192).
THEOREM ClosureIsLeast == Spec => []LeastClosure
<1>1. Worklist => LeastClosure
  BY DEF Worklist, LeastClosure, Kernel
<1> QED
  BY <1>1, InitWorklist, NextWorklist, PTL DEF Spec
=============================================================================
