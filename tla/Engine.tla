------------------------------- MODULE Engine -------------------------------
(***************************************************************************)
(* engine.go, New and Register: the checks of one engine, registered in    *)
(* batches by several goroutines.  A check is its ID and the batch it came *)
(* in.  Module Prepare adds the Run that races with them.                  *)
(***************************************************************************)
EXTENDS Naturals, Sequences, FiniteSets, Functions

CONSTANTS Registrar,  \* the goroutines that call Register
          Batches,    \* the ID lists each registrar may register
          Initial,    \* the ID lists WithChecks may give to New
          Invalid,    \* the IDs whose check cannot run (Check.validate)
          New, None   \* the batch of New, and no goroutine

ASSUME NamesAssumption == New \notin Registrar /\ None \notin Registrar /\ New # None

VARIABLES batch,    \* the ID list of New and of each registrar
          checks,   \* e.checks
          initErr,  \* e.initErr # nil
          lock,     \* the writer that holds e.mu, or None
          pc        \* where each registrar is

engineVars == <<batch, checks, initErr, lock, pc>>

IDs(cs)      == {cs[i].id : i \in DOMAIN cs}
Batch(p)     == [i \in DOMAIN batch[p] |-> [id |-> batch[p][i], by |-> p]]
Distinct(cs) == \A i, j \in DOMAIN cs : cs[i].id = cs[j].id => i = j

\* validateChecks of the registered checks and the new ones together.
Valid(cs, new) == Distinct(cs \o new) /\ IDs(cs \o new) \cap Invalid = {}

EngineInit ==
  /\ batch \in {b \in [Registrar \cup {New} -> Batches \cup Initial] :
                  b[New] \in Initial /\ \A p \in Registrar : b[p] \in Batches}
  /\ initErr = ~Valid(<<>>, Batch(New))
  /\ checks = IF initErr THEN <<>> ELSE Batch(New)
  /\ lock = None
  /\ pc = [p \in Registrar |-> "idle"]

Goto(p, from, to) == pc[p] = from /\ pc' = [pc EXCEPT ![p] = to]

\* e.mu.Lock.
Lock(p) == /\ lock = None
           /\ Goto(p, "idle", "locked")
           /\ lock' = p
           /\ UNCHANGED <<batch, checks, initErr>>

\* Mutant: the valid part is registered.
RejectPartly(p) == /\ ~Valid(checks, Batch(p))
                   /\ Goto(p, "locked", "rejected")
                   /\ checks' = checks \o SelectSeq(Batch(p), LAMBDA c : c.id \notin IDs(checks) \cup Invalid)
                   /\ lock' = None
                   /\ UNCHANGED <<batch, initErr>>

\* A batch that does not fit is refused as a whole.
Reject(p) == /\ ~Valid(checks, Batch(p))
             /\ Goto(p, "locked", "rejected")
             /\ lock' = None
             /\ UNCHANGED <<batch, checks, initErr>>

Accept(p) == /\ Valid(checks, Batch(p))
             /\ Goto(p, "locked", "registered")
             /\ checks' = checks \o Batch(p)
             /\ lock' = None
             /\ UNCHANGED <<batch, initErr>>

Registration == \E p \in Registrar : Lock(p) \/ Reject(p) \/ Accept(p)
=============================================================================
