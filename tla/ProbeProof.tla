------------------------------ MODULE ProbeProof ------------------------------
(***************************************************************************)
(* First, safety of Probe for any number of retries, delays and headers.   *)
(* The invariant says, for each place in RoundTrip, how many attempts are  *)
(* behind it, which response it still holds, and what the last answer can  *)
(* have been; what was sent earlier was followed by a wait, and a wait     *)
(* begins only after an answer that allows another attempt.  The snapshot  *)
(* holds the whole body from the loop on, and the reader of each attempt   *)
(* has what was not read of it.                                            *)
(*                                                                         *)
(* Then, safety of Credential for any plans, locations and numbers of      *)
(* requests and sends: RequestInv, below, relates what a reader has still  *)
(* to give, what the server has, and what the request is meant to be.      *)
(***************************************************************************)
EXTENDS Probe, Credential, FiniteSetTheorems, WellFoundedInduction, TLAPS

Transmission == [read : Nat, left : Nat, late : BOOLEAN, reply : {"none"} \cup Errors \cup Statuses]

PCs == {"snapshot", "loop", "limit", "send", "flight", "failed", "answered", "sleep", "read", "done"}

Types == /\ request \in Request /\ cancelled \in BOOLEAN /\ pc \in PCs
         /\ attempt \in 0..MaxRetries /\ sent \in Seq(Transmission)
         /\ callerBody \in {"open", "closed"} /\ wait \in 0..MaxWait
         /\ source \in Nat /\ data \in Nat

\* What snapshotBody finds, and what it leaves.
Snapshotted ==
  /\ pc = "snapshot" /\ request.body # "rewindable" => source = request.length
  /\ pc = "snapshot" /\ request.body = "none" => data = request.length
  /\ pc \notin {"snapshot", "done"} => data = request.length

\* How many attempts are behind each place, and what is open there.
Counted ==
  /\ pc \in {"snapshot", "loop", "limit", "send"} => Latest = attempt
  /\ pc \in {"flight", "failed", "answered", "sleep", "read"} => Latest = attempt + 1
  /\ pc = "snapshot" => attempt = 0
  /\ open = IF pc \in {"answered", "read"} THEN {Latest} ELSE {}
  /\ pc = "snapshot" \/ request.body = "none" \/ callerBody = "closed"

\* What the last answer can have been.
Answered ==
  /\ pc = "failed" => LastReply \in Errors
  /\ pc \in {"answered", "read"} => LastReply \in Statuses
  /\ pc = "sleep" => attempt < MaxRetries /\ (RetryUnsafe \/ LastReply = "429")
  /\ pc \notin {"read", "done"} => outcome = "none"

\* What came of the attempts before the last one, and of all of them between attempts.
Earlier ==
  /\ NeverAppliedTwice /\ CancelStops /\ WholeBodyEachTime
  /\ pc \in {"snapshot", "loop", "limit", "send"} /\ ~RetryUnsafe =>
       \A i \in 1..Latest : sent[i].reply = "429"
  /\ \A i \in 1..Latest : sent[i].late => cancelled
  /\ pc \in {"limit", "send"} => \A i \in 1..Latest : ~sent[i].late

IInv == Types /\ Snapshotted /\ Counted /\ Answered /\ Earlier /\ OutcomeFaithful

-----------------------------------------------------------------------------
(* Waits.                                                                  *)

LEMMA WrapFits == \A n \in 0..MaxInt : Wrap(n) = n
BY DelayAssumption, Z3 DEF Wrap

LEMMA SlotBounded == \A k \in Nat : Slot(k) \in 1..MaxWait
BY WrapFits, DelayAssumption, RetriesAssumption DEF Slot, Least

LEMMA BackoffBounded == \A k \in Nat : Backoff(k) \subseteq 0..MaxWait
BY SlotBounded, DelayAssumption DEF Backoff

LEMMA RetryAfterBounded ==
  \A h \in Headers : \A k \in Nat : RetryAfter(h, k) \subseteq 0..MaxWait
BY BackoffBounded, HeadersAssumption, DelayAssumption DEF RetryAfter, Clamp, Least, Greatest, Directive

-----------------------------------------------------------------------------
(* What each attempt adds to sent.                                         *)

LEMMA SendFacts ==
  ASSUME Types, Send
  PROVE  /\ sent' \in Seq(Transmission) /\ Len(sent') = Latest + 1
         /\ \A i \in 1..Latest : sent'[i] = sent[i]
         /\ sent'[Latest + 1] = [read |-> 0, left |-> Payload, late |-> cancelled, reply |-> "none"]
<1> DEFINE t == [read |-> 0, left |-> Payload, late |-> cancelled, reply |-> "none"]
<1>1. t \in Transmission
  BY DEF Types, Transmission, Payload
<1>2. sent \in Seq(Transmission) /\ sent' = Append(sent, t) /\ Latest \in Nat
  BY DEF Types, Send, Latest
<1> HIDE DEF t
<1>3. sent' \in Seq(Transmission) /\ Len(sent') = Latest + 1
  BY <1>1, <1>2 DEF Latest
<1>4. (\A i \in 1..Latest : sent'[i] = sent[i]) /\ sent'[Latest + 1] = t
  BY <1>1, <1>2 DEF Latest
<1> QED
  BY <1>3, <1>4 DEF t

LEMMA EntryTyped == ASSUME Types, NEW i \in 1..Latest PROVE sent[i] \in Transmission
BY DEF Types, Latest

\* The entry of attempt i changes.
LEMMA EntryFacts ==
  ASSUME Types, NEW i \in 1..Latest, NEW t \in Transmission, sent' = [sent EXCEPT ![i] = t]
  PROVE  /\ sent' \in Seq(Transmission) /\ Len(sent') = Latest
         /\ \A j \in 1..Latest : j # i => sent'[j] = sent[j]
         /\ sent'[i] = t
<1>1. sent \in Seq(Transmission) /\ i \in 1..Len(sent)
  BY DEF Types, Latest
<1> QED
  BY <1>1 DEF Latest

LEMMA AnswerFacts ==
  ASSUME Types, NEW r \in Errors \cup Statuses, Latest > 0,
         sent' = [sent EXCEPT ![Latest].reply = r]
  PROVE  /\ sent' \in Seq(Transmission) /\ Len(sent') = Latest
         /\ \A i \in 1..(Latest - 1) : sent'[i] = sent[i]
         /\ sent'[Latest].reply = r
         /\ sent'[Latest].late = sent[Latest].late
         /\ sent'[Latest].read = sent[Latest].read /\ sent'[Latest].left = sent[Latest].left
<1> DEFINE t == [sent[Latest] EXCEPT !.reply = r]
<1>1. Latest \in Nat /\ Latest \in 1..Latest
  BY DEF Types, Latest
<1>2. sent[Latest] \in Transmission
  BY <1>1, EntryTyped
<1>3. /\ t \in Transmission /\ t.reply = r
      /\ t.late = sent[Latest].late /\ t.read = sent[Latest].read /\ t.left = sent[Latest].left
  BY <1>2 DEF Transmission
<1>4. sent' = [sent EXCEPT ![Latest] = t]
  BY <1>1
<1> HIDE DEF t
<1>5. /\ sent' \in Seq(Transmission) /\ Len(sent') = Latest
      /\ \A j \in 1..Latest : j # Latest => sent'[j] = sent[j]
      /\ sent'[Latest] = t
  BY <1>1, <1>3, <1>4, EntryFacts
<1> QED
  BY <1>1, <1>3, <1>5

-----------------------------------------------------------------------------
(* The invariant.                                                          *)

LEMMA RequestTyped == \A r \in Request : r.length \in Nat /\ (r.body = "none" => r.length = 0)
<1>1. BodyLengths \cup {0} \subseteq Nat
  BY LengthsAssumption
<1>2. ASSUME NEW r \in Request PROVE r.length \in BodyLengths \cup {0} /\ (r.body = "none" => r.length = 0)
  BY DEF Request
<1> QED
  BY <1>1, <1>2

LEMMA InitInv == Init => IInv
<1> SUFFICES ASSUME Init PROVE IInv
  OBVIOUS
<1>1. request \in Request /\ request.length \in Nat /\ (request.body = "none" => request.length = 0)
  BY RequestTyped DEF Init
<1>2. source \in Nat /\ (request.body # "rewindable" => source = request.length)
  BY <1>1 DEF Init
<1>3. Types /\ Snapshotted
  BY <1>1, <1>2, RetriesAssumption, DelayAssumption DEF Init, Types, PCs, Snapshotted
<1>4. Counted /\ Answered /\ Earlier /\ OutcomeFaithful
  BY DEF Init, Counted, Answered, Earlier, OutcomeFaithful, NeverAppliedTwice, CancelStops,
         WholeBodyEachTime, Latest
<1> QED
  BY <1>3, <1>4 DEF IInv

\* The transport reads: an entry of sent keeps all but what was read and is left.
LEMMA ReadInv ==
  ASSUME IInv, NEW i \in 1..Latest, NEW read \in Nat, NEW left \in Nat,
         sent' = [sent EXCEPT ![i].read = read, ![i].left = left],
         read + left = request.length,
         UNCHANGED <<request, cancelled, pc, attempt, bodyVars, open, wait, outcome, response>>
  PROVE  IInv'
<1>1. Types /\ Snapshotted /\ Counted /\ Answered /\ Earlier /\ OutcomeFaithful /\ Latest \in Nat
  BY DEF IInv, Types, Latest
<1>2. sent[i] \in Transmission
  BY <1>1, EntryTyped
<1> DEFINE t == [sent[i] EXCEPT !.read = read, !.left = left]
<1>3. /\ t \in Transmission /\ t.read = read /\ t.left = left
      /\ t.late = sent[i].late /\ t.reply = sent[i].reply
  BY <1>2 DEF Transmission
<1>4. sent' = [sent EXCEPT ![i] = t]
  <2>1. sent \in Seq(Transmission) /\ i \in DOMAIN sent
    BY <1>1 DEF Types, Latest
  <2> QED
    BY <2>1
<1> HIDE DEF t
<1>5. /\ sent' \in Seq(Transmission) /\ Latest' = Latest
      /\ \A j \in 1..Latest : j # i => sent'[j] = sent[j]
      /\ sent'[i] = t
  BY <1>1, <1>3, <1>4, EntryFacts DEF Latest
<1>6. \A j \in 1..Latest : sent'[j].late = sent[j].late /\ sent'[j].reply = sent[j].reply
  BY <1>3, <1>5
<1>7. \A j \in 1..Latest : sent'[j].read + sent'[j].left = request.length
  BY <1>1, <1>3, <1>5 DEF Earlier, WholeBodyEachTime
<1>8. LastReply' = LastReply
  <2>1. Latest \in 1..Latest
    BY <1>1
  <2> QED
    BY <1>5, <1>6, <2>1 DEF LastReply
<1>9. Types' /\ Snapshotted' /\ Counted'
  BY <1>1, <1>5 DEF Types, Snapshotted, Counted, bodyVars
<1>10. Answered'
  BY <1>1, <1>8 DEF Answered, RetryUnsafe
<1>11. OutcomeFaithful'
  <2>1. sent # <<>>
    BY DEF Latest
  <2> QED
    BY <1>1, <1>5, <1>8, <2>1 DEF OutcomeFaithful, Retryable, RetryUnsafe
<1>12. Earlier'
  <2>1. \A j \in 1..(Latest - 1) : j \in 1..Latest
    BY <1>1
  <2>2. NeverAppliedTwice' /\ CancelStops'
    BY <1>1, <1>5, <1>6, <2>1 DEF Earlier, NeverAppliedTwice, CancelStops, RetryUnsafe
  <2>3. WholeBodyEachTime'
    BY <1>5, <1>7 DEF WholeBodyEachTime
  <2>4. pc \in {"snapshot", "loop", "limit", "send"} /\ ~RetryUnsafe =>
          \A j \in 1..Latest : sent'[j].reply = "429"
    BY <1>1, <1>6 DEF Earlier
  <2>5. /\ \A j \in 1..Latest : sent'[j].late => cancelled
        /\ pc \in {"limit", "send"} => \A j \in 1..Latest : ~sent'[j].late
    BY <1>1, <1>6 DEF Earlier
  <2> QED
    BY <1>5, <2>2, <2>3, <2>4, <2>5 DEF Earlier, RetryUnsafe
<1> QED
  BY <1>9, <1>10, <1>11, <1>12 DEF IInv

\* A step that sends nothing and hears nothing.
LEMMA QuietInv ==
  ASSUME IInv, UNCHANGED <<request, sent>>, Types', Snapshotted', Counted', Answered', OutcomeFaithful',
         cancelled => cancelled',
         pc' \in {"snapshot", "loop", "limit", "send"} /\ ~RetryUnsafe =>
           \A i \in 1..Latest : sent[i].reply = "429",
         pc' \in {"limit", "send"} => \A i \in 1..Latest : ~sent[i].late
  PROVE  IInv'
BY DEF IInv, Earlier, NeverAppliedTwice, CancelStops, WholeBodyEachTime, RetryUnsafe, Latest

LEMMA NextInv == IInv /\ [Next]_vars => IInv'
<1> SUFFICES ASSUME IInv, [Next]_vars PROVE IInv'
  OBVIOUS
<1>1. /\ Types /\ Snapshotted /\ Counted /\ Answered /\ Earlier /\ OutcomeFaithful
      /\ attempt \in Nat /\ MaxRetries \in Nat /\ Latest \in Nat
  BY RetriesAssumption DEF IInv, Types, Latest
<1> USE DEF Latest, bodyVars
<1>2. CASE Cancel \/ UNCHANGED vars
  <2>1. /\ UNCHANGED <<request, pc, attempt, bodyVars, sent, open, wait, outcome, response>>
        /\ cancelled' \in BOOLEAN /\ (cancelled => cancelled')
    BY <1>1, <1>2 DEF Cancel, vars, Types
  <2>2. Types' /\ Snapshotted' /\ Counted'
    BY <1>1, <2>1 DEF Types, Snapshotted, Counted
  <2>3. Answered'
    BY <1>1, <2>1 DEF Answered, Retryable, RetryUnsafe, LastReply
  <2>4. OutcomeFaithful'
    BY <1>1, <2>1 DEF OutcomeFaithful, Retryable, RetryUnsafe, LastReply
  <2> QED
    BY <1>1, <2>1, <2>2, <2>3, <2>4, QuietInv DEF Earlier
<1>3. CASE NoSnapshot \/ Snapshot \/ SnapshotFails
  <2>1. Latest = 0 /\ sent = <<>> /\ pc = "snapshot" /\ request \in Request /\ source \in Nat
    BY <1>1, <1>3 DEF NoSnapshot, Snapshot, SnapshotFails, Goto, Counted, Types
  <2>2. request.length \in Nat
    BY <2>1, RequestTyped
  <2>3. CASE NoSnapshot
    BY <1>1, <2>1, <2>3, QuietInv DEF NoSnapshot, Goto, Types, PCs, Snapshotted, Counted, Answered, OutcomeFaithful
  <2>4. CASE Snapshot
    <3>1. source' \in Nat /\ data' = request.length
      BY <1>1, <2>1, <2>2, <2>4 DEF Snapshot, Snapshotted, Request
    <3>2. Types' /\ Snapshotted' /\ Counted' /\ Answered' /\ OutcomeFaithful'
      BY <1>1, <2>1, <2>2, <2>4, <3>1 DEF Snapshot, Goto, Types, PCs, Snapshotted, Counted, Answered, OutcomeFaithful
    <3> QED
      BY <1>1, <2>1, <2>4, <3>2, QuietInv DEF Snapshot, Goto
  <2>5. CASE SnapshotFails
    <3>1. source' \in Nat
      BY <2>1, <2>5 DEF SnapshotFails
    <3>2. Types' /\ Snapshotted' /\ Counted' /\ Answered' /\ OutcomeFaithful'
      BY <1>1, <2>1, <2>5, <3>1 DEF SnapshotFails, Goto, Return, Types, PCs, Snapshotted, Counted, Answered, OutcomeFaithful
    <3> QED
      BY <1>1, <2>1, <2>5, <3>2, QuietInv DEF SnapshotFails, Goto
  <2> QED
    BY <1>3, <2>3, <2>4, <2>5
<1>4. CASE Loop \/ Limit
  <2>1. Types' /\ Snapshotted' /\ Counted' /\ Answered' /\ OutcomeFaithful'
    BY <1>1, <1>4 DEF Loop, Limit, Goto, Types, PCs, Snapshotted, Counted, Answered, OutcomeFaithful
  <2> QED
    BY <1>1, <1>4, <2>1, QuietInv DEF Loop, Limit, Goto, Earlier
<1>5. CASE LoopEnds \/ LimitFails
  <2>1. Types' /\ Snapshotted' /\ Counted' /\ Answered' /\ OutcomeFaithful'
    BY <1>1, <1>5 DEF LoopEnds, LimitFails, Goto, Return, Types, PCs, Snapshotted, Counted, Answered, OutcomeFaithful
  <2> QED
    BY <1>1, <1>5, <2>1, QuietInv DEF LoopEnds, LimitFails, Goto
<1>6. CASE Send
  <2>1. /\ sent' \in Seq(Transmission) /\ Len(sent') = Latest + 1
        /\ \A i \in 1..Latest : sent'[i] = sent[i]
        /\ sent'[Latest + 1] = [read |-> 0, left |-> data, late |-> cancelled, reply |-> "none"]
        /\ pc = "send" /\ pc' = "flight"
        /\ UNCHANGED <<request, cancelled, attempt, bodyVars, open, wait, outcome, response>>
    BY <1>1, <1>6, SendFacts DEF Send, Goto, Payload
  <2>2. Types' /\ Snapshotted' /\ Counted' /\ Answered' /\ OutcomeFaithful'
    BY <1>1, <2>1 DEF Types, PCs, Snapshotted, Counted, Answered, OutcomeFaithful
  <2>3. data = request.length /\ data \in Nat
    BY <1>1, <2>1 DEF Snapshotted, Types
  <2>4. \A i \in 1..(Latest + 1) : sent'[i].read + sent'[i].left = request.length
    BY <1>1, <2>1, <2>3 DEF Earlier, WholeBodyEachTime
  <2>5. Earlier'
    BY <1>1, <2>1, <2>4 DEF Earlier, NeverAppliedTwice, CancelStops, WholeBodyEachTime, RetryUnsafe
  <2> QED
    BY <2>2, <2>5 DEF IInv
<1>7. CASE Answer
  <2>1. PICK r \in Errors \cup Statuses :
          /\ sent' = [sent EXCEPT ![Latest].reply = r]
          /\ pc = "flight" /\ pc' = IF r \in Errors THEN "failed" ELSE "answered"
          /\ open' = IF r \in Errors THEN open ELSE open \cup {Latest}
          /\ UNCHANGED <<request, cancelled, attempt, bodyVars, wait, outcome, response>>
    BY <1>7 DEF Answer, Goto
  <2>2. Latest > 0 /\ Latest = attempt + 1
    BY <1>1, <2>1 DEF Counted
  <2>3. /\ sent' \in Seq(Transmission) /\ Len(sent') = Latest
        /\ \A i \in 1..(Latest - 1) : sent'[i] = sent[i]
        /\ sent'[Latest].reply = r
        /\ sent'[Latest].late = sent[Latest].late
        /\ sent'[Latest].read = sent[Latest].read /\ sent'[Latest].left = sent[Latest].left
    BY <1>1, <2>1, <2>2, AnswerFacts
  <2>4. Types' /\ Snapshotted' /\ Counted' /\ Answered' /\ OutcomeFaithful'
    BY <1>1, <2>1, <2>2, <2>3 DEF Types, PCs, Snapshotted, Counted, Answered, OutcomeFaithful, LastReply
  <2>5. \A i \in 1..Latest : /\ sent'[i].late = sent[i].late
                            /\ sent'[i].read = sent[i].read /\ sent'[i].left = sent[i].left
    BY <1>1, <2>2, <2>3
  <2>6. Earlier'
    BY <1>1, <2>1, <2>3, <2>5 DEF Earlier, NeverAppliedTwice, CancelStops, WholeBodyEachTime, RetryUnsafe
  <2> QED
    BY <2>4, <2>6 DEF IInv
<1>8. CASE Fail
  <2>1. /\ pc = "failed" /\ outcome' = GivesUp
        /\ pc' = IF GivesUp = "none" THEN "sleep" ELSE "done"
        /\ UNCHANGED <<request, cancelled, attempt, bodyVars, sent, open, response>>
    BY <1>8 DEF Fail, Goto, Return
  <2>2. wait' \in 0..MaxWait
    BY <1>1, <1>8, BackoffBounded DEF Fail, Types
  <2>3. LastReply \in Errors /\ Latest = attempt + 1 /\ attempt \in 0..MaxRetries
    BY <1>1, <2>1 DEF Answered, Counted, Types
  <2>4. Types' /\ Snapshotted' /\ Counted' /\ Answered' /\ OutcomeFaithful'
    BY <1>1, <2>1, <2>2, <2>3 DEF Types, PCs, Snapshotted, Counted, Answered, OutcomeFaithful, GivesUp, LastReply,
                                RetryUnsafe, Retryable, Errors
  <2> QED
    BY <1>1, <2>1, <2>4, QuietInv
<1>9. CASE Retry
  <2>1. /\ pc = "answered" /\ pc' = "sleep" /\ Retryable(LastReply) /\ attempt < MaxRetries
        /\ open' = open \ {Latest}
        /\ UNCHANGED <<request, cancelled, attempt, bodyVars, sent, outcome, response>>
    BY <1>9 DEF Retry, Goto
  <2>2. wait' \in 0..MaxWait
    BY <1>1, <1>9, RetryAfterBounded DEF Retry
  <2>3. Types' /\ Snapshotted' /\ Counted' /\ Answered' /\ OutcomeFaithful'
    BY <1>1, <2>1, <2>2 DEF Types, PCs, Snapshotted, Counted, Answered, OutcomeFaithful, LastReply, RetryUnsafe, Retryable
  <2> QED
    BY <1>1, <2>1, <2>3, QuietInv
<1>10. CASE Deliver
  <2>1. /\ pc = "answered" /\ pc' = "read"
        /\ (~Retryable(LastReply) \/ attempt = MaxRetries)
        /\ outcome' = "response"
        /\ UNCHANGED <<request, cancelled, attempt, bodyVars, sent, open, wait, response>>
    BY <1>10 DEF Deliver, Goto, Return
  <2>2. Types' /\ Snapshotted' /\ Counted' /\ Answered' /\ OutcomeFaithful'
    BY <1>1, <2>1 DEF Types, PCs, Snapshotted, Counted, Answered, OutcomeFaithful, LastReply, RetryUnsafe, Retryable
  <2> QED
    BY <1>1, <2>1, <2>2, QuietInv
<1>11. CASE Wake
  <2>1. /\ pc = "sleep" /\ pc' = "loop" /\ attempt' = attempt + 1
        /\ UNCHANGED <<request, cancelled, bodyVars, sent, open, wait, outcome, response>>
    BY <1>11 DEF Wake, Goto
  <2>2. Latest = attempt + 1 /\ attempt < MaxRetries /\ (RetryUnsafe \/ LastReply = "429")
    BY <1>1, <2>1 DEF Counted, Answered
  <2>3. Types' /\ Snapshotted' /\ Counted' /\ Answered' /\ OutcomeFaithful'
    BY <1>1, <2>1, <2>2 DEF Types, PCs, Snapshotted, Counted, Answered, OutcomeFaithful
  <2>4. ~RetryUnsafe => \A i \in 1..Latest : sent[i].reply = "429"
    BY <1>1, <2>2 DEF Earlier, NeverAppliedTwice, LastReply
  <2> QED
    BY <1>1, <2>1, <2>3, <2>4, QuietInv
<1>12. CASE Interrupted
  <2>1. Types' /\ Snapshotted' /\ Counted' /\ Answered' /\ OutcomeFaithful'
    BY <1>1, <1>12 DEF Interrupted, Goto, Return, Types, PCs, Snapshotted, Counted, Answered, OutcomeFaithful
  <2> QED
    BY <1>1, <1>12, <2>1, QuietInv DEF Interrupted, Goto
<1>13. CASE Read \/ ReadFails
  <2>1. /\ pc = "read" /\ pc' = "done" /\ open' = open \ {Latest}
        /\ UNCHANGED <<request, cancelled, attempt, bodyVars, sent, wait, outcome>>
    BY <1>13 DEF Read, ReadFails, Goto
  <2>2. Types' /\ Snapshotted' /\ Counted' /\ Answered' /\ OutcomeFaithful'
    BY <1>1, <2>1 DEF Types, PCs, Snapshotted, Counted, Answered, OutcomeFaithful, LastReply, RetryUnsafe, Retryable
  <2> QED
    BY <1>1, <2>1, <2>2, QuietInv
<1>14. ASSUME NEW i \in 1..Latest, TransportReads(i) PROVE IInv'
  <2>1. sent[i] \in Transmission /\ sent[i].read + sent[i].left = request.length
    BY <1>1, EntryTyped DEF Earlier, WholeBodyEachTime
  <2>2. sent[i].read + 1 \in Nat /\ sent[i].left - 1 \in Nat
        /\ (sent[i].read + 1) + (sent[i].left - 1) = request.length
    BY <1>14, <2>1 DEF TransportReads, Transmission
  <2>3. sent' = [sent EXCEPT ![i].read = sent[i].read + 1, ![i].left = sent[i].left - 1]
    BY <1>14 DEF TransportReads
  <2> QED
    BY <1>14, <2>2, <2>3, ReadInv DEF TransportReads
<1>15. CASE TransportRewinds
  <2>1. data \in Nat /\ 0 + data = request.length /\ Latest \in 1..Latest
    BY <1>1, <1>15 DEF TransportRewinds, Snapshotted, Types, Counted
  <2> QED
    BY <1>15, <2>1, ReadInv DEF TransportRewinds, Payload
<1> QED
  BY <1>2, <1>3, <1>4, <1>5, <1>6, <1>7, <1>8, <1>9, <1>10, <1>11, <1>12, <1>13, <1>14, <1>15 DEF Next, Step

LEMMA Invariance == Spec => []IInv
BY InitInv, NextInv, PTL DEF Spec

-----------------------------------------------------------------------------

\* A request that must not be repeated is sent again only after answers that say it was
\* not processed (http.go, RoundTrip).
THEOREM AtMostOnce == Spec => []NeverAppliedTwice
<1>1. IInv => NeverAppliedTwice
  BY DEF IInv, Earlier
<1> QED
  BY <1>1, Invariance, PTL

\* What RoundTrip returns is what its last attempt came to.
THEOREM OutcomeOfLast == Spec => []OutcomeFaithful
<1>1. IInv => OutcomeFaithful
  BY DEF IInv
<1> QED
  BY <1>1, Invariance, PTL

\* Whichever way out it took, the call leaves nothing open.
THEOREM AllClosed == Spec => []NothingLeaks
<1>1. IInv => NothingLeaks
  BY DEF IInv, Types, Counted, NothingLeaks
<1> QED
  BY <1>1, Invariance, PTL

\* Whatever the transport has read of an attempt's body, and goes on reading after its
\* answer, the rest of the whole body is what the reader has left (http.go, snapshotBody
\* and setBody).
THEOREM BodyReplayed == Spec => []WholeBodyEachTime
<1>1. IInv => WholeBodyEachTime
  BY DEF IInv, Earlier
<1> QED
  BY <1>1, Invariance, PTL

\* After the context ended at most one attempt begins, and it is the last.
THEOREM CancelIsHeard == Spec => []CancelStops
<1>1. IInv => CancelStops
  BY DEF IInv, Earlier
<1> QED
  BY <1>1, Invariance, PTL

\* No wait is negative or beyond the cap, whatever the server says.
THEOREM WaitsBounded == Spec => []WaitBounded
<1>1. IInv => WaitBounded
  BY DEF IInv, Types, WaitBounded
<1> QED
  BY <1>1, Invariance, PTL

-----------------------------------------------------------------------------
(* Credential.  The types of requests, and what the mutators keep of them. *)

Methods      == {p.method : p \in Plans} \cup {"GET", "POST"}
HeaderValues == Values \cup {None, "form"}
Bodies       == Seq(Chunks)

HTTPRequest == [method : Methods, header : [Range(Canon) -> HeaderValues], query : [Names -> Values \cup {None}],
                cookies : [Names -> Seq(Values)], body : Nat, open : Bodies \cup {None}, get : Bodies \cup {None}]

\* A mutator, or the placement of a credential.
Proper(m) == /\ \/ m.in = "header" /\ m.name \in DOMAIN Canon
                \/ m.in \in {"cookie", "query", "body"} /\ m.name \in Names
             /\ m.value \in Values

\* What NewRequest has made so far: what GetBody opens is what it has to open.
Draft == {r \in HTTPRequest : r.body = 0 /\ r.get \in {None, r.open}}

LEMMA FormIsBody ==
  ASSUME NEW n \in Names, NEW v \in Values
  PROVE  Form(n, v) \in Bodies /\ Form(n, v) # None
<1>1. <<n, v>> \in Chunks
  BY DEF Chunks
<1>2. <<<<n, v>>>> \in Seq(Chunks)
  BY <1>1
<1>3. \A b \in Seq(Chunks) : b # None
  BY NoneAssumption
<1>4. Form(n, v) = <<<<n, v>>>>
  BY DEF Form
<1> QED
  BY <1>2, <1>3, <1>4, Zenon DEF Bodies

LEMMA CanonType == \A n \in DOMAIN Canon : Canon[n] \in Range(Canon)
BY DEF Range

LEMMA HeaderTyped ==
  ASSUME NEW r \in HTTPRequest, NEW n \in DOMAIN Canon, NEW v \in HeaderValues
  PROVE  /\ WithHeader(r, n, v) \in HTTPRequest
         /\ WithHeader(r, n, v).header = [r.header EXCEPT ![Canon[n]] = v]
         /\ LET h == WithHeader(r, n, v) IN
            /\ h.method = r.method /\ h.query = r.query /\ h.cookies = r.cookies
            /\ h.body = r.body /\ h.open = r.open /\ h.get = r.get
BY CanonType DEF WithHeader, HTTPRequest

LEMMA CookieTyped ==
  ASSUME NEW r \in HTTPRequest, NEW n \in Names, NEW v \in Values
  PROVE  /\ WithCookie(r, n, v) \in HTTPRequest /\ RemoveCookie(r, n) \in HTTPRequest
         /\ WithCookie(r, n, v).cookies = [r.cookies EXCEPT ![n] = Append(@, v)]
         /\ RemoveCookie(r, n).cookies = [r.cookies EXCEPT ![n] = <<>>]
         /\ \A h \in {WithCookie(r, n, v), RemoveCookie(r, n)} :
              /\ h.method = r.method /\ h.query = r.query /\ h.header = r.header
              /\ h.body = r.body /\ h.open = r.open /\ h.get = r.get
<1>1. r.cookies \in [Names -> Seq(Values)] /\ Append(r.cookies[n], v) \in Seq(Values) /\ <<>> \in Seq(Values)
  BY DEF HTTPRequest
<1>2. [r.cookies EXCEPT ![n] = Append(@, v)] \in [Names -> Seq(Values)]
  BY <1>1
<1>3. [r.cookies EXCEPT ![n] = <<>>] \in [Names -> Seq(Values)]
  BY <1>1
<1> QED
  BY <1>2, <1>3 DEF WithCookie, RemoveCookie, HTTPRequest

LEMMA QueryTyped ==
  ASSUME NEW r \in HTTPRequest, NEW n \in Names, NEW v \in Values
  PROVE  /\ WithQuery(r, n, v) \in HTTPRequest
         /\ WithQuery(r, n, v).query = [r.query EXCEPT ![n] = v]
         /\ LET h == WithQuery(r, n, v) IN
            /\ h.method = r.method /\ h.header = r.header /\ h.cookies = r.cookies
            /\ h.body = r.body /\ h.open = r.open /\ h.get = r.get
BY DEF WithQuery, HTTPRequest

LEMMA FormTyped ==
  ASSUME NEW r \in HTTPRequest, NEW n \in Names, NEW v \in Values
  PROVE  /\ WithFormCredential(r, n, v) \in HTTPRequest /\ WithFormCredential(r, n, v).method = "POST"
         /\ WithFormCredential(r, n, v).open = Form(n, v) /\ WithFormCredential(r, n, v).get = Form(n, v)
         /\ WithFormCredential(r, n, v).header = [r.header EXCEPT !["Content-Type"] = "form"]
         /\ WithFormCredential(r, n, v).query = r.query /\ WithFormCredential(r, n, v).cookies = r.cookies
         /\ WithFormCredential(r, n, v).body = r.body
<1> DEFINE q == [r EXCEPT !.method = "POST", !.open = Form(n, v), !.get = Form(n, v)]
<1>1. q \in HTTPRequest /\ q.method = "POST" /\ q.open = Form(n, v) /\ q.get = Form(n, v)
      /\ q.header = r.header /\ q.query = r.query /\ q.cookies = r.cookies /\ q.body = r.body
  BY FormIsBody DEF HTTPRequest, Methods
<1> HIDE DEF q
<1>2. "form" \in HeaderValues /\ "Content-Type" \in DOMAIN Canon
  BY NamesAssumption DEF HeaderValues
<1>3. WithFormCredential(r, n, v) = WithHeader(q, "Content-Type", "form")
  BY DEF WithFormCredential, q
<1> QED
  BY <1>1, <1>2, <1>3, HeaderTyped, NamesAssumption

LEMMA DraftKept ==
  ASSUME NEW r \in Draft, NEW q \in HTTPRequest, q.body = r.body, q.open = r.open, q.get = r.get
  PROVE  q \in Draft
BY DEF Draft

LEMMA MutateDrafts ==
  ASSUME NEW r \in Draft, NEW m, Proper(m)
  PROVE  Mutate(r, m) \in Draft
<1>1. r \in HTTPRequest
  BY DEF Draft
<1>2. CASE m.in = "header"
  <2> DEFINE q == WithHeader(r, m.name, m.value)
  <2>1. Mutate(r, m) = q /\ m.name \in DOMAIN Canon /\ m.value \in HeaderValues
    BY <1>2 DEF Mutate, Proper, HeaderValues
  <2>2. q \in HTTPRequest
    BY <1>1, <2>1, HeaderTyped
  <2>3. q.body = r.body /\ q.open = r.open /\ q.get = r.get
    BY <1>1, <2>1, HeaderTyped
  <2> HIDE DEF q
  <2>4. q \in Draft
    BY <2>2, <2>3, DraftKept
  <2> QED
    BY <2>1, <2>4
<1>3. CASE m.in = "cookie"
  <2> DEFINE q == WithCookie(r, m.name, m.value)
  <2>1. Mutate(r, m) = q /\ m.name \in Names /\ m.value \in Values
    BY <1>3 DEF Mutate, Proper, HeaderValues
  <2>2. q \in HTTPRequest
    BY <1>1, <2>1, CookieTyped
  <2>3. q.body = r.body /\ q.open = r.open /\ q.get = r.get
    BY <1>1, <2>1, CookieTyped
  <2> HIDE DEF q
  <2>4. q \in Draft
    BY <2>2, <2>3, DraftKept
  <2> QED
    BY <2>1, <2>4
<1>4. CASE m.in = "query"
  <2> DEFINE q == WithQuery(r, m.name, m.value)
  <2>1. Mutate(r, m) = q /\ m.name \in Names /\ m.value \in Values
    BY <1>4 DEF Mutate, Proper, HeaderValues
  <2>2. q \in HTTPRequest
    BY <1>1, <2>1, QueryTyped
  <2>3. q.body = r.body /\ q.open = r.open /\ q.get = r.get
    BY <1>1, <2>1, QueryTyped
  <2> HIDE DEF q
  <2>4. q \in Draft
    BY <2>2, <2>3, DraftKept
  <2> QED
    BY <2>1, <2>4
<1>5. CASE m.in = "body"
  <2> DEFINE q == WithFormCredential(r, m.name, m.value)
  <2>1. Mutate(r, m) = q /\ m.name \in Names /\ m.value \in Values
    BY <1>5 DEF Mutate, Proper
  <2>2. q \in HTTPRequest /\ q.body = r.body
    BY <1>1, <2>1, FormTyped
  <2>6. q.open = Form(m.name, m.value)
    BY <1>1, <2>1, FormTyped
  <2>7. q.get = Form(m.name, m.value)
    BY <1>1, <2>1, FormTyped
  <2>3. r.body = 0
    BY DEF Draft
  <2> HIDE DEF q
  <2>4. q.body = 0 /\ q.get = q.open
    BY <2>2, <2>3, <2>6, <2>7
  <2>5. q \in Draft
    BY <2>2, <2>4, Zenon DEF Draft
  <2> QED
    BY <2>1, <2>5
<1> QED
  BY <1>2, <1>3, <1>4, <1>5 DEF Proper

-----------------------------------------------------------------------------
(* Building a request is a fold over its mutators, defined by recursion    *)
(* over the subsets of their indices.                                      *)

LEMMA SubsetInduction ==
  ASSUME NEW S, IsFiniteSet(S), NEW G \in SUBSET SUBSET S,
         \A A \in SUBSET S : (\A B \in SUBSET A : B # A => B \in G) => A \in G
  PROVE  \A A \in SUBSET S : A \in G
<1> DEFINE bad == (SUBSET S) \ G
<1> SUFFICES ASSUME bad # {} PROVE FALSE
  OBVIOUS
<1>1. IsWellFoundedOn(StrictSubsetOrdering(S), FiniteSubsetsOf(S))
  BY FS_StrictSubsetOrderingWellFounded
<1>2. bad \subseteq FiniteSubsetsOf(S)
  BY FS_FiniteSubsetsOfFinite
<1> HIDE DEF bad
<1>3. PICK A \in bad : \A B \in bad : ~(<<B, A>> \in StrictSubsetOrdering(S))
  BY <1>1, <1>2, WFMin
<1>4. \A B \in SUBSET A : B # A => B \in G
  BY <1>3 DEF StrictSubsetOrdering, bad
<1> QED
  BY <1>3, <1>4 DEF bad

LEMMA MaxIn ==
  ASSUME NEW n \in Nat
  PROVE  \A A \in SUBSET (1..n) : A # {} => Max(A) \in A /\ \A y \in A : Max(A) >= y
<1> DEFINE S == 1..n
           G == {A \in SUBSET S : A # {} => \E x \in A : \A y \in A : x >= y}
<1>1. ASSUME NEW A \in SUBSET S, \A B \in SUBSET A : B # A => B \in G PROVE A \in G
  <2> SUFFICES ASSUME A # {} PROVE \E x \in A : \A y \in A : x >= y
    OBVIOUS
  <2>1. PICK x \in A : TRUE
    OBVIOUS
  <2>2. A \ {x} \in G
    BY <1>1, <2>1
  <2>3. CASE A \ {x} = {}
    BY <2>1, <2>3
  <2>4. CASE A \ {x} # {}
    <3>1. PICK z \in A \ {x} : \A y \in A \ {x} : z >= y
      BY <2>2, <2>4
    <3>2. x \in Int /\ z \in Int /\ \A y \in A : y \in Int
      BY <2>1
    <3>3. CASE x >= z
      BY <3>1, <3>2, <3>3
    <3>4. CASE ~(x >= z)
      BY <3>1, <3>2, <3>4
    <3> QED
      BY <3>3, <3>4
  <2> QED
    BY <2>3, <2>4
<1>2. IsFiniteSet(S)
  BY FS_Interval
<1>3. G \in SUBSET SUBSET S
  OBVIOUS
<1> HIDE DEF G
<1>4. \A A \in SUBSET S : A \in G
  <2> HIDE DEF S
  <2> QED
    BY <1>1, <1>2, <1>3, SubsetInduction
<1>5. \A A \in SUBSET S : A # {} => \E x \in A : \A y \in A : x >= y
  BY <1>4 DEF G
<1> QED
  BY <1>5 DEF Max

Turn(base, ms, g, s)   == IF s = {} THEN base ELSE Mutate(g[s \ {Max(s)}], ms[Max(s)])
IsFold(base, ms, g, S) == g = [s \in SUBSET S |-> Turn(base, ms, g, s)]

Indices(A) == IsFiniteSet(A) /\ \A s \in SUBSET A : s # {} => Max(s) \in s

LEMMA IndicesIn == ASSUME NEW n \in Nat PROVE \A A \in SUBSET (1..n) : Indices(A)
<1> TAKE A \in SUBSET (1..n)
<1>1. IsFiniteSet(1..n)
  BY FS_Interval
<1>2. IsFiniteSet(A)
  BY <1>1, FS_Subset
<1>3. \A s \in SUBSET A : s # {} => Max(s) \in s
  BY MaxIn
<1> QED
  BY <1>2, <1>3 DEF Indices

LEMMA FoldUnique ==
  ASSUME NEW base, NEW ms, NEW A, NEW B, A \subseteq B, Indices(A),
         NEW g, NEW h, IsFold(base, ms, g, A), IsFold(base, ms, h, B)
  PROVE  \A s \in SUBSET A : g[s] = h[s]
<1> DEFINE G == {s \in SUBSET A : g[s] = h[s]}
<1>1. ASSUME NEW s \in SUBSET A, \A t \in SUBSET s : t # s => t \in G PROVE s \in G
  <2>1. g[s] = Turn(base, ms, g, s) /\ h[s] = Turn(base, ms, h, s)
    BY DEF IsFold
  <2>2. s # {} => Max(s) \in s
    BY DEF Indices
  <2>3. s # {} => g[s \ {Max(s)}] = h[s \ {Max(s)}]
    BY <1>1, <2>2
  <2> QED
    BY <2>1, <2>3 DEF Turn
<1>2. G \in SUBSET SUBSET A
  OBVIOUS
<1>3. IsFiniteSet(A)
  BY DEF Indices
<1> HIDE DEF G
<1>4. \A s \in SUBSET A : s \in G
  BY <1>1, <1>2, <1>3, SubsetInduction
<1> QED
  BY <1>4 DEF G

LEMMA FoldExists ==
  ASSUME NEW base, NEW ms, NEW n \in Nat
  PROVE  \A A \in SUBSET (1..n) : \E g : IsFold(base, ms, g, A)
<1> DEFINE S == 1..n
           G == {A \in SUBSET S : \E g : IsFold(base, ms, g, A)}
<1>0. \A s \in SUBSET S : s # {} => Max(s) \in s
  BY MaxIn
<1>1. ASSUME NEW A \in SUBSET S, \A B \in SUBSET A : B # A => B \in G PROVE A \in G
  <2> DEFINE of(s) == CHOOSE g : IsFold(base, ms, g, s)
             small == [s \in SUBSET A |-> of(s)[s]]
             all == [s \in SUBSET A |-> IF s = A THEN Turn(base, ms, small, s) ELSE of(s)[s]]
  <2>1. \A s \in SUBSET A : s # A => IsFold(base, ms, of(s), s)
    BY <1>1
  <2> HIDE DEF of
  <2>2. \A s \in SUBSET A : \A x \in s : all[s \ {x}] = small[s \ {x}]
    OBVIOUS
  <2>3. ASSUME NEW s \in SUBSET A, s # A PROVE of(s)[s] = Turn(base, ms, small, s)
    <3>1. of(s)[s] = Turn(base, ms, of(s), s)
      BY <2>1, <2>3 DEF IsFold
    <3>2. ASSUME s # {} PROVE of(s)[s \ {Max(s)}] = small[s \ {Max(s)}]
      <4> DEFINE t == s \ {Max(s)}
      <4>1. t \in SUBSET A /\ t # A /\ t \subseteq s /\ s \subseteq S
        BY <1>0, <2>3, <3>2
      <4>2. IsFold(base, ms, of(t), t) /\ IsFold(base, ms, of(s), s)
        BY <2>1, <2>3, <4>1
      <4>3. of(t)[t] = of(s)[t]
        <5> DEFINE g == of(t)  h == of(s)
        <5>1. t \subseteq s /\ t \in SUBSET t /\ Indices(t)
          BY <4>1, IndicesIn
        <5>2. IsFold(base, ms, g, t) /\ IsFold(base, ms, h, s)
          BY <4>2
        <5> HIDE DEF g, h, t, all, small, G, S
        <5>3. \A r \in SUBSET t : g[r] = h[r]
          BY <5>1, <5>2, FoldUnique
        <5> QED
          BY <5>1, <5>3 DEF g, h
      <4> QED
        BY <4>1, <4>3
    <3> QED
      BY <3>1, <3>2 DEF Turn
  <2>4. \A s \in SUBSET A : Turn(base, ms, small, s) = Turn(base, ms, all, s)
    BY <1>0, <2>2 DEF Turn
  <2>5. IsFold(base, ms, all, A)
    <3>1. \A s \in SUBSET A : all[s] = Turn(base, ms, all, s)
      BY <2>3, <2>4
    <3> QED
      BY <3>1 DEF IsFold
  <2> QED
    BY <2>5
<1>2. G \in SUBSET SUBSET S /\ IsFiniteSet(S)
  BY FS_Interval
<1> HIDE DEF G, S
<1>3. \A A \in SUBSET S : A \in G
  BY <1>1, <1>2, SubsetInduction
<1> QED
  BY <1>3 DEF G, S

\* The request NewRequest starts from.
Started(plan) ==
  [method  |-> IF plan.method = None THEN "GET" ELSE plan.method,
   header  |-> [h \in Range(Canon) |-> None],
   query   |-> [n \in Names |-> None],
   cookies |-> [n \in Names |-> <<>>], body |-> 0, open |-> plan.body,
   get     |-> IF plan.getBody THEN plan.body ELSE None]

LEMMA NewRequestIsFold ==
  ASSUME NEW plan
  PROVE  NewRequest(plan) =
           (CHOOSE g : IsFold(Started(plan), plan.mutators, g, DOMAIN plan.mutators))[DOMAIN plan.mutators]
BY DEF NewRequest, Started, FoldLeft, MapThenFoldSet, IsFold, Turn

LEMMA StartedIsDraft == \A plan \in Plans \cup {Fetch} : Started(plan) \in Draft
<1> TAKE plan \in Plans \cup {Fetch}
<1>1. plan.body \in Bodies \cup {None}
  <2>1. CASE plan \in Plans /\ plan.body # None
    <3>1. plan.body \in Seq(Range(plan.body)) /\ Range(plan.body) \subseteq Chunks
      BY <2>1, PlansAssumption DEF Chunks
    <3>2. plan.body \in Seq(Chunks)
      BY <3>1
    <3> QED
      BY <3>2 DEF Bodies
  <2> QED
    BY <2>1 DEF Fetch
<1>2. (IF plan.method = None THEN "GET" ELSE plan.method) \in Methods
  BY DEF Methods, Fetch
<1>3. [h \in Range(Canon) |-> None] \in [Range(Canon) -> HeaderValues]
  BY DEF HeaderValues
<1>4. [n \in Names |-> <<>>] \in [Names -> Seq(Values)]
  OBVIOUS
<1>5. Started(plan) \in HTTPRequest
  BY <1>1, <1>2, <1>3, <1>4 DEF Started, HTTPRequest
<1> QED
  BY <1>5 DEF Started, Draft

LEMMA NewRequestIsDraft == \A plan \in Plans \cup {Fetch} : NewRequest(plan) \in Draft
<1> TAKE plan \in Plans \cup {Fetch}
<1> DEFINE ms == plan.mutators
           base == Started(plan)
           S == DOMAIN ms
           g == CHOOSE f : IsFold(base, ms, f, S)
           G == {s \in SUBSET S : g[s] \in Draft}
<1>1. ms \in Seq(Range(ms)) /\ \A m \in Range(ms) : Proper(m)
  <2>1. CASE plan \in Plans
    <3>1. \A m \in Range(ms) : m.value \in Values
      BY <2>1 DEF Values, Mutations
    <3> QED
      BY <2>1, <3>1, PlansAssumption DEF Proper
  <2>2. CASE plan = Fetch
    <3>1. ms = <<>>
      BY <2>2 DEF Fetch
    <3> QED
      BY <3>1 DEF Range
  <2> QED
    BY <2>1, <2>2
<1>2. Len(ms) \in Nat /\ S = 1..Len(ms) /\ \A i \in S : Proper(ms[i])
  BY <1>1 DEF Range
<1>3. base \in Draft
  BY StartedIsDraft
<1> HIDE DEF ms, base
<1>4. IsFold(base, ms, g, S)
  BY <1>2, FoldExists
<1>5. Indices(S)
  BY <1>2, IndicesIn
<1> HIDE DEF g
<1>6. ASSUME NEW s \in SUBSET S, \A t \in SUBSET s : t # s => t \in G PROVE s \in G
  <2>1. g[s] = Turn(base, ms, g, s)
    BY <1>4 DEF IsFold
  <2>2. CASE s = {}
    BY <1>3, <2>1, <2>2 DEF Turn
  <2>3. CASE s # {}
    <3>1. Max(s) \in s
      BY <1>5, <2>3 DEF Indices
    <3>2. g[s \ {Max(s)}] \in Draft
      BY <1>6, <3>1
    <3>3. Proper(ms[Max(s)])
      BY <1>2, <3>1
    <3> QED
      BY <2>1, <2>3, <3>2, <3>3, MutateDrafts DEF Turn
  <2> QED
    BY <2>2, <2>3
<1>7. G \in SUBSET SUBSET S /\ IsFiniteSet(S)
  BY <1>5 DEF Indices
<1> HIDE DEF G, S
<1>8. \A s \in SUBSET S : s \in G
  BY <1>6, <1>7, SubsetInduction
<1>9. g[S] \in Draft
  BY <1>8 DEF G
<1> QED
  BY <1>9, NewRequestIsFold DEF g, S, ms, base

-----------------------------------------------------------------------------
(* What a request is meant to be, as a function of its plan and of the     *)
(* credentials placed on it.                                               *)

Placements == {m \in [in : {"header", "cookie", "query", "body"}, name : DOMAIN Canon \cup Names, value : Values] : Proper(m)}

InHeader(h) == {p \in Placements : SetsHeader(p, h)}
InQuery(n)  == {p \in Placements : p.in = "query" /\ p.name = n}
InCookie(n) == {p \in Placements : p.in = "cookie" /\ p.name = n}
InBody      == {p \in Placements : p.in = "body"}

LastIn(creds, P) == LET K == {k \in DOMAIN creds : creds[k] \in P}
                    IN  {creds[k] : k \in {m \in K : \A n \in K : n <= m}}

HeaderIn(last, v)  == IF last = {} THEN {v} ELSE {IF p.in = "body" THEN "form" ELSE p.value : p \in last}
QueryIn(last, v)   == IF last = {} THEN {v} ELSE {p.value : p \in last}
CookiesIn(last, v) == IF last = {} THEN {v} ELSE {<<p.value>> : p \in last}
Payloads(plan, creds) ==
  IF LastIn(creds, InBody) # {} THEN {Form(p.name, p.value) : p \in LastIn(creds, InBody)}
  ELSE {IF NewRequest(plan).open = None THEN <<>> ELSE NewRequest(plan).open}

Fields(plan, creds, r) ==
  /\ r.method = IF LastIn(creds, InBody) # {} THEN "POST" ELSE NewRequest(plan).method
  /\ \A h \in Range(Canon) : r.header[h] \in HeaderIn(LastIn(creds, InHeader(h)), NewRequest(plan).header[h])
  /\ \A n \in Names : /\ r.query[n] \in QueryIn(LastIn(creds, InQuery(n)), NewRequest(plan).query[n])
                      /\ r.cookies[n] \in CookiesIn(LastIn(creds, InCookie(n)), NewRequest(plan).cookies[n])

LEMMA LastOfAppend ==
  ASSUME NEW creds \in Seq(Placements), NEW m \in Placements, NEW P
  PROVE  LastIn(Append(creds, m), P) = IF m \in P THEN {m} ELSE LastIn(creds, P)
<1> DEFINE all == Append(creds, m)  n == Len(creds) + 1
           K == {k \in DOMAIN creds : creds[k] \in P}  L == {k \in DOMAIN all : all[k] \in P}
<1>1. DOMAIN all = 1..n /\ n \in Nat /\ DOMAIN creds = 1..(n - 1) /\ all[n] = m
  OBVIOUS
<1>2. \A k \in DOMAIN creds : all[k] = creds[k]
  OBVIOUS
<1>3. L = IF m \in P THEN K \cup {n} ELSE K
  BY <1>1, <1>2
<1>4. LastIn(all, P) = {all[k] : k \in {i \in L : \A j \in L : j <= i}}
  BY DEF LastIn
<1>5. LastIn(creds, P) = {creds[k] : k \in {i \in K : \A j \in K : j <= i}}
  BY DEF LastIn
<1>6. \A k \in K : k \in 1..(n - 1) /\ k < n /\ all[k] = creds[k]
  BY <1>1, <1>2
<1> HIDE DEF all, K, L, n
<1>7. CASE m \in P
  <2>1. n \in L /\ \A j \in L : j <= n
    BY <1>1, <1>3, <1>6, <1>7
  <2>2. \A i \in L : (\A j \in L : j <= i) <=> i = n
    BY <1>1, <1>3, <1>6, <1>7
  <2>3. {i \in L : \A j \in L : j <= i} = {n}
    BY <2>1, <2>2
  <2> QED
    BY <1>1, <1>4, <1>7, <2>3 DEF all
<1>8. CASE m \notin P
  <2> DEFINE M == {i \in K : \A j \in K : j <= i}
  <2>1. L = K
    BY <1>3, <1>8
  <2>2. \A k \in M : all[k] = creds[k]
    BY <1>6
  <2>3. LastIn(all, P) = {all[k] : k \in M} /\ LastIn(creds, P) = {creds[k] : k \in M}
    BY <1>4, <1>5, <2>1
  <2> HIDE DEF M
  <2> QED
    BY <1>8, <2>2, <2>3 DEF all
<1> QED
  BY <1>7, <1>8

LEMMA LastOfNone == \A P : LastIn(<<>>, P) = {}
BY DEF LastIn

LEMMA MeantFields ==
  ASSUME NEW i, placed[i] \in Seq(Placements), NEW r, NEW payload
  PROVE  AsMeant(i, r, payload) <=> Fields(root[i], placed[i], r) /\ payload \in Payloads(root[i], placed[i])
<1>1. \A k \in DOMAIN placed[i] : placed[i][k] \in Placements
  OBVIOUS
<1>2. InForm(i) = LastIn(placed[i], InBody)
  <2>1. {k \in DOMAIN placed[i] : placed[i][k].in = "body"} = {k \in DOMAIN placed[i] : placed[i][k] \in InBody}
    BY <1>1 DEF InBody
  <2> QED
    BY <2>1 DEF InForm, LastOf, LastIn
<1>3. \A h : HeaderMeant(i, h) = HeaderIn(LastIn(placed[i], InHeader(h)), NewRequest(root[i]).header[h])
  <2> TAKE h
  <2>1. {k \in DOMAIN placed[i] : SetsHeader(placed[i][k], h)}
          = {k \in DOMAIN placed[i] : placed[i][k] \in InHeader(h)}
    BY <1>1 DEF InHeader
  <2> QED
    BY <2>1 DEF HeaderMeant, LastOf, LastIn, HeaderIn, Planned
<1>4. \A n : QueryMeant(i, n) = QueryIn(LastIn(placed[i], InQuery(n)), NewRequest(root[i]).query[n])
  <2> TAKE n
  <2>1. {k \in DOMAIN placed[i] : placed[i][k].in = "query" /\ placed[i][k].name = n}
          = {k \in DOMAIN placed[i] : placed[i][k] \in InQuery(n)}
    BY <1>1 DEF InQuery
  <2> QED
    BY <2>1 DEF QueryMeant, LastOf, LastIn, QueryIn, Planned
<1>5. \A n : CookiesMeant(i, n) = CookiesIn(LastIn(placed[i], InCookie(n)), NewRequest(root[i]).cookies[n])
  <2> TAKE n
  <2>1. {k \in DOMAIN placed[i] : placed[i][k].in = "cookie" /\ placed[i][k].name = n}
          = {k \in DOMAIN placed[i] : placed[i][k] \in InCookie(n)}
    BY <1>1 DEF InCookie
  <2> QED
    BY <2>1 DEF CookiesMeant, LastOf, LastIn, CookiesIn, Planned
<1>6. PayloadMeant(i) = Payloads(root[i], placed[i])
  BY <1>2 DEF PayloadMeant, Payloads, Planned
<1>7. MethodMeant(i) = IF LastIn(placed[i], InBody) # {} THEN "POST" ELSE NewRequest(root[i]).method
  BY <1>2 DEF MethodMeant, Planned
<1>8. (\A h \in Range(Canon) : r.header[h] \in HeaderMeant(i, h))
        <=> (\A h \in Range(Canon) :
               r.header[h] \in HeaderIn(LastIn(placed[i], InHeader(h)), NewRequest(root[i]).header[h]))
  BY <1>3, Zenon
<1>9. (\A n \in Names : r.query[n] \in QueryMeant(i, n) /\ r.cookies[n] \in CookiesMeant(i, n))
        <=> (\A n \in Names :
               /\ r.query[n] \in QueryIn(LastIn(placed[i], InQuery(n)), NewRequest(root[i]).query[n])
               /\ r.cookies[n] \in CookiesIn(LastIn(placed[i], InCookie(n)), NewRequest(root[i]).cookies[n]))
  BY <1>4, <1>5, Zenon
<1>10. Fields(root[i], placed[i], r) <=>
         /\ r.method = MethodMeant(i)
         /\ \A h \in Range(Canon) : r.header[h] \in HeaderMeant(i, h)
         /\ \A n \in Names : r.query[n] \in QueryMeant(i, n) /\ r.cookies[n] \in CookiesMeant(i, n)
  <2> DEFINE method == IF LastIn(placed[i], InBody) # {} THEN "POST" ELSE NewRequest(root[i]).method
  <2>1. MethodMeant(i) = method
    BY <1>7
  <2>2. Fields(root[i], placed[i], r) <=>
          /\ r.method = method
          /\ \A h \in Range(Canon) :
               r.header[h] \in HeaderIn(LastIn(placed[i], InHeader(h)), NewRequest(root[i]).header[h])
          /\ \A n \in Names :
               /\ r.query[n] \in QueryIn(LastIn(placed[i], InQuery(n)), NewRequest(root[i]).query[n])
               /\ r.cookies[n] \in CookiesIn(LastIn(placed[i], InCookie(n)), NewRequest(root[i]).cookies[n])
    BY Zenon DEF Fields
  <2> HIDE DEF method
  <2> QED
    BY <2>1, <2>2, <1>8, <1>9, Zenon
<1> QED
  BY <1>6, <1>10, Zenon DEF AsMeant

\* Placing a credential, for a location whose defaults are in place.
Placed(r, m) == Mutate(IF m.in = "cookie" THEN RemoveCookie(r, m.name) ELSE r, m)

LEMMA PlacementFits ==
  ASSUME NEW m \in Placements
  PROVE  /\ \A h : m \in InHeader(h) <=> \/ m.in = "header" /\ Canon[m.name] = h
                                         \/ m.in = "body" /\ h = "Content-Type"
         /\ \A n : m \in InQuery(n) <=> m.in = "query" /\ m.name = n
         /\ \A n : m \in InCookie(n) <=> m.in = "cookie" /\ m.name = n
         /\ m \in InBody <=> m.in = "body"
         /\ m.value \in Values /\ m.value \in HeaderValues
         /\ \/ m.in = "header" /\ m.name \in DOMAIN Canon
            \/ m.in \in {"cookie", "query", "body"} /\ m.name \in Names
BY DEF InHeader, SetsHeader, InQuery, InCookie, InBody, Placements, Proper, HeaderValues

\* What a placement writes.
PlacedAs(r, m, q) ==
  /\ q.method = IF m.in = "body" THEN "POST" ELSE r.method
  /\ q.header = IF m.in = "header" THEN [r.header EXCEPT ![Canon[m.name]] = m.value]
                ELSE IF m.in = "body" THEN [r.header EXCEPT !["Content-Type"] = "form"] ELSE r.header
  /\ q.query = IF m.in = "query" THEN [r.query EXCEPT ![m.name] = m.value] ELSE r.query
  /\ q.cookies = IF m.in = "cookie" THEN [r.cookies EXCEPT ![m.name] = <<m.value>>] ELSE r.cookies
  /\ q.body = r.body
  /\ q.open = IF m.in = "body" THEN Form(m.name, m.value) ELSE r.open
  /\ q.get = IF m.in = "body" THEN Form(m.name, m.value) ELSE r.get

LEMMA PlacedTyped ==
  ASSUME NEW r \in HTTPRequest, NEW m \in Placements
  PROVE  Placed(r, m) \in HTTPRequest /\ PlacedAs(r, m, Placed(r, m))
<1>1. CASE m.in = "header"
  <2> DEFINE q == WithHeader(r, m.name, m.value)
  <2>1. Placed(r, m) = q /\ m.name \in DOMAIN Canon /\ m.value \in HeaderValues
    BY <1>1, PlacementFits DEF Placed, Mutate
  <2>2. q \in HTTPRequest /\ q.header = [r.header EXCEPT ![Canon[m.name]] = m.value]
    BY <2>1, HeaderTyped
  <2>3. /\ q.method = r.method /\ q.query = r.query /\ q.cookies = r.cookies
        /\ q.body = r.body /\ q.open = r.open /\ q.get = r.get
    BY <2>1, HeaderTyped
  <2> HIDE DEF q
  <2> QED
    BY <1>1, <2>1, <2>2, <2>3 DEF PlacedAs
<1>2. CASE m.in = "cookie"
  <2> DEFINE s == RemoveCookie(r, m.name)
             q == WithCookie(s, m.name, m.value)
  <2>1. Placed(r, m) = q /\ m.name \in Names /\ m.value \in Values
    BY <1>2, PlacementFits DEF Placed, Mutate
  <2>2. s \in HTTPRequest /\ s.cookies = [r.cookies EXCEPT ![m.name] = <<>>]
    BY <2>1, CookieTyped
  <2>3. /\ s.method = r.method /\ s.query = r.query /\ s.header = r.header
        /\ s.body = r.body /\ s.open = r.open /\ s.get = r.get
    BY <2>1, CookieTyped
  <2> HIDE DEF s
  <2>4. q \in HTTPRequest /\ q.cookies = [s.cookies EXCEPT ![m.name] = Append(@, m.value)]
    <3>1. s \in HTTPRequest /\ m.name \in Names /\ m.value \in Values
      BY <2>1, <2>2
    <3>2. q \in HTTPRequest
      BY <3>1, CookieTyped
    <3>3. q.cookies = [s.cookies EXCEPT ![m.name] = Append(@, m.value)]
      BY <3>1 DEF WithCookie, HTTPRequest
    <3> QED
      BY <3>2, <3>3
  <2>5. /\ q.method = s.method /\ q.query = s.query /\ q.header = s.header
        /\ q.body = s.body /\ q.open = s.open /\ q.get = s.get
    BY <2>1, <2>2, CookieTyped
  <2> HIDE DEF q
  <2>6. q.cookies = [r.cookies EXCEPT ![m.name] = <<m.value>>]
    <3>1. r.cookies \in [Names -> Seq(Values)]
      BY DEF HTTPRequest
    <3>2. s.cookies[m.name] = <<>> /\ Append(<<>>, m.value) = <<m.value>>
      BY <2>1, <2>2, <3>1
    <3>3. q.cookies = [s.cookies EXCEPT ![m.name] = <<m.value>>]
      BY <2>4, <3>2
    <3> QED
      BY <2>2, <3>1, <3>3
  <2> QED
    BY <1>2, <2>1, <2>3, <2>4, <2>5, <2>6 DEF PlacedAs
<1>3. CASE m.in = "query"
  <2> DEFINE q == WithQuery(r, m.name, m.value)
  <2>1. Placed(r, m) = q /\ m.name \in Names /\ m.value \in Values
    BY <1>3, PlacementFits DEF Placed, Mutate
  <2>2. q \in HTTPRequest /\ q.query = [r.query EXCEPT ![m.name] = m.value]
    BY <2>1, QueryTyped
  <2>3. /\ q.method = r.method /\ q.header = r.header /\ q.cookies = r.cookies
        /\ q.body = r.body /\ q.open = r.open /\ q.get = r.get
    BY <2>1, QueryTyped
  <2> HIDE DEF q
  <2> QED
    BY <1>3, <2>1, <2>2, <2>3 DEF PlacedAs
<1>4. CASE m.in = "body"
  <2> DEFINE q == WithFormCredential(r, m.name, m.value)
  <2>1. Placed(r, m) = q /\ m.name \in Names /\ m.value \in Values
    BY <1>4, PlacementFits DEF Placed, Mutate
  <2>2. q \in HTTPRequest /\ q.method = "POST" /\ q.header = [r.header EXCEPT !["Content-Type"] = "form"]
    BY <2>1, FormTyped
  <2>3. q.query = r.query /\ q.cookies = r.cookies /\ q.body = r.body
    BY <2>1, FormTyped
  <2>4. q.open = Form(m.name, m.value)
    BY <2>1, FormTyped
  <2>5. q.get = Form(m.name, m.value)
    BY <2>1, FormTyped
  <2> HIDE DEF q
  <2> QED
    BY <1>4, <2>1, <2>2, <2>3, <2>4, <2>5 DEF PlacedAs
<1>5. m.in \in {"header", "cookie", "query", "body"}
  BY DEF Placements
<1> QED
  BY <1>1, <1>2, <1>3, <1>4, <1>5

\* One placement sets its own place, and leaves the others as they were.
LEMMA PlacedFields ==
  ASSUME NEW plan, NEW creds \in Seq(Placements), NEW r \in HTTPRequest, Fields(plan, creds, r),
         NEW m \in Placements
  PROVE  Fields(plan, Append(creds, m), Placed(r, m))
<1> DEFINE new == Append(creds, m)
           q == Placed(r, m)
<1>1. \A P : LastIn(new, P) = IF m \in P THEN {m} ELSE LastIn(creds, P)
  BY LastOfAppend
<1>2. r.method = IF LastIn(creds, InBody) # {} THEN "POST" ELSE NewRequest(plan).method
  BY Zenon DEF Fields
<1>3. \A h \in Range(Canon) : r.header[h] \in HeaderIn(LastIn(creds, InHeader(h)), NewRequest(plan).header[h])
  BY Zenon DEF Fields
<1>4. \A n \in Names : /\ r.query[n] \in QueryIn(LastIn(creds, InQuery(n)), NewRequest(plan).query[n])
                       /\ r.cookies[n] \in CookiesIn(LastIn(creds, InCookie(n)), NewRequest(plan).cookies[n])
  BY Zenon DEF Fields
<1>5. PlacedAs(r, m, q)
  BY PlacedTyped
<1> HIDE DEF new, q
<1>6. q.method = IF LastIn(new, InBody) # {} THEN "POST" ELSE NewRequest(plan).method
  <2>1. q.method = IF m.in = "body" THEN "POST" ELSE r.method
    BY <1>5 DEF PlacedAs
  <2>2. LastIn(new, InBody) = IF m.in = "body" THEN {m} ELSE LastIn(creds, InBody)
    BY <1>1, PlacementFits
  <2> QED
    BY <1>2, <2>1, <2>2
<1>7. ASSUME NEW h \in Range(Canon)
      PROVE  q.header[h] \in HeaderIn(LastIn(new, InHeader(h)), NewRequest(plan).header[h])
  <2>1. q.header = IF m.in = "header" THEN [r.header EXCEPT ![Canon[m.name]] = m.value]
                   ELSE IF m.in = "body" THEN [r.header EXCEPT !["Content-Type"] = "form"] ELSE r.header
    BY <1>5 DEF PlacedAs
  <2>2. r.header \in [Range(Canon) -> HeaderValues]
    BY DEF HTTPRequest
  <2>3. LastIn(new, InHeader(h)) = IF m \in InHeader(h) THEN {m} ELSE LastIn(creds, InHeader(h))
    BY <1>1
  <2>4. CASE m \in InHeader(h)
    <3>1. q.header[h] = IF m.in = "body" THEN "form" ELSE m.value
      BY <2>1, <2>2, <2>4, PlacementFits
    <3> QED
      BY <2>3, <2>4, <3>1 DEF HeaderIn
  <2>5. CASE m \notin InHeader(h)
    <3>1. q.header[h] = r.header[h]
      BY <2>1, <2>2, <2>5, PlacementFits
    <3> QED
      BY <1>3, <2>3, <2>5, <3>1
  <2> QED
    BY <2>4, <2>5
<1>8. ASSUME NEW n \in Names
      PROVE  q.query[n] \in QueryIn(LastIn(new, InQuery(n)), NewRequest(plan).query[n])
  <2>1. q.query = IF m.in = "query" THEN [r.query EXCEPT ![m.name] = m.value] ELSE r.query
    BY <1>5 DEF PlacedAs
  <2>2. r.query \in [Names -> Values \cup {None}]
    BY DEF HTTPRequest
  <2>3. LastIn(new, InQuery(n)) = IF m \in InQuery(n) THEN {m} ELSE LastIn(creds, InQuery(n))
    BY <1>1
  <2>4. CASE m \in InQuery(n)
    <3>1. q.query[n] = m.value
      BY <2>1, <2>2, <2>4, PlacementFits
    <3> QED
      BY <2>3, <2>4, <3>1 DEF QueryIn
  <2>5. CASE m \notin InQuery(n)
    <3>1. q.query[n] = r.query[n]
      BY <2>1, <2>2, <2>5, PlacementFits
    <3> QED
      BY <1>4, <2>3, <2>5, <3>1
  <2> QED
    BY <2>4, <2>5
<1>9. ASSUME NEW n \in Names
      PROVE  q.cookies[n] \in CookiesIn(LastIn(new, InCookie(n)), NewRequest(plan).cookies[n])
  <2>1. r.cookies \in [Names -> Seq(Values)]
    BY DEF HTTPRequest
  <2>2. LastIn(new, InCookie(n)) = IF m \in InCookie(n) THEN {m} ELSE LastIn(creds, InCookie(n))
    BY <1>1
  <2>3. CASE m.in # "cookie"
    <3>1. q.cookies = r.cookies
      BY <1>5, <2>3 DEF PlacedAs
    <3> QED
      BY <1>4, <2>2, <2>3, <3>1, PlacementFits
  <2>4. CASE m.in = "cookie"
    <3>5. q.cookies[n] = IF n = m.name THEN <<m.value>> ELSE r.cookies[n]
      BY <1>5, <2>1, <2>4 DEF PlacedAs
    <3>7. CASE n = m.name
      <4>1. LastIn(new, InCookie(n)) = {m}
        BY <2>2, <2>4, <3>7, PlacementFits
      <4> QED
        BY <3>5, <3>7, <4>1 DEF CookiesIn
    <3>8. CASE n # m.name
      BY <1>4, <2>2, <3>5, <3>8, PlacementFits
    <3> QED
      BY <3>7, <3>8
  <2> QED
    BY <2>3, <2>4
<1>10. Fields(plan, new, q)
  BY <1>6, <1>7, <1>8, <1>9, Zenon DEF Fields
<1> QED
  BY <1>10 DEF q, new

-----------------------------------------------------------------------------
(* The inductive invariant: what the reader of a request has still to give *)
(* follows what the server has of it, readers are not shared, and the      *)
(* fields are those meant.  It is stated of the values of the variables,   *)
(* since an application of a credential is two steps of it: the original   *)
(* gets a new reader, and the copy is added.                               *)

States == {"ready", "sending", "sent"}

Typed(rq, rd, st, gt, rt, pl, br) ==
  /\ rq \in Seq(HTTPRequest) /\ rd \in Seq(Bodies) /\ st \in Seq(States) /\ gt \in Seq(Bodies)
  /\ rt \in Seq(Plans \cup {Fetch}) /\ pl \in Seq(Seq(Placements)) /\ br \subseteq DOMAIN rq
  /\ Len(st) = Len(rq) /\ Len(gt) = Len(rq) /\ Len(rt) = Len(rq) /\ Len(pl) = Len(rq)

Linked(rq, rd) ==
  /\ \A i \in DOMAIN rq : rq[i].open = None /\ rq[i].body \in 0..Len(rd)
  /\ \A i, j \in DOMAIN rq : i # j /\ rq[i].body = rq[j].body => rq[i].body = 0

Whole(i, br, r, plan, creds, rd, s, g) ==
  /\ Fields(plan, creds, r)
  /\ r.body = 0 => r.get = None /\ g = <<>> /\ <<>> \in Payloads(plan, creds)
  /\ r.get # None => r.get \in Payloads(plan, creds)
  /\ (r.body # 0 /\ s # "sent" /\ i \notin br) => g \o rd[r.body] \in Payloads(plan, creds)
  /\ s = "ready" => g = <<>>

Sound(rq, rd, st, gt, rt, pl, br) ==
  /\ Typed(rq, rd, st, gt, rt, pl, br) /\ Linked(rq, rd)
  /\ \A i \in DOMAIN rq : Whole(i, br, rq[i], rt[i], pl[i], rd, st[i], gt[i])

\* What the server has is what was meant, and stays so.
Delivered == \A w \in server : /\ w.of \in DOMAIN req
                               /\ Fields(root[w.of], placed[w.of], w.as)
                               /\ w.payload \in Payloads(root[w.of], placed[w.of])

RequestInv == Sound(req, reader, state, got, root, placed, broken) /\ Delivered

LEMMA WholeKept ==
  ASSUME NEW r, NEW plan, NEW creds, NEW rd, NEW rd2, NEW s, NEW g, NEW br, NEW i,
         Whole(i, br, r, plan, creds, rd, s, g), r.body # 0 => rd2[r.body] = rd[r.body]
  PROVE  Whole(i, br, r, plan, creds, rd2, s, g)
BY DEF Whole

LEMMA FieldsOf ==
  ASSUME NEW plan, NEW creds, NEW r, NEW q, Fields(plan, creds, r),
         q.method = r.method, q.header = r.header, q.query = r.query, q.cookies = r.cookies
  PROVE  Fields(plan, creds, q)
BY Zenon DEF Fields

LEMMA BodiesHeld == /\ None \notin Bodies /\ <<>> \in Bodies
                    /\ \A b \in Bodies : <<>> \o b = b /\ b \o <<>> = b
BY NoneAssumption DEF Bodies

\* Appending to each sequence: what was there stays, and the new entry is at the end.
LEMMA AppendAt ==
  ASSUME NEW S, NEW s \in Seq(S), NEW x \in S
  PROVE  /\ Append(s, x) \in Seq(S) /\ Len(Append(s, x)) = Len(s) + 1
         /\ DOMAIN Append(s, x) = DOMAIN s \cup {Len(s) + 1} /\ Len(s) + 1 \notin DOMAIN s
         /\ \A i \in DOMAIN s : Append(s, x)[i] = s[i]
         /\ Append(s, x)[Len(s) + 1] = x
         /\ DOMAIN s = 1..Len(s) /\ Len(s) \in Nat
OBVIOUS

\* A request gets a fresh reader of the body it is meant to have.
LEMMA Reopened ==
  ASSUME NEW rq, NEW rd, NEW st, NEW gt, NEW rt, NEW pl, NEW br, Sound(rq, rd, st, gt, rt, pl, br),
         NEW i \in DOMAIN rq, NEW c \in Bodies, c \in Payloads(rt[i], pl[i])
  PROVE  Sound([rq EXCEPT ![i] = [rq[i] EXCEPT !.body = Len(rd) + 1, !.open = None]], Append(rd, c),
               [st EXCEPT ![i] = "ready"], [gt EXCEPT ![i] = <<>>], rt, pl, br)
<1> DEFINE n == Len(rd) + 1
           q == [rq[i] EXCEPT !.body = n, !.open = None]
           rq2 == [rq EXCEPT ![i] = q]  rd2 == Append(rd, c)
           st2 == [st EXCEPT ![i] = "ready"]  gt2 == [gt EXCEPT ![i] = <<>>]
<1>1. Typed(rq, rd, st, gt, rt, pl, br) /\ Linked(rq, rd)
  BY DEF Sound
<1>2. \A j \in DOMAIN rq : Whole(j, br, rq[j], rt[j], pl[j], rd, st[j], gt[j])
  BY DEF Sound
<1>3. /\ rq \in Seq(HTTPRequest) /\ rd \in Seq(Bodies) /\ st \in Seq(States) /\ gt \in Seq(Bodies)
      /\ Len(st) = Len(rq) /\ Len(gt) = Len(rq)
  BY <1>1 DEF Typed
<1>4. DOMAIN rq = 1..Len(rq) /\ DOMAIN st = DOMAIN rq /\ DOMAIN gt = DOMAIN rq /\ Len(rd) \in Nat
  BY <1>3
<1>5. rd2 \in Seq(Bodies) /\ Len(rd2) = n /\ rd2[n] = c /\ (\A k \in 1..Len(rd) : rd2[k] = rd[k]) /\ n \in Nat
  BY <1>3
<1>6. q \in HTTPRequest /\ q.body = n /\ q.open = None /\ q.get = rq[i].get
      /\ q.method = rq[i].method /\ q.header = rq[i].header /\ q.query = rq[i].query /\ q.cookies = rq[i].cookies
  <2>1. rq[i] \in HTTPRequest /\ n \in Nat
    BY <1>3, <1>5
  <2> HIDE DEF n
  <2> QED
    BY <2>1 DEF HTTPRequest
<1> HIDE DEF rd2, n, q
<1>7. rq2 \in Seq(HTTPRequest) /\ Len(rq2) = Len(rq) /\ DOMAIN rq2 = DOMAIN rq
      /\ rq2[i] = q /\ \A j \in DOMAIN rq \ {i} : rq2[j] = rq[j]
  BY <1>3, <1>6
<1>8. st2 \in Seq(States) /\ Len(st2) = Len(rq) /\ st2[i] = "ready" /\ \A j \in DOMAIN rq \ {i} : st2[j] = st[j]
  <2>1. "ready" \in States
    BY DEF States
  <2> QED
    BY <1>3, <1>4, <2>1
<1>9. gt2 \in Seq(Bodies) /\ Len(gt2) = Len(rq) /\ gt2[i] = <<>> /\ \A j \in DOMAIN rq \ {i} : gt2[j] = gt[j]
  <2>1. <<>> \in Bodies
    BY BodiesHeld
  <2> QED
    BY <1>3, <1>4, <2>1
<1> HIDE DEF rq2, st2, gt2
<1>10. Typed(rq2, rd2, st2, gt2, rt, pl, br)
  BY <1>1, <1>5, <1>7, <1>8, <1>9 DEF Typed
<1>11. Linked(rq2, rd2)
  <2>1. \A j \in DOMAIN rq : rq[j].open = None /\ rq[j].body \in 0..Len(rd)
    BY <1>1 DEF Linked
  <2>2. \A j, k \in DOMAIN rq : j # k /\ rq[j].body = rq[k].body => rq[j].body = 0
    BY <1>1 DEF Linked
  <2>3. n = Len(rd) + 1
    BY DEF n
  <2>4. \A j \in DOMAIN rq2 : rq2[j].open = None /\ rq2[j].body \in 0..Len(rd2)
    <3> TAKE j \in DOMAIN rq2
    <3>1. CASE j = i
      BY <1>4, <1>5, <1>6, <1>7, <2>3, <3>1
    <3>2. CASE j # i
      <4>1. rq2[j] = rq[j] /\ j \in DOMAIN rq
        BY <1>7, <3>2
      <4>2. rq[j].open = None /\ rq[j].body \in 0..Len(rd)
        BY <2>1, <4>1
      <4> QED
        BY <1>4, <1>5, <2>3, <4>1, <4>2
    <3> QED
      BY <3>1, <3>2
  <2>5. \A j, k \in DOMAIN rq2 : j # k /\ rq2[j].body = rq2[k].body => rq2[j].body = 0
    BY <1>4, <1>6, <1>7, <2>1, <2>2, <2>3
  <2> QED
    BY <2>4, <2>5 DEF Linked
<1>12. ASSUME NEW j \in DOMAIN rq2 PROVE Whole(j, br, rq2[j], rt[j], pl[j], rd2, st2[j], gt2[j])
  <2>1. CASE j = i
    <3>1. Whole(i, br, rq[i], rt[i], pl[i], rd, st[i], gt[i])
      BY <1>2
    <3>2. Fields(rt[i], pl[i], rq[i]) /\ (rq[i].get # None => rq[i].get \in Payloads(rt[i], pl[i]))
      BY <3>1 DEF Whole
    <3>3. Fields(rt[i], pl[i], q)
      BY <1>6, <3>2, FieldsOf
    <3>4. <<>> \o rd2[q.body] \in Payloads(rt[i], pl[i])
      BY <1>5, <1>6, BodiesHeld
    <3>5. q.body # 0
      BY <1>4, <1>6 DEF n
    <3>6. Whole(i, br, q, rt[i], pl[i], rd2, "ready", <<>>)
      BY <1>6, <3>2, <3>3, <3>4, <3>5 DEF Whole
    <3> QED
      BY <1>7, <1>8, <1>9, <2>1, <3>6
  <2>2. CASE j # i
    <3>1. Whole(j, br, rq[j], rt[j], pl[j], rd, st[j], gt[j])
      BY <1>2, <1>7
    <3>2. rq[j].body \in 0..Len(rd)
      BY <1>1, <1>7 DEF Linked
    <3>3. rq[j].body # 0 => rd2[rq[j].body] = rd[rq[j].body]
      BY <1>4, <1>5, <3>2
    <3>4. Whole(j, br, rq[j], rt[j], pl[j], rd2, st[j], gt[j])
      BY <3>1, <3>3, WholeKept
    <3> QED
      BY <1>7, <1>8, <1>9, <2>2, <3>4
  <2> QED
    BY <2>1, <2>2
<1>13. Sound(rq2, rd2, st2, gt2, rt, pl, br)
  BY <1>7, <1>10, <1>11, <1>12 DEF Sound
<1> QED
  BY <1>13 DEF rq2, rd2, st2, gt2, q, n

\* A request is added, with the reader of what it has to open.
LEMMA Added ==
  ASSUME NEW rq, NEW rd, NEW st, NEW gt, NEW rt, NEW pl, NEW br, Sound(rq, rd, st, gt, rt, pl, br),
         NEW plan \in Plans \cup {Fetch}, NEW creds \in Seq(Placements), NEW r \in HTTPRequest,
         Fields(plan, creds, r),
         r.open = None => r.body = 0 /\ r.get = None /\ <<>> \in Payloads(plan, creds),
         r.open # None => r.open \in Payloads(plan, creds),
         r.get # None => r.get \in Payloads(plan, creds)
  PROVE  Sound(Append(rq, Opened(r, rd).req), Opened(r, rd).readers, Append(st, "ready"), Append(gt, <<>>),
               Append(rt, plan), Append(pl, creds), br)
<1> DEFINE n == Len(rd) + 1  m == Len(rq) + 1
           q == Opened(r, rd).req
           rd2 == Opened(r, rd).readers
           rq2 == Append(rq, q)  st2 == Append(st, "ready")  gt2 == Append(gt, <<>>)
           rt2 == Append(rt, plan)  pl2 == Append(pl, creds)
<1>1. Typed(rq, rd, st, gt, rt, pl, br) /\ Linked(rq, rd)
  BY DEF Sound
<1>2. \A j \in DOMAIN rq : Whole(j, br, rq[j], rt[j], pl[j], rd, st[j], gt[j])
  BY DEF Sound
<1>3. /\ rq \in Seq(HTTPRequest) /\ rd \in Seq(Bodies) /\ st \in Seq(States) /\ gt \in Seq(Bodies)
      /\ rt \in Seq(Plans \cup {Fetch}) /\ pl \in Seq(Seq(Placements)) /\ br \subseteq DOMAIN rq
      /\ Len(st) = Len(rq) /\ Len(gt) = Len(rq) /\ Len(rt) = Len(rq) /\ Len(pl) = Len(rq)
  BY <1>1 DEF Typed
<1>4. r.open \in Bodies \cup {None} /\ r.body \in Nat
  BY DEF HTTPRequest
<1>5. q \in HTTPRequest /\ q.open = None /\ q.get = r.get /\ q.body = (IF r.open = None THEN 0 ELSE n)
      /\ q.method = r.method /\ q.header = r.header /\ q.query = r.query /\ q.cookies = r.cookies
  <2>1. n \in Nat
    BY <1>3
  <2> HIDE DEF n
  <2>2. q = IF r.open = None THEN r ELSE [r EXCEPT !.body = n, !.open = None]
    BY DEF Opened, n
  <2> HIDE DEF q
  <2> QED
    BY <2>1, <2>2 DEF HTTPRequest
<1>6. rd2 = IF r.open = None THEN rd ELSE Append(rd, r.open)
  BY DEF Opened
<1> HIDE DEF q, rd2
<1>7. /\ rd2 \in Seq(Bodies) /\ Len(rd) \in Nat /\ Len(rd2) \in Nat /\ Len(rd2) >= Len(rd)
      /\ \A k \in 1..Len(rd) : rd2[k] = rd[k]
      /\ r.open # None => Len(rd2) = n /\ rd2[n] = r.open
  BY <1>3, <1>4, <1>6
<1>8. /\ rq2 \in Seq(HTTPRequest) /\ Len(rq2) = m /\ DOMAIN rq2 = DOMAIN rq \cup {m} /\ m \notin DOMAIN rq
      /\ rq2[m] = q /\ \A j \in DOMAIN rq : rq2[j] = rq[j]
  BY <1>3, <1>5
<1>9. /\ st2 \in Seq(States) /\ Len(st2) = m /\ st2[m] = "ready" /\ \A j \in DOMAIN rq : st2[j] = st[j]
  BY <1>3 DEF States
<1>10. gt2 \in Seq(Bodies) /\ Len(gt2) = m /\ gt2[m] = <<>> /\ \A j \in DOMAIN rq : gt2[j] = gt[j]
  <2>1. <<>> \in Bodies
    BY BodiesHeld
  <2> QED
    BY <1>3, <2>1
<1>11. rt2 \in Seq(Plans \cup {Fetch}) /\ Len(rt2) = m /\ rt2[m] = plan /\ \A j \in DOMAIN rq : rt2[j] = rt[j]
  BY <1>3
<1>12. pl2 \in Seq(Seq(Placements)) /\ Len(pl2) = m /\ pl2[m] = creds /\ \A j \in DOMAIN rq : pl2[j] = pl[j]
  BY <1>3
<1> HIDE DEF rq2, st2, gt2, rt2, pl2
<1>13. Typed(rq2, rd2, st2, gt2, rt2, pl2, br)
  BY <1>3, <1>7, <1>8, <1>9, <1>10, <1>11, <1>12 DEF Typed
<1>14. \A j \in DOMAIN rq : rq[j].open = None /\ rq[j].body \in 0..Len(rd)
  BY <1>1 DEF Linked
<1>15. Linked(rq2, rd2)
  <2>2. \A j, k \in DOMAIN rq : j # k /\ rq[j].body = rq[k].body => rq[j].body = 0
    BY <1>1 DEF Linked
  <2>4. \A j \in DOMAIN rq2 : rq2[j].open = None /\ rq2[j].body \in 0..Len(rd2)
    <3> TAKE j \in DOMAIN rq2
    <3>1. CASE j = m
      <4>1. q.body \in 0..Len(rd2)
        BY <1>5, <1>7
      <4> QED
        BY <1>5, <1>8, <3>1, <4>1
    <3>2. CASE j # m
      <4>1. rq2[j] = rq[j] /\ j \in DOMAIN rq
        BY <1>8, <3>2
      <4>2. rq[j].open = None /\ rq[j].body \in 0..Len(rd)
        BY <1>14, <4>1
      <4> QED
        BY <1>7, <4>1, <4>2
    <3> QED
      BY <3>1, <3>2
  <2>5. ASSUME NEW j \in DOMAIN rq2, NEW k \in DOMAIN rq2, j # k, rq2[j].body = rq2[k].body
        PROVE  rq2[j].body = 0
    <3>1. \A x \in DOMAIN rq : q.body = rq[x].body => q.body = 0
      <4> TAKE x \in DOMAIN rq
      <4>1. rq[x].body \in 0..Len(rd)
        BY <1>14
      <4> QED
        BY <1>5, <1>7, <4>1
    <3> QED
      BY <1>8, <2>2, <2>5, <3>1
  <2> QED
    BY <2>4, <2>5 DEF Linked
<1>16. ASSUME NEW j \in DOMAIN rq2 PROVE Whole(j, br, rq2[j], rt2[j], pl2[j], rd2, st2[j], gt2[j])
  <2>1. CASE j = m
    <3>1. Fields(plan, creds, q)
      BY <1>5, FieldsOf
    <3>2. q.get # None => q.get \in Payloads(plan, creds)
      BY <1>5
    <3>3. q.body # 0 => <<>> \o rd2[q.body] \in Payloads(plan, creds)
      <4> SUFFICES ASSUME q.body # 0 PROVE <<>> \o rd2[q.body] \in Payloads(plan, creds)
        OBVIOUS
      <4>1. r.open # None /\ rd2[q.body] = r.open
        BY <1>5, <1>7
      <4>2. <<>> \o r.open = r.open
        BY <1>4, <4>1, BodiesHeld
      <4> QED
        BY <4>1, <4>2
    <3>4. q.body = 0 => q.get = None /\ <<>> \in Payloads(plan, creds)
      <4>1. n # 0
        BY <1>7
      <4> QED
        BY <1>5, <4>1
    <3>5. Whole(m, br, q, plan, creds, rd2, "ready", <<>>)
      BY <3>1, <3>2, <3>3, <3>4 DEF Whole
    <3> QED
      BY <1>8, <1>9, <1>10, <1>11, <1>12, <2>1, <3>5
  <2>2. CASE j # m
    <3>1. Whole(j, br, rq[j], rt[j], pl[j], rd, st[j], gt[j])
      BY <1>2, <1>8, <2>2
    <3>2. rq[j].body \in 0..Len(rd)
      BY <1>8, <1>14, <2>2
    <3>3. rq[j].body # 0 => rd2[rq[j].body] = rd[rq[j].body]
      BY <1>7, <3>2
    <3>4. Whole(j, br, rq[j], rt[j], pl[j], rd2, st[j], gt[j])
      BY <3>1, <3>3, WholeKept
    <3> QED
      BY <1>8, <1>9, <1>10, <1>11, <1>12, <2>2, <3>4
  <2> QED
    BY <2>1, <2>2
<1>17. Sound(rq2, rd2, st2, gt2, rt2, pl2, br)
  BY <1>13, <1>15, <1>16 DEF Sound
<1> QED
  BY <1>17 DEF rq2, rd2, st2, gt2, rt2, pl2, q

\* A request not yet given its reader, as its plan and its credentials mean it.
Prepared(plan, creds, r) ==
  /\ r \in HTTPRequest /\ Fields(plan, creds, r)
  /\ r.open = None => r.body = 0 /\ r.get = None /\ <<>> \in Payloads(plan, creds)
  /\ r.open # None => r.open \in Payloads(plan, creds)
  /\ r.get # None => r.get \in Payloads(plan, creds)

LEMMA NewPrepared == \A plan \in Plans \cup {Fetch} : Prepared(plan, <<>>, NewRequest(plan))
<1> TAKE plan \in Plans \cup {Fetch}
<1> DEFINE r == NewRequest(plan)
<1>1. r \in HTTPRequest /\ r.body = 0 /\ r.get \in {None, r.open}
  BY NewRequestIsDraft DEF Draft
<1>2. Fields(plan, <<>>, r)
  <2>1. \A last, v : last = {} => v \in HeaderIn(last, v) /\ v \in QueryIn(last, v) /\ v \in CookiesIn(last, v)
    BY DEF HeaderIn, QueryIn, CookiesIn
  <2> QED
    BY <2>1, LastOfNone DEF Fields
<1>3. Payloads(plan, <<>>) = {IF r.open = None THEN <<>> ELSE r.open}
  BY LastOfNone DEF Payloads
<1> HIDE DEF r
<1>4. Prepared(plan, <<>>, r)
  BY <1>1, <1>2, <1>3 DEF Prepared
<1> QED
  BY <1>4 DEF r

LEMMA PlacedPrepared ==
  ASSUME NEW plan, NEW creds \in Seq(Placements), NEW r, Prepared(plan, creds, r), NEW m \in Placements
  PROVE  Prepared(plan, Append(creds, m), Placed(r, m))
<1> DEFINE q == Placed(r, m)
           new == Append(creds, m)
<1>1. r \in HTTPRequest /\ Fields(plan, creds, r)
  BY DEF Prepared
<1>2. q \in HTTPRequest /\ PlacedAs(r, m, q) /\ Fields(plan, new, q)
  BY <1>1, PlacedTyped, PlacedFields
<1>3. LastIn(new, InBody) = IF m \in InBody THEN {m} ELSE LastIn(creds, InBody)
  BY LastOfAppend
<1>4. Payloads(plan, new) = IF m.in = "body" THEN {Form(m.name, m.value)} ELSE Payloads(plan, creds)
  <2>1. CASE m.in = "body"
    <3>1. LastIn(new, InBody) = {m}
      BY <1>3, <2>1, PlacementFits
    <3> HIDE DEF new
    <3> QED
      BY <2>1, <3>1 DEF Payloads
  <2>2. CASE m.in # "body"
    <3>1. LastIn(new, InBody) = LastIn(creds, InBody)
      BY <1>3, <2>2, PlacementFits
    <3> HIDE DEF new
    <3> QED
      BY <2>2, <3>1 DEF Payloads
  <2> QED
    BY <2>1, <2>2
<1> HIDE DEF q, new
<1>5. q.body = r.body /\ q.open = (IF m.in = "body" THEN Form(m.name, m.value) ELSE r.open)
      /\ q.get = (IF m.in = "body" THEN Form(m.name, m.value) ELSE r.get)
  BY <1>2 DEF PlacedAs
<1>6. m.in = "body" => Form(m.name, m.value) # None
  BY PlacementFits, FormIsBody
<1>7. Prepared(plan, new, q)
  BY <1>2, <1>4, <1>5, <1>6 DEF Prepared
<1> QED
  BY <1>7 DEF q, new

LEMMA DefaultsPlaced ==
  ASSUME NEW l \in Locations, Valid(l), Len(req) \in Nat
  PROVE  Placement(WithDefaults(l)) \in Placements
<1> DEFINE loc == WithDefaults(l)
<1>1. loc.in \in {"header", "cookie", "query", "body"} /\ loc.prefix \in {l.prefix, "Bearer"}
      /\ (loc.in = "header" => loc.name \in DOMAIN Canon) /\ (loc.in # "header" => loc.name \in Names)
  BY NamesAssumption, LocationsAssumption DEF WithDefaults, Valid
<1> HIDE DEF loc
<1>2. <<loc.prefix, Len(req)>> \in Values
  BY <1>1 DEF Values
<1>3. Proper([in |-> loc.in, name |-> loc.name, value |-> <<loc.prefix, Len(req)>>])
  BY <1>1, <1>2 DEF Proper
<1> QED
  BY <1>1, <1>2, <1>3 DEF Placements, Placement, Credential, loc

LEMMA PlaceIsPlaced == \A r, loc : Place(r, loc, Credential(loc)) = Placed(r, Placement(loc))
BY DEF Place, Placed, Placement

LEMMA AddedPrepared ==
  ASSUME NEW rq, NEW rd, NEW st, NEW gt, NEW rt, NEW pl, NEW br, Sound(rq, rd, st, gt, rt, pl, br),
         NEW plan \in Plans \cup {Fetch}, NEW creds \in Seq(Placements), NEW r, Prepared(plan, creds, r)
  PROVE  Sound(Append(rq, Opened(r, rd).req), Opened(r, rd).readers, Append(st, "ready"), Append(gt, <<>>),
               Append(rt, plan), Append(pl, creds), br)
BY Added, Zenon DEF Prepared

\* What the server has, when requests are only added.
LEMMA DeliveredKept ==
  ASSUME RequestInv, NEW plan, NEW creds, server' = server, Len(req') = Len(req) + 1, req' \in Seq(HTTPRequest),
         root' = Append(root, plan), placed' = Append(placed, creds)
  PROVE  Delivered'
<1>1. /\ req \in Seq(HTTPRequest) /\ root \in Seq(Plans \cup {Fetch}) /\ placed \in Seq(Seq(Placements))
      /\ Len(root) = Len(req) /\ Len(placed) = Len(req)
  BY DEF RequestInv, Sound, Typed
<1>2. \A i \in DOMAIN req : i \in DOMAIN req' /\ root'[i] = root[i] /\ placed'[i] = placed[i]
  BY <1>1
<1>3. Delivered
  BY DEF RequestInv
<1> QED
  BY <1>2, <1>3 DEF Delivered

-----------------------------------------------------------------------------
LEMMA InvFacts ==
  ASSUME RequestInv
  PROVE  /\ req \in Seq(HTTPRequest) /\ reader \in Seq(Bodies) /\ state \in Seq(States) /\ got \in Seq(Bodies)
         /\ root \in Seq(Plans \cup {Fetch}) /\ placed \in Seq(Seq(Placements)) /\ broken \subseteq DOMAIN req
         /\ DOMAIN req = 1..Len(req) /\ DOMAIN state = DOMAIN req /\ DOMAIN got = DOMAIN req
         /\ DOMAIN root = DOMAIN req /\ DOMAIN placed = DOMAIN req /\ Len(req) \in Nat /\ Len(reader) \in Nat
         /\ \A i \in DOMAIN req : /\ req[i] \in HTTPRequest /\ req[i].open = None /\ req[i].body \in 0..Len(reader)
                                  /\ Whole(i, broken, req[i], root[i], placed[i], reader, state[i], got[i])
         /\ \A i, j \in DOMAIN req : i # j /\ req[i].body = req[j].body => req[i].body = 0
BY DEF RequestInv, Sound, Typed, Linked

\* Adding a request that is prepared keeps the invariant.
LEMMA ReadyKeeps ==
  ASSUME RequestInv, NEW rq, NEW rd, Sound(rq, rd, state, got, root, placed, broken), Len(rq) = Len(req),
         NEW plan \in Plans \cup {Fetch}, NEW creds \in Seq(Placements), NEW r, Prepared(plan, creds, r),
         req' = Append(rq, Opened(r, rd).req), reader' = Opened(r, rd).readers,
         Ready(req', plan, creds)
  PROVE  RequestInv'
<1>1. /\ state' = Append(state, "ready") /\ got' = Append(got, <<>>) /\ root' = Append(root, plan)
      /\ placed' = Append(placed, creds) /\ server' = server /\ broken' = broken
  BY DEF Ready
<1>2. Sound(Append(rq, Opened(r, rd).req), Opened(r, rd).readers, Append(state, "ready"), Append(got, <<>>),
            Append(root, plan), Append(placed, creds), broken)
  BY AddedPrepared
<1>3. Sound(req', reader', state', got', root', placed', broken')
  BY <1>1, <1>2, Zenon
<1>4. Typed(req', reader', state', got', root', placed', broken')
  BY <1>3, Zenon DEF Sound
<1>5. req' \in Seq(HTTPRequest)
  BY <1>4, Zenon DEF Typed
<1>6. Len(req') = Len(req) + 1
  <2>1. Typed(rq, rd, state, got, root, placed, broken)
    BY Zenon DEF Sound
  <2>2. rq \in Seq(HTTPRequest)
    BY <2>1, Zenon DEF Typed
  <2>3. \A x : Len(Append(rq, x)) = Len(rq) + 1
    BY <2>2
  <2> QED
    BY <2>3
<1>7. Delivered'
  BY <1>1, <1>5, <1>6, DeliveredKept
<1> QED
  BY <1>3, <1>7, Zenon DEF RequestInv

LEMMA BuildKeeps ==
  ASSUME RequestInv, NEW plan \in Plans, Build(plan)
  PROVE  RequestInv'
<1> DEFINE r == NewRequest(plan)
<1>1. req' = Append(req, Opened(r, reader).req) /\ reader' = Opened(r, reader).readers
      /\ Ready(req', plan, <<>>)
  BY DEF Build
<1>2. Prepared(plan, <<>>, r) /\ <<>> \in Seq(Placements)
  BY NewPrepared
<1>3. Sound(req, reader, state, got, root, placed, broken)
  BY DEF RequestInv
<1> HIDE DEF r
<1> QED
  BY <1>1, <1>2, <1>3, ReadyKeeps

LEMMA NewCredentialRequestKeeps ==
  ASSUME RequestInv, NEW l \in Locations, NewCredentialRequest(l)
  PROVE  RequestInv'
<1> DEFINE loc == WithDefaults(l)
           m == Placement(loc)
           r == Place(NewRequest(Fetch), loc, Credential(loc))
<1>1. /\ req' = Append(req, Opened(r, reader).req) /\ reader' = Opened(r, reader).readers
      /\ Ready(req', Fetch, <<m>>) /\ Valid(l)
  BY DEF NewCredentialRequest
<1>2. m \in Placements
  BY <1>1, InvFacts, DefaultsPlaced
<1>3. r = Placed(NewRequest(Fetch), m)
  BY PlaceIsPlaced
<1> HIDE DEF loc, m, r
<1>4. Prepared(Fetch, <<>>, NewRequest(Fetch)) /\ <<>> \in Seq(Placements)
  BY NewPrepared
<1>5. Prepared(Fetch, Append(<<>>, m), r)
  BY <1>2, <1>3, <1>4, PlacedPrepared
<1>6. Append(<<>>, m) = <<m>> /\ <<m>> \in Seq(Placements)
  BY <1>2
<1>7. Prepared(Fetch, <<m>>, r)
  BY <1>5, <1>6, Zenon
<1>8. Sound(req, reader, state, got, root, placed, broken)
  BY DEF RequestInv
<1> QED
  BY <1>1, <1>6, <1>7, <1>8, ReadyKeeps

\* The original, with a fresh reader where its own was read for the copy, and the copy.
LEMMA CloneBodyKeeps ==
  ASSUME RequestInv, NEW i \in DOMAIN req,
         req[i].get = None /\ req[i].body # 0 => state[i] = "ready" /\ i \notin broken
  PROVE  LET both == CloneBody(req[i])
             src  == Opened(both.src, reader)
             rq   == [req EXCEPT ![i] = src.req]
         IN  /\ Sound(rq, src.readers, state, got, root, placed, broken) /\ Len(rq) = Len(req)
             /\ Prepared(root[i], placed[i], both.dst)
<1> DEFINE s == req[i]
           both == CloneBody(s)
           src == Opened(both.src, reader)
           rq == [req EXCEPT ![i] = src.req]
<1>1. s \in HTTPRequest /\ s.open = None /\ s.body \in 0..Len(reader)
      /\ Whole(i, broken, s, root[i], placed[i], reader, state[i], got[i])
  BY InvFacts
<1>2. Sound(req, reader, state, got, root, placed, broken)
  BY DEF RequestInv
<1>3. /\ Fields(root[i], placed[i], s)
      /\ s.body = 0 => s.get = None /\ <<>> \in Payloads(root[i], placed[i])
      /\ s.get # None => s.get \in Payloads(root[i], placed[i])
  BY <1>1 DEF Whole
<1>4. CASE s.body = 0
  <2>1. both.src = s /\ both.dst = s
    BY <1>4 DEF CloneBody, Unchanged
  <2>2. src.req = s /\ src.readers = reader
    BY <1>1, <2>1 DEF Opened
  <2>3. rq = req
    BY <2>2, InvFacts
  <2>4. Prepared(root[i], placed[i], s)
    BY <1>1, <1>3, <1>4 DEF Prepared
  <2> HIDE DEF s, both, src, rq
  <2> QED
    BY <1>2, <2>1, <2>2, <2>3, <2>4 DEF s, both, src, rq
<1>5. CASE s.body # 0 /\ s.get # None
  <2>1. both.src = s /\ both.dst = [s EXCEPT !.open = s.get]
    BY <1>5 DEF CloneBody
  <2>2. src.req = s /\ src.readers = reader
    BY <1>1, <2>1 DEF Opened
  <2>3. rq = req
    BY <2>2, InvFacts
  <2> DEFINE q == [s EXCEPT !.open = s.get]
  <2>4. q \in HTTPRequest /\ q.open = s.get /\ q.get = s.get /\ q.method = s.method
        /\ q.header = s.header /\ q.query = s.query /\ q.cookies = s.cookies
    <3> HIDE DEF s
    <3> QED
      BY <1>1 DEF HTTPRequest
  <2> HIDE DEF q
  <2>5. Prepared(root[i], placed[i], q)
    <3>1. Fields(root[i], placed[i], q)
      BY <1>3, <2>4, FieldsOf
    <3> QED
      BY <1>3, <1>5, <2>4, <3>1 DEF Prepared
  <2> QED
    BY <1>2, <2>1, <2>2, <2>3, <2>5 DEF q
<1>6. CASE s.body # 0 /\ s.get = None
  <2> DEFINE c == reader[s.body]
             q == [s EXCEPT !.open = c, !.get = c]
             o == [s EXCEPT !.open = c]
             moved == [s EXCEPT !.body = Len(reader) + 1, !.open = None]
  <2>1. both.src = o /\ both.dst = q
    BY <1>6 DEF CloneBody
  <2>2. state[i] = "ready" /\ i \notin broken
    BY <1>6
  <2>3. c \in Bodies /\ c # None
    BY <1>1, <1>6, InvFacts, BodiesHeld
  <2>4. got[i] = <<>> /\ got[i] \o c \in Payloads(root[i], placed[i])
    BY <1>1, <1>6, <2>2 DEF Whole
  <2>5. c \in Payloads(root[i], placed[i])
    BY <2>3, <2>4, BodiesHeld
  <2> HIDE DEF c
  <2>6. q \in HTTPRequest /\ q.open = c /\ q.get = c /\ q.method = s.method
        /\ q.header = s.header /\ q.query = s.query /\ q.cookies = s.cookies
    <3> HIDE DEF s
    <3> QED
      BY <1>1, <2>3 DEF HTTPRequest
  <2>7. src.req = moved /\ src.readers = Append(reader, c)
    <3>1. s \in HTTPRequest
      BY <1>1
    <3>2. both.src = o
      BY <2>1
    <3> HIDE DEF s, both
    <3>3. o.open = c /\ [o EXCEPT !.body = Len(reader) + 1, !.open = None] = moved
      BY <3>1 DEF HTTPRequest
    <3> HIDE DEF o, moved
    <3> QED
      BY <2>3, <3>2, <3>3 DEF Opened
  <2>8. [state EXCEPT ![i] = "ready"] = state /\ [got EXCEPT ![i] = <<>>] = got
    BY <2>2, <2>4, InvFacts
  <2> HIDE DEF q, both, src
  <2>9. Sound([req EXCEPT ![i] = moved], Append(reader, c), [state EXCEPT ![i] = "ready"],
              [got EXCEPT ![i] = <<>>], root, placed, broken)
    BY <1>2, <2>2, <2>3, <2>5, Reopened
  <2>10. Sound(rq, src.readers, state, got, root, placed, broken)
    BY <2>7, <2>8, <2>9
  <2>11. Len(rq) = Len(req)
    <3>1. rq \in Seq(HTTPRequest)
      BY <2>10 DEF Sound, Typed
    <3> QED
      BY <2>10, InvFacts DEF Sound, Typed
  <2>12. Prepared(root[i], placed[i], q)
    <3>1. Fields(root[i], placed[i], q)
      BY <1>3, <2>6, FieldsOf
    <3> QED
      BY <2>3, <2>5, <2>6, <3>1 DEF Prepared
  <2> QED
    BY <2>1, <2>10, <2>11, <2>12 DEF both, src, q
<1> QED
  BY <1>4, <1>5, <1>6

LEMMA ApplyCredentialKeeps ==
  ASSUME RequestInv, NEW i \in DOMAIN req, NEW l \in Locations, ApplyCredential(i, l)
  PROVE  RequestInv'
<1> DEFINE loc == WithDefaults(l)
           m == Placement(loc)
           both == CloneBody(req[i])
           src == Opened(both.src, reader)
           rq == [req EXCEPT ![i] = src.req]
           r == Place(both.dst, loc, Credential(loc))
           creds == Append(placed[i], m)
<1>1. /\ req' = Append(rq, Opened(r, src.readers).req) /\ reader' = Opened(r, src.readers).readers
      /\ Ready(req', root[i], creds) /\ Valid(l)
  BY DEF ApplyCredential
<1>2. req[i].get = None /\ req[i].body # 0 => state[i] = "ready" /\ i \notin broken
  BY DEF ApplyCredential
<1>3. m \in Placements
  BY <1>1, InvFacts, DefaultsPlaced
<1>4. r = Placed(both.dst, m)
  BY PlaceIsPlaced
<1>5. Sound(rq, src.readers, state, got, root, placed, broken) /\ Len(rq) = Len(req)
      /\ Prepared(root[i], placed[i], both.dst)
  BY <1>2, CloneBodyKeeps
<1>6. root[i] \in Plans \cup {Fetch} /\ placed[i] \in Seq(Placements)
  BY InvFacts
<1> HIDE DEF loc, m, both, src, rq, r
<1>7. Prepared(root[i], creds, r) /\ creds \in Seq(Placements)
  BY <1>3, <1>4, <1>5, <1>6, PlacedPrepared
<1> HIDE DEF creds
<1> QED
  BY <1>1, <1>5, <1>6, <1>7, ReadyKeeps

\* The facts of a step that leaves the requests' fields, roots and placements alone.
LEMMA SentKept ==
  ASSUME RequestInv, root' = root, placed' = placed, DOMAIN req' = DOMAIN req, server' = server
  PROVE  Delivered'
BY DEF RequestInv, Delivered

LEMMA ApplyFailsKeeps ==
  ASSUME RequestInv, NEW i \in DOMAIN req, ApplyFails(i)
  PROVE  RequestInv'
<1> DEFINE b == req[i].body
<1>1. /\ b # 0 /\ reader' = [reader EXCEPT ![b] = <<>>] /\ broken' = broken \cup {i}
      /\ UNCHANGED <<req, state, got, server, root, placed>>
  BY DEF ApplyFails
<1>2. b \in 1..Len(reader) /\ \A j \in DOMAIN req : j # i => req[j].body # b
  BY <1>1, InvFacts
<1> HIDE DEF b
<1>3. reader' \in Seq(Bodies) /\ Len(reader') = Len(reader)
      /\ \A k \in 1..Len(reader) : k # b => reader'[k] = reader[k]
  BY <1>1, <1>2, InvFacts, BodiesHeld
<1>4. Typed(req, reader, state, got, root, placed, broken) /\ Linked(req, reader)
  BY DEF RequestInv, Sound
<1>5. Typed(req, reader', state, got, root, placed, broken') /\ Linked(req, reader')
  BY <1>1, <1>3, <1>4 DEF Typed, Linked
<1>6. ASSUME NEW j \in DOMAIN req PROVE Whole(j, broken', req[j], root[j], placed[j], reader', state[j], got[j])
  <2>1. Whole(j, broken, req[j], root[j], placed[j], reader, state[j], got[j]) /\ req[j].body \in 0..Len(reader)
    BY InvFacts
  <2>2. CASE j = i
    BY <1>1, <2>1, <2>2 DEF Whole
  <2>3. CASE j # i
    <3>1. req[j].body # 0 => reader'[req[j].body] = reader[req[j].body]
      BY <1>2, <1>3, <2>1, <2>3
    <3>2. Whole(j, broken, req[j], root[j], placed[j], reader', state[j], got[j])
      BY <2>1, <3>1, WholeKept
    <3> QED
      BY <1>1, <2>3, <3>2 DEF Whole
  <2> QED
    BY <2>2, <2>3
<1>7. Sound(req, reader', state, got, root, placed, broken')
  BY <1>5, <1>6 DEF Sound
<1>8. Delivered'
  BY <1>1, SentKept
<1> QED
  BY <1>1, <1>7, <1>8, Zenon DEF RequestInv

LEMMA ChunkMoves ==
  ASSUME NEW g \in Bodies, NEW b \in Bodies, b # <<>>
  PROVE  /\ Append(g, Head(b)) \in Bodies /\ Tail(b) \in Bodies
         /\ Append(g, Head(b)) \o Tail(b) = g \o b
<1>1. Head(b) \in Chunks /\ Tail(b) \in Seq(Chunks) /\ b = <<Head(b)>> \o Tail(b)
  BY DEF Bodies
<1>2. Append(g, Head(b)) \in Seq(Chunks) /\ Append(g, Head(b)) = g \o <<Head(b)>>
  BY <1>1 DEF Bodies
<1>3. (g \o <<Head(b)>>) \o Tail(b) = g \o (<<Head(b)>> \o Tail(b))
  <2>1. \A x, y, z \in Seq(Chunks) : (x \o y) \o z = x \o (y \o z)
    OBVIOUS
  <2>2. <<Head(b)>> \in Seq(Chunks) /\ g \in Seq(Chunks)
    BY <1>1 DEF Bodies
  <2> QED
    BY <1>1, <2>1, <2>2
<1> QED
  BY <1>1, <1>2, <1>3 DEF Bodies

LEMMA SendChunkKeeps ==
  ASSUME RequestInv, NEW i \in DOMAIN req, SendChunk(i)
  PROVE  RequestInv'
<1> DEFINE b == req[i].body
           left == reader[b]
<1>1. /\ state[i] # "sent" /\ i \notin broken /\ b # 0 /\ left # <<>>
      /\ state' = [state EXCEPT ![i] = "sending"] /\ got' = [got EXCEPT ![i] = Append(@, Head(left))]
      /\ reader' = [reader EXCEPT ![b] = Tail(left)]
      /\ UNCHANGED <<req, server, root, placed, broken>>
  BY DEF SendChunk
<1>2. b \in 1..Len(reader) /\ \A j \in DOMAIN req : j # i => req[j].body # b
  BY <1>1, InvFacts
<1>3. got[i] \in Bodies /\ left \in Bodies
  BY <1>2, InvFacts
<1> HIDE DEF b
<1>4. /\ Append(got[i], Head(left)) \in Bodies /\ Tail(left) \in Bodies
      /\ Append(got[i], Head(left)) \o Tail(left) = got[i] \o left
  BY <1>1, <1>3, ChunkMoves
<1>5. reader' \in Seq(Bodies) /\ Len(reader') = Len(reader) /\ reader'[b] = Tail(left)
      /\ \A k \in 1..Len(reader) : k # b => reader'[k] = reader[k]
  BY <1>1, <1>2, <1>4, InvFacts
<1>6. got' \in Seq(Bodies) /\ Len(got') = Len(got) /\ got'[i] = Append(got[i], Head(left))
      /\ \A j \in DOMAIN req : j # i => got'[j] = got[j]
  BY <1>1, <1>4, InvFacts
<1>7. state' \in Seq(States) /\ Len(state') = Len(state) /\ state'[i] = "sending"
      /\ \A j \in DOMAIN req : j # i => state'[j] = state[j]
  BY <1>1, InvFacts DEF States
<1>8. Typed(req, reader, state, got, root, placed, broken) /\ Linked(req, reader)
  BY DEF RequestInv, Sound
<1>9. Typed(req, reader', state', got', root, placed, broken) /\ Linked(req, reader')
  BY <1>5, <1>6, <1>7, <1>8 DEF Typed, Linked
<1>10. ASSUME NEW j \in DOMAIN req PROVE Whole(j, broken, req[j], root[j], placed[j], reader', state'[j], got'[j])
  <2>1. Whole(j, broken, req[j], root[j], placed[j], reader, state[j], got[j]) /\ req[j].body \in 0..Len(reader)
    BY InvFacts
  <2>2. CASE j = i
    <3>1. got[i] \o left \in Payloads(root[i], placed[i])
      BY <1>1, <2>1, <2>2 DEF Whole, b
    <3>2. got'[i] \o reader'[req[i].body] \in Payloads(root[i], placed[i])
      BY <1>4, <1>5, <1>6, <3>1 DEF b
    <3>3. req[i].body # 0
      BY <1>1 DEF b
    <3> QED
      BY <1>7, <2>1, <2>2, <3>2, <3>3 DEF Whole
  <2>3. CASE j # i
    <3>1. req[j].body # 0 => reader'[req[j].body] = reader[req[j].body]
      BY <1>2, <1>5, <2>1, <2>3
    <3>2. Whole(j, broken, req[j], root[j], placed[j], reader', state[j], got[j])
      BY <2>1, <3>1, WholeKept
    <3> QED
      BY <1>6, <1>7, <2>3, <3>2
  <2> QED
    BY <2>2, <2>3
<1>11. Sound(req, reader', state', got', root, placed, broken)
  BY <1>9, <1>10 DEF Sound
<1>12. Delivered'
  BY <1>1, SentKept
<1> QED
  BY <1>1, <1>11, <1>12, Zenon DEF RequestInv

LEMMA SendEndKeeps ==
  ASSUME RequestInv, NEW i \in DOMAIN req, SendEnd(i)
  PROVE  RequestInv'
<1> DEFINE w0 == [of |-> i, nth |-> Sends(i), as |-> req[i], payload |-> got[i]]
<1>1. /\ state[i] # "sent" /\ i \notin broken /\ (req[i].body # 0 => reader[req[i].body] = <<>>)
      /\ server' = server \cup {w0} /\ state' = [state EXCEPT ![i] = "sent"]
      /\ UNCHANGED <<req, reader, got, root, placed, broken>>
  BY DEF SendEnd
<1>2. Whole(i, broken, req[i], root[i], placed[i], reader, state[i], got[i]) /\ got[i] \in Bodies
  BY InvFacts
<1>3. got[i] \o <<>> = got[i]
  BY <1>2, BodiesHeld
<1>4. Fields(root[i], placed[i], req[i]) /\ got[i] \in Payloads(root[i], placed[i])
  BY <1>1, <1>2, <1>3 DEF Whole
<1>5. w0.of = i /\ w0.as = req[i] /\ w0.payload = got[i]
  OBVIOUS
<1> HIDE DEF w0
<1>6. Delivered'
  <2>1. Delivered
    BY DEF RequestInv
  <2> QED
    BY <1>1, <1>4, <1>5, <2>1 DEF Delivered
<1>7. state' \in Seq(States) /\ Len(state') = Len(state) /\ state'[i] = "sent"
      /\ \A j \in DOMAIN req : j # i => state'[j] = state[j]
  BY <1>1, InvFacts DEF States
<1>8. Typed(req, reader, state, got, root, placed, broken) /\ Linked(req, reader)
  BY DEF RequestInv, Sound
<1>9. Typed(req, reader, state', got, root, placed, broken)
  BY <1>7, <1>8 DEF Typed
<1>10. ASSUME NEW j \in DOMAIN req PROVE Whole(j, broken, req[j], root[j], placed[j], reader, state'[j], got[j])
  <2>1. Whole(j, broken, req[j], root[j], placed[j], reader, state[j], got[j])
    BY InvFacts
  <2> QED
    BY <1>7, <2>1 DEF Whole
<1>11. Sound(req, reader, state', got, root, placed, broken)
  BY <1>8, <1>9, <1>10 DEF Sound
<1> QED
  BY <1>1, <1>6, <1>11, Zenon DEF RequestInv

LEMMA ReplayKeeps ==
  ASSUME RequestInv, NEW i \in DOMAIN req, Replay(i)
  PROVE  RequestInv'
<1> DEFINE s == req[i]
           c == s.get
           o == [s EXCEPT !.open = c]
           moved == [s EXCEPT !.body = Len(reader) + 1, !.open = None]
<1>1. /\ s.body # 0 => c # None
      /\ req' = [req EXCEPT ![i] = Opened(o, reader).req] /\ reader' = Opened(o, reader).readers
      /\ state' = [state EXCEPT ![i] = "ready"] /\ got' = [got EXCEPT ![i] = <<>>]
      /\ UNCHANGED <<server, root, placed, broken>>
  BY DEF Replay
<1>2. s \in HTTPRequest /\ s.open = None /\ Whole(i, broken, s, root[i], placed[i], reader, state[i], got[i])
  BY InvFacts
<1>3. Sound(req, reader, state, got, root, placed, broken)
  BY DEF RequestInv
<1>4. o.open = c /\ [o EXCEPT !.body = Len(reader) + 1, !.open = None] = moved
  <2> HIDE DEF s
  <2> QED
    BY <1>2 DEF HTTPRequest
<1>5. CASE s.body = 0
  <2>1. c = None /\ got[i] = <<>>
    BY <1>2, <1>5 DEF Whole
  <2>2. o = s
    <3> HIDE DEF s
    <3> QED
      BY <1>2, <2>1 DEF HTTPRequest
  <2>3. Opened(o, reader).req = s /\ Opened(o, reader).readers = reader
    BY <1>2, <2>2 DEF Opened
  <2>4. req' = req /\ reader' = reader /\ got' = got
    BY <1>1, <2>1, <2>3, InvFacts
  <2>5. state' \in Seq(States) /\ Len(state') = Len(state) /\ state'[i] = "ready"
        /\ \A j \in DOMAIN req : j # i => state'[j] = state[j]
    BY <1>1, InvFacts DEF States
  <2>6. Typed(req, reader, state, got, root, placed, broken) /\ Linked(req, reader)
    BY <1>3 DEF Sound
  <2>7. Typed(req, reader, state', got, root, placed, broken)
    BY <2>5, <2>6 DEF Typed
  <2>8. ASSUME NEW j \in DOMAIN req PROVE Whole(j, broken, req[j], root[j], placed[j], reader, state'[j], got[j])
    <3>1. Whole(j, broken, req[j], root[j], placed[j], reader, state[j], got[j])
      BY InvFacts
    <3> QED
      BY <1>5, <2>1, <2>5, <3>1 DEF Whole
  <2>9. Sound(req, reader, state', got, root, placed, broken)
    BY <2>6, <2>7, <2>8 DEF Sound
  <2>10. Delivered'
    BY <1>1, <2>4, SentKept
  <2> QED
    BY <1>1, <2>4, <2>9, <2>10, Zenon DEF RequestInv
<1>6. CASE s.body # 0
  <2>1. c # None /\ c \in Bodies /\ c \in Payloads(root[i], placed[i])
    <3> HIDE DEF s
    <3> QED
      BY <1>1, <1>2, <1>6 DEF Whole, HTTPRequest
  <2> HIDE DEF c, o, moved
  <2>2. Opened(o, reader).req = moved /\ Opened(o, reader).readers = Append(reader, c)
    BY <1>4, <2>1 DEF Opened
  <2>3. Sound([req EXCEPT ![i] = moved], Append(reader, c), [state EXCEPT ![i] = "ready"],
              [got EXCEPT ![i] = <<>>], root, placed, broken)
    BY <1>3, <2>1, Reopened DEF moved
  <2>4. Sound(req', reader', state', got', root', placed', broken')
    BY <1>1, <2>2, <2>3
  <2>5. DOMAIN req' = DOMAIN req
    BY <1>1
  <2>6. Delivered'
    BY <1>1, <2>5, SentKept
  <2> QED
    BY <2>4, <2>6, Zenon DEF RequestInv
<1> QED
  BY <1>5, <1>6

LEMMA RequestInvInit == RequestInit => RequestInv
<1> SUFFICES ASSUME RequestInit PROVE RequestInv
  OBVIOUS
<1>1. req = <<>> /\ reader = <<>> /\ state = <<>> /\ got = <<>> /\ server = {} /\ root = <<>> /\ placed = <<>>
      /\ broken = {}
  BY DEF RequestInit
<1>2. Typed(req, reader, state, got, root, placed, broken)
  BY <1>1 DEF Typed
<1>3. DOMAIN req = {}
  BY <1>1
<1> QED
  BY <1>1, <1>2, <1>3 DEF RequestInv, Sound, Linked, Delivered

LEMMA RequestInvStep == RequestInv /\ [RequestNext]_requestVars => RequestInv'
<1> SUFFICES ASSUME RequestInv, [RequestNext]_requestVars PROVE RequestInv'
  OBVIOUS
<1>1. ASSUME NEW plan \in Plans, Build(plan) PROVE RequestInv'
  BY <1>1, BuildKeeps
<1>2. ASSUME NEW l \in Locations, NewCredentialRequest(l) PROVE RequestInv'
  BY <1>2, NewCredentialRequestKeeps
<1>3. ASSUME NEW l \in Locations, NEW i \in DOMAIN req, ApplyCredential(i, l) PROVE RequestInv'
  BY <1>3, ApplyCredentialKeeps
<1>4. ASSUME NEW i \in DOMAIN req, ApplyFails(i) PROVE RequestInv'
  BY <1>4, ApplyFailsKeeps
<1>5. ASSUME NEW i \in DOMAIN req, SendChunk(i) PROVE RequestInv'
  BY <1>5, SendChunkKeeps
<1>6. ASSUME NEW i \in DOMAIN req, SendEnd(i) PROVE RequestInv'
  BY <1>6, SendEndKeeps
<1>7. ASSUME NEW i \in DOMAIN req, Replay(i) PROVE RequestInv'
  BY <1>7, ReplayKeeps
<1>8. CASE UNCHANGED requestVars
  BY <1>8 DEF requestVars, RequestInv, Delivered
<1> QED
  BY <1>1, <1>2, <1>3, <1>4, <1>5, <1>6, <1>7, <1>8, Zenon DEF RequestNext

LEMMA RequestInvMeant == RequestInv => SentAsMeant /\ OriginalIntact
<1> SUFFICES ASSUME RequestInv PROVE SentAsMeant /\ OriginalIntact
  OBVIOUS
<1>1. ASSUME NEW w \in server PROVE AsMeant(w.of, w.as, w.payload)
  <2>1. /\ w.of \in DOMAIN req /\ Fields(root[w.of], placed[w.of], w.as)
        /\ w.payload \in Payloads(root[w.of], placed[w.of])
    BY DEF RequestInv, Delivered
  <2>2. placed[w.of] \in Seq(Placements)
    BY <2>1, InvFacts
  <2> QED
    BY <2>1, <2>2, MeantFields
<1>2. ASSUME NEW i \in DOMAIN req, state[i] = "ready", i \notin broken
      PROVE  AsMeant(i, req[i], IF req[i].body = 0 THEN <<>> ELSE reader[req[i].body])
  <2> DEFINE payload == IF req[i].body = 0 THEN <<>> ELSE reader[req[i].body]
  <2>1. Whole(i, broken, req[i], root[i], placed[i], reader, state[i], got[i])
        /\ placed[i] \in Seq(Placements) /\ req[i].body \in 0..Len(reader) /\ reader \in Seq(Bodies)
    BY InvFacts
  <2>2. Fields(root[i], placed[i], req[i])
    BY <2>1 DEF Whole
  <2>3. payload \in Payloads(root[i], placed[i])
    <3>1. CASE req[i].body = 0
      BY <2>1, <3>1 DEF Whole
    <3>2. CASE req[i].body # 0
      <4>1. got[i] = <<>> /\ got[i] \o reader[req[i].body] \in Payloads(root[i], placed[i])
        BY <1>2, <2>1, <3>2 DEF Whole
      <4>2. reader[req[i].body] \in Bodies
        BY <2>1, <3>2
      <4> QED
        BY <3>2, <4>1, <4>2, BodiesHeld
    <3> QED
      BY <3>1, <3>2
  <2> HIDE DEF payload
  <2>4. AsMeant(i, req[i], payload)
    BY <2>1, <2>2, <2>3, MeantFields
  <2> QED
    BY <2>4 DEF payload
<1> QED
  BY <1>1, <1>2 DEF SentAsMeant, OriginalIntact

THEOREM RequestSound == RequestSpec => []RequestInv
<1> QED
  BY RequestInvInit, RequestInvStep, PTL DEF RequestSpec

\* SentAsMeant: whatever is copied, sent and sent again meanwhile, what the server receives of a
\* request is its plan, but for the credentials placed on it (credential.go:128).
THEOREM SentIsMeant == RequestSpec => []SentAsMeant
<1>1. RequestInv => SentAsMeant
  BY RequestInvMeant
<1> QED
  BY <1>1, RequestSound, PTL

\* OriginalIntact: a request that waits to be sent is what its caller meant, its body unread,
\* whatever was made of it (credential.go:141).
THEOREM OriginalsIntact == RequestSpec => []OriginalIntact
<1>1. RequestInv => OriginalIntact
  BY RequestInvMeant
<1> QED
  BY <1>1, RequestSound, PTL
=============================================================================
