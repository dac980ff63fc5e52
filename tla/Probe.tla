-------------------------------- MODULE Probe --------------------------------
(***************************************************************************)
(* One request through a Probe (probe/http.go, probe/do.go): DoResponse    *)
(* sends it, RoundTrip retries it, and DoResponse reads what came back.    *)
(* The server answers as it likes, the network fails as it likes, and the  *)
(* context of the request can end between any two steps.                   *)
(*                                                                         *)
(* A request is what the retry policy tells apart: its body, and whether   *)
(* it may be sent again.  Every reader is over the same bytes, so that it  *)
(* is how many of the last of them it has left.  Durations are in units of *)
(* which MaxWait is 60 seconds; MaxInt is the largest 64-bit integer.      *)
(***************************************************************************)
EXTENDS Integers, Sequences, FiniteSets

CONSTANTS MaxRetries,  \* config.maxRetries
          RetryDelay,  \* config.retryDelay
          MaxWait,     \* maxRetryWait
          ShiftCap,    \* the largest exponent of the backoff
          MaxInt,      \* math.MaxInt64
          Headers,     \* what servers put into Retry-After and X-RateLimit-Reset
          BodyLengths, \* the lengths of request bodies
          BodySizes,   \* the sizes of response bodies
          Caps         \* the values given to WithMaxBodySize

\* The value of a header: absent, an integer, a date n units from now (which an epoch
\* timestamp is, too), or anything else.
Directive == [kind : {"absent", "number", "date", "other"}, n : Int]

ASSUME RetriesAssumption == MaxRetries \in Nat /\ ShiftCap \in Nat
ASSUME HeadersAssumption == Headers \subseteq [after : Directive, reset : Directive]
ASSUME LengthsAssumption == BodyLengths \subseteq Nat
ASSUME SizesAssumption   == BodySizes \subseteq 0..MaxInt /\ Caps \subseteq -MaxInt..MaxInt
\* The delay doubled up to ShiftCap times fits: it is below 104 days.
ASSUME DelayAssumption   == /\ MaxInt \in Nat /\ MaxWait \in 1..MaxInt
                            /\ \A k \in 0..ShiftCap : RetryDelay * 2^k \in 1..MaxInt

VARIABLES
  request,    \* the request, and the options about it
  cancelled,  \* ctx.Err() # nil
  pc,         \* where the call is
  attempt,    \* the counter of the loop
  callerBody, \* whether req.Body is still open
  source,     \* what req.Body has left
  data,       \* the bytes that snapshotBody returned
  sent,       \* what was handed to the transport: the bytes read from its reader and
              \* those left in it, whether the context had ended, and what came of it
  open,       \* the attempts whose response body is not closed
  wait,       \* the duration given to sleepCtx
  outcome,    \* what RoundTrip returned
  response    \* what DoResponse returned

vars == <<request, cancelled, pc, attempt, callerBody, source, data, sent, open, wait, outcome, response>>

bodyVars == <<callerBody, source, data>>

Request == {r \in [body : {"none", "rewindable", "stream"}, length : BodyLengths \cup {0},
                   idempotent : BOOLEAN, retryNonIdempotent : BOOLEAN, limited : BOOLEAN] :
              r.body = "none" => r.length = 0}

RetryUnsafe == request.retryNonIdempotent \/ request.idempotent
NoResponse  == [got |-> "none"]

Init == /\ request \in Request /\ cancelled \in BOOLEAN
        /\ pc = "snapshot" /\ attempt = 0 /\ callerBody = "open" /\ data = 0
        \* A body that can be had again may have been read before, by an earlier use.
        /\ source \in IF request.body = "rewindable" THEN 0..request.length ELSE {request.length}
        /\ sent = <<>> /\ open = {} /\ wait = 0
        /\ outcome = "none" /\ response = NoResponse

Goto(from, to) == pc = from /\ pc' = to
Return(o)      == outcome' = o

\* The request's context ends, by a cancellation or by the timeout of the client.
Cancel == /\ ~cancelled /\ cancelled' = TRUE
          /\ UNCHANGED <<request, pc, attempt, bodyVars, sent, open, wait, outcome, response>>

-----------------------------------------------------------------------------
(* How long to wait.                                                       *)

Least(a, b)    == IF a <= b THEN a ELSE b
Greatest(a, b) == IF a >= b THEN a ELSE b

\* Signed 64-bit arithmetic.
Wrap(n) == ((n + MaxInt + 1) % (2 * (MaxInt + 1))) - (MaxInt + 1)

\* Mutant: the exponent is not capped.
SlotUncapped(k) == Least(Wrap(RetryDelay * 2^k), MaxWait)

\* backoffDuration: any duration up to a slot that doubles with each attempt.  The
\* random number generator panics on a negative slot; here it is the wait itself.
Slot(k)    == Least(Wrap(RetryDelay * 2^Least(k, ShiftCap)), MaxWait)
Backoff(k) == 0..Slot(k) \cup {Slot(k)}

Clamp(n) == Least(Greatest(n, 0), MaxWait)

\* retryAfterDuration: Retry-After, else X-RateLimit-Reset, else the backoff.
RetryAfter(h, k) ==
  IF \/ h.after.kind = "number" /\ h.after.n > 0
     \/ h.after.kind = "date"                 THEN {Clamp(h.after.n)}
  ELSE IF h.reset.kind \in {"number", "date"} THEN {Clamp(h.reset.n)}
  ELSE Backoff(k)

-----------------------------------------------------------------------------
(* RoundTrip.                                                              *)

\* snapshotBody without a body.
NoSnapshot == /\ request.body = "none" /\ Goto("snapshot", "loop")
              /\ UNCHANGED <<request, cancelled, attempt, bodyVars, sent, open, wait, outcome, response>>

\* snapshotBody: the bytes come from a reader that GetBody gives, and else from
\* req.Body, which is used up; req.Body is closed either way.
Snapshot == /\ request.body # "none" /\ Goto("snapshot", "loop")
            /\ callerBody' = "closed"
            /\ IF request.body = "rewindable" THEN data' = request.length /\ source' = source
                                              ELSE data' = source /\ source' = 0
            /\ UNCHANGED <<request, cancelled, attempt, sent, open, wait, outcome, response>>

\* GetBody fails, or the reader, anywhere.
SnapshotFails == /\ request.body # "none" /\ Goto("snapshot", "done")
                 /\ callerBody' = "closed" /\ Return("body")
                 /\ source' \in IF request.body = "rewindable" THEN {source} ELSE 0..source
                 /\ UNCHANGED <<request, cancelled, attempt, data, sent, open, wait, response>>

\* Mutant: the loop does not look at the context.
LoopUnchecked == /\ Goto("loop", IF request.limited THEN "limit" ELSE "send")
                 /\ UNCHANGED <<request, cancelled, attempt, bodyVars, sent, open, wait, outcome, response>>

\* The top of the loop.
Loop == /\ ~cancelled
        /\ Goto("loop", IF request.limited THEN "limit" ELSE "send")
        /\ UNCHANGED <<request, cancelled, attempt, bodyVars, sent, open, wait, outcome, response>>

LoopEnds == /\ cancelled /\ Goto("loop", "done")
            /\ Return("context")
            /\ UNCHANGED <<request, cancelled, attempt, bodyVars, sent, open, wait, response>>

\* limiter.Wait: a token may come as the context ends; and it fails also when the token
\* would come too late for a deadline that has not passed.
Limit == /\ Goto("limit", "send")
         /\ UNCHANGED <<request, cancelled, attempt, bodyVars, sent, open, wait, outcome, response>>

LimitFails == /\ Goto("limit", "done")
              /\ Return("limiter")
              /\ UNCHANGED <<request, cancelled, attempt, bodyVars, sent, open, wait, response>>

\* Mutant: the reader of the first attempt is handed on.
PayloadOnce == IF sent = <<>> THEN data ELSE sent[Len(sent)].left

\* setBody: what the reader of an attempt has, its own over the snapshot.
Payload == data

Send == /\ Goto("send", "flight")
        /\ sent' = Append(sent, [read |-> 0, left |-> Payload, late |-> cancelled, reply |-> "none"])
        /\ UNCHANGED <<request, cancelled, attempt, bodyVars, open, wait, outcome, response>>

\* The transport reads from the body it was given, also after it has answered.
TransportReads(i) == /\ sent[i].left > 0
                     /\ sent' = [sent EXCEPT ![i].read = @ + 1, ![i].left = @ - 1]
                     /\ UNCHANGED <<request, cancelled, pc, attempt, bodyVars, open, wait, outcome, response>>

\* The transport starts again on another connection, with the GetBody of setBody.
TransportRewinds == /\ pc = "flight" /\ sent[Len(sent)].read > 0
                    /\ sent' = [sent EXCEPT ![Len(sent)].read = 0, ![Len(sent)].left = Payload]
                    /\ UNCHANGED <<request, cancelled, pc, attempt, bodyVars, open, wait, outcome, response>>

Errors    == {"transient", "permanent"}
Statuses  == {"429", "503", "other status"}
Latest    == Len(sent)
LastReply == sent[Latest].reply

\* The transport returns a response or an error, never both.
Answer == \E r \in Errors \cup Statuses :
  /\ Goto("flight", IF r \in Errors THEN "failed" ELSE "answered")
  /\ sent' = [sent EXCEPT ![Latest].reply = r]
  /\ open' = IF r \in Errors THEN open ELSE open \cup {Latest}
  /\ UNCHANGED <<request, cancelled, attempt, bodyVars, wait, outcome, response>>

Retryable(r) == r = "429" \/ (r = "503" /\ RetryUnsafe)

\* Mutants: any error that passes is retried; the attempts are counted from one.
GivesUpLate  == IF cancelled THEN "context"
                ELSE IF LastReply = "permanent" THEN "network"
                ELSE IF attempt = MaxRetries THEN "exhausted" ELSE "none"
GivesUpEarly == IF cancelled THEN "context"
                ELSE IF ~RetryUnsafe \/ LastReply = "permanent" THEN "network"
                ELSE IF attempt + 1 >= MaxRetries THEN "exhausted" ELSE "none"

\* What a network error leads to, "none" when there is another attempt.
GivesUp == IF cancelled THEN "context"
           ELSE IF ~RetryUnsafe \/ LastReply = "permanent" THEN "network"
           ELSE IF attempt = MaxRetries THEN "exhausted" ELSE "none"

Fail == /\ Goto("failed", IF GivesUp = "none" THEN "sleep" ELSE "done")
        /\ Return(GivesUp)
        /\ IF GivesUp = "none" THEN wait' \in Backoff(attempt) ELSE wait' = wait
        /\ UNCHANGED <<request, cancelled, attempt, bodyVars, sent, open, response>>

\* Mutant: the body of a response that is retried is not closed.
RetryLeaking == /\ Goto("answered", "sleep")
                /\ Retryable(LastReply) /\ attempt < MaxRetries
                /\ \E h \in Headers : wait' \in RetryAfter(h, attempt)
                /\ UNCHANGED <<request, cancelled, attempt, bodyVars, sent, open, outcome, response>>

\* A response worth a retry is drained and closed; the last one is handed on unread.
Retry == /\ Goto("answered", "sleep")
         /\ Retryable(LastReply) /\ attempt < MaxRetries
         /\ open' = open \ {Latest}
         /\ \E h \in Headers : wait' \in RetryAfter(h, attempt)
         /\ UNCHANGED <<request, cancelled, attempt, bodyVars, sent, outcome, response>>

Deliver == /\ Goto("answered", "read")
           /\ ~Retryable(LastReply) \/ attempt = MaxRetries
           /\ Return("response")
           /\ UNCHANGED <<request, cancelled, attempt, bodyVars, sent, open, wait, response>>

\* sleepCtx: a wait of nothing does not look at the context.
Wake == /\ Goto("sleep", "loop")
        /\ attempt' = attempt + 1
        /\ UNCHANGED <<request, cancelled, bodyVars, sent, open, wait, outcome, response>>

Interrupted == /\ cancelled /\ wait > 0
               /\ Goto("sleep", "done")
               /\ Return("context")
               /\ UNCHANGED <<request, cancelled, attempt, bodyVars, sent, open, wait, response>>

-----------------------------------------------------------------------------
(* DoResponse, once client.Do returned a response.                         *)

\* io.ReadAll, through a LimitReader when there is a cap.
BytesRead(size, cap) == IF cap > 0 THEN Least(size, Greatest(Wrap(cap + 1), 0)) ELSE size

Read == \E size \in BodySizes, cap \in Caps :
  LET got       == BytesRead(size, cap)
      truncated == cap > 0 /\ got > cap
  IN  /\ Goto("read", "done")
      /\ response' = [got |-> "response", size |-> size, cap |-> cap, truncated |-> truncated,
                      kept |-> IF truncated THEN cap ELSE got]
      /\ open' = open \ {Latest}
      /\ UNCHANGED <<request, cancelled, attempt, bodyVars, sent, wait, outcome>>

ReadFails == /\ Goto("read", "done")
             /\ response' = [got |-> "error"]
             /\ open' = open \ {Latest}
             /\ UNCHANGED <<request, cancelled, attempt, bodyVars, sent, wait, outcome>>

Step == \/ NoSnapshot \/ Snapshot \/ SnapshotFails \/ Loop \/ LoopEnds \/ Limit \/ LimitFails
        \/ Send \/ (\E i \in 1..Latest : TransportReads(i)) \/ TransportRewinds \/ Answer
        \/ Fail \/ Retry \/ Deliver \/ Wake \/ Interrupted \/ Read \/ ReadFails
Next == Cancel \/ Step
Spec == Init /\ [][Next]_vars

-----------------------------------------------------------------------------
(* Properties.                                                             *)

\* "A request that was sent or processed before the failure may otherwise be applied
\* twice" (http.go:131): one that must not be repeated is sent again only after answers
\* that say it was not processed.
NeverAppliedTwice == ~RetryUnsafe =>
  \A i \in 1..(Latest - 1) : sent[i].reply = "429"

\* What RoundTrip returns is what the last attempt came to: a status to retry or the
\* error of exhaustion only after all the attempts, an error of the context only if it
\* ended, and a response of which no one else holds the body (http.go:211).
OutcomeFaithful ==
  /\ outcome = "response"  => /\ LastReply \in Statuses
                              /\ Retryable(LastReply) => Latest = MaxRetries + 1
                              /\ pc = "read" => open = {Latest}
  /\ outcome = "exhausted" => LastReply = "transient" /\ Latest = MaxRetries + 1 /\ RetryUnsafe
  /\ outcome = "network"   => LastReply \in Errors /\ (LastReply = "transient" => ~RetryUnsafe)
  /\ outcome = "context"   => cancelled
  /\ outcome = "body"      => sent = <<>>

\* Nothing stays open: when the call returns, the caller's body and every response are
\* closed, whichever of its many ways out it took (http.go:326, do.go:70).
NothingLeaks == pc = "done" =>
  open = {} /\ (request.body # "none" => callerBody = "closed")

\* Every attempt carries the whole body, "so it can be replayed on each retry attempt"
\* (http.go:322): what the transport has read of it, and will read, is all of it,
\* whatever was read for the attempts before, or is still being read.
WholeBodyEachTime == \A i \in 1..Latest : sent[i].read + sent[i].left = request.length

\* When the context has ended, at most one attempt still begins, and it is the last.
CancelStops == \A i \in 1..(Latest - 1) : ~sent[i].late

\* "Caps every wait between retries, whether computed locally or requested by the
\* server" (http.go:364), whatever the header says and however many attempts there were.
WaitBounded == wait \in 0..MaxWait

\* "WithMaxBodySize caps how many response body bytes are kept in memory. Bytes beyond n
\* are discarded and Response.Truncated is set. n <= 0 means unlimited." (do.go:44)
KeptWithinCap == response.got = "response" =>
  LET beyond == response.cap > 0 /\ response.size > response.cap
  IN  /\ response.truncated = beyond
      /\ response.kept = IF beyond THEN response.cap ELSE response.size
=============================================================================
