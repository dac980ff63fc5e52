----------------------------- MODULE Credential -----------------------------
(***************************************************************************)
(* Requests (probe/request.go, request.go) and the credentials placed on   *)
(* copies of them (probe/credential.go).                                   *)
(*                                                                         *)
(* A request points at the reader of its body, and a reader gives its      *)
(* chunks once.  Callers build requests, place credentials on them and on  *)
(* the copies, send any of them, several at a time, and send again what    *)
(* has a GetBody.  A body is a sequence of chunks; names, values and the   *)
(* canonical form of a header name are model values.  Cookies are those    *)
(* AddCookie writes, kept apart from the headers, among which there is no  *)
(* Cookie: who sets that one by name is left out, as are the order of      *)
(* cookies of different names and that of query parameters.  A caller      *)
(* hands ApplyCredential a request whose body has no GetBody from one      *)
(* goroutine at a time, and not after it has sent it.                      *)
(***************************************************************************)
EXTENDS Naturals, Sequences, FiniteSets, SequencesExt

CONSTANTS None,         \* nil, the empty string
          Canon,        \* the canonical form of each header name
          Names,        \* names of cookies, query parameters and fields of forms
          Plans,        \* what callers build: [method, body, getBody, mutators]
          Locations,    \* the locations callers ask for: [in, name, prefix]
          MaxRequests, MaxSends

Mutations == UNION {Range(p.mutators) : p \in Plans}
Values    == {m.value : m \in Mutations} \cup (({l.prefix : l \in Locations} \cup {"Bearer"}) \X Nat)
Chunks    == (UNION {Range(p.body) : p \in {q \in Plans : q.body # None}}) \cup (Names \X Values)

\* Headers have a canonical form; the names the code itself uses are among them.  The header that
\* AddCookie writes is not: callers set cookies by WithCookie and by locations in a cookie.
ASSUME NamesAssumption == /\ "Authorization" \in DOMAIN Canon /\ "token" \in Names
                          /\ "Content-Type" \in DOMAIN Canon /\ Canon["Content-Type"] = "Content-Type"
                          /\ "Cookie" \notin Range(Canon)
ASSUME PlansAssumption == \A p \in Plans :
  /\ p.body = None \/ p.body \in Seq(Range(p.body))
  /\ p.mutators \in Seq(Range(p.mutators))
  /\ \A m \in Range(p.mutators) : \/ m.in = "header" /\ m.name \in DOMAIN Canon
                                  \/ m.in \in {"cookie", "query", "body"} /\ m.name \in Names
ASSUME LocationsAssumption == \A l \in Locations :
  /\ l.in \in {None, "header"} => l.name \in DOMAIN Canon \cup {None}
  /\ l.in \in {"cookie", "query", "body"} => l.name \in Names \cup {None}
\* nil is not a body.
ASSUME NoneAssumption == None \notin Seq(Chunks)

VARIABLES req,     \* the requests: [method, header, cookies, query, body, get]
          reader,  \* what each body reader still has to give
          state,   \* "ready", "sending" or "sent", for each request
          got,     \* the chunks the server has of a request being sent
          server,  \* what the server has received: [of, as, payload]
          root,    \* the plan each request descends from
          placed,  \* the credentials placed on it, in order
          broken   \* the requests whose body could not be read

requestVars == <<req, reader, state, got, server, root, placed, broken>>

RequestInit ==
  /\ req = <<>> /\ reader = <<>> /\ state = <<>> /\ got = <<>>
  /\ server = {} /\ root = <<>> /\ placed = <<>> /\ broken = {}

-----------------------------------------------------------------------------
(* Building.  body is the index of a reader, 0 for no body; open is what a *)
(* new reader of the body has to give, None if it has its reader already.  *)

WithHeader(r, name, value) == [r EXCEPT !.header[Canon[name]] = value]
WithCookie(r, name, value) == [r EXCEPT !.cookies[name] = Append(@, value)]
WithQuery(r, name, value)  == [r EXCEPT !.query[name] = value]

Form(name, value) == <<<<name, value>>>>

\* Mutant: the copy keeps the GetBody of the body it had.
WithFormCredentialOnly(r, name, value) ==
  WithHeader([r EXCEPT !.method = "POST", !.open = Form(name, value)], "Content-Type", "form")

WithFormCredential(r, name, value) ==
  WithHeader([r EXCEPT !.method = "POST", !.open = Form(name, value), !.get = Form(name, value)],
             "Content-Type", "form")

Mutate(r, m) == CASE m.in = "header" -> WithHeader(r, m.name, m.value)
                  [] m.in = "cookie" -> WithCookie(r, m.name, m.value)
                  [] m.in = "query"  -> WithQuery(r, m.name, m.value)
                  [] m.in = "body"   -> WithFormCredential(r, m.name, m.value)

\* NewRequest, and NewRequestFromResource: GET unless the method says otherwise.
NewRequest(plan) ==
  FoldLeft(Mutate,
           [method  |-> IF plan.method = None THEN "GET" ELSE plan.method,
            header  |-> [h \in Range(Canon) |-> None],
            query   |-> [n \in Names |-> None],
            cookies |-> [n \in Names |-> <<>>], body |-> 0, open |-> plan.body,
            get     |-> IF plan.getBody THEN plan.body ELSE None],
           plan.mutators)

Fetch == [method |-> None, body |-> None, getBody |-> FALSE, mutators |-> <<>>]

-----------------------------------------------------------------------------
(* ApplyCredential.                                                        *)

\* CredentialLocation.WithDefaults.
WithDefaults(l) ==
  LET in   == IF l.in = None THEN "header" ELSE l.in
      name == IF l.name # None THEN l.name ELSE IF in = "header" THEN "Authorization" ELSE "token"
  IN  [in |-> in, name |-> name,
       prefix |-> IF l.prefix = None /\ in = "header" /\ Canon[name] = "Authorization" THEN "Bearer" ELSE l.prefix]

\* CredentialLocation.Validate.
Valid(l) == l.in \in {None, "header", "cookie", "query", "body"}

Unchanged(s) == [src |-> s, dst |-> s]

\* Mutant: the original keeps the reader it had, which is empty now.
CloneBodyUnrestored(s) ==
  IF s.body = 0 THEN Unchanged(s)
  ELSE IF s.get # None THEN [src |-> s, dst |-> [s EXCEPT !.open = s.get]]
  ELSE [src |-> [s EXCEPT !.open = <<>>],
        dst |-> [s EXCEPT !.open = reader[s.body], !.get = reader[s.body]]]

\* http.Request.Clone and cloneBody: what becomes of the original, and the copy.
CloneBody(s) ==
  IF s.body = 0 THEN Unchanged(s)
  ELSE IF s.get # None THEN [src |-> s, dst |-> [s EXCEPT !.open = s.get]]
  ELSE [src |-> [s EXCEPT !.open = reader[s.body]],
        dst |-> [s EXCEPT !.open = reader[s.body], !.get = reader[s.body]]]

RemoveCookie(r, name) == [r EXCEPT !.cookies[name] = <<>>]

\* The mutators for a location; a cookie of the name makes room first.
Place(r, loc, value) ==
  Mutate(IF loc.in = "cookie" THEN RemoveCookie(r, loc.name) ELSE r,
         [in |-> loc.in, name |-> loc.name, value |-> value])

\* A request gets the reader it has to open.
Opened(r, readers) ==
  IF r.open = None THEN [req |-> r, readers |-> readers]
  ELSE [req |-> [r EXCEPT !.body = Len(readers) + 1, !.open = None], readers |-> Append(readers, r.open)]

Ready(s, plan, creds) == /\ state' = Append(state, "ready") /\ got' = Append(got, <<>>)
                         /\ root' = Append(root, plan) /\ placed' = Append(placed, creds)
                         /\ UNCHANGED <<server, broken>>

Build(plan) == /\ Len(req) < MaxRequests
               /\ LET new == Opened(NewRequest(plan), reader)
                  IN  req' = Append(req, new.req) /\ reader' = new.readers
               /\ Ready(req', plan, <<>>)

\* The credential: the prefix, and a value that is new each time.
Credential(loc) == <<loc.prefix, Len(req)>>
Placement(loc)  == [in |-> loc.in, name |-> loc.name, value |-> Credential(loc)]

\* ApplyCredential of request i; an invalid location, or a GetBody that fails, changes nothing.
ApplyCredential(i, l) ==
  /\ Len(req) < MaxRequests /\ Valid(l)
  /\ req[i].get = None /\ req[i].body # 0 => state[i] = "ready" /\ i \notin broken
  /\ LET loc  == WithDefaults(l)
         both == CloneBody(req[i])
         src  == Opened(both.src, reader)
         dst  == Opened(Place(both.dst, loc, Credential(loc)), src.readers)
     IN  /\ req' = Append([req EXCEPT ![i] = src.req], dst.req)
         /\ reader' = dst.readers
         /\ Ready(req', root[i], Append(placed[i], Placement(loc)))

\* Its io.ReadAll fails: what was read is lost, the original's body is closed, the caller told;
\* a reader that failed fails again.
ApplyFails(i) ==
  /\ req[i].body # 0 /\ req[i].get = None /\ state[i] = "ready" /\ i \notin broken
  /\ reader' = [reader EXCEPT ![req[i].body] = <<>>]
  /\ broken' = broken \cup {i}
  /\ UNCHANGED <<req, state, got, server, root, placed>>

\* NewCredentialRequest: the request it applies the credential to is its own.
NewCredentialRequest(l) ==
  /\ Len(req) < MaxRequests /\ Valid(l)
  /\ LET loc == WithDefaults(l)
         new == Opened(Place(NewRequest(Fetch), loc, Credential(loc)), reader)
     IN  /\ req' = Append(req, new.req) /\ reader' = new.readers
         /\ Ready(req', Fetch, <<Placement(loc)>>)

-----------------------------------------------------------------------------
(* Sending: net/http reads the body while other requests are built, copied *)
(* and sent.                                                               *)

Sends(i) == Cardinality({w \in server : w.of = i})

SendChunk(i) == /\ state[i] # "sent" /\ i \notin broken
                /\ req[i].body # 0 /\ reader[req[i].body] # <<>>
                /\ state' = [state EXCEPT ![i] = "sending"]
                /\ got' = [got EXCEPT ![i] = Append(@, Head(reader[req[i].body]))]
                /\ reader' = [reader EXCEPT ![req[i].body] = Tail(@)]
                /\ UNCHANGED <<req, server, root, placed, broken>>

SendEnd(i) == /\ state[i] # "sent" /\ i \notin broken /\ (req[i].body # 0 => reader[req[i].body] = <<>>)
              /\ server' = server \cup {[of |-> i, nth |-> Sends(i), as |-> req[i], payload |-> got[i]]}
              /\ state' = [state EXCEPT ![i] = "sent"]
              /\ UNCHANGED <<req, reader, got, root, placed, broken>>

\* A retry, or a redirect: the body comes from GetBody.
Replay(i) == /\ state[i] = "sent" /\ Sends(i) < MaxSends /\ (req[i].body # 0 => req[i].get # None)
             /\ LET new == Opened([req[i] EXCEPT !.open = req[i].get], reader)
                IN  req' = [req EXCEPT ![i] = new.req] /\ reader' = new.readers
             /\ state' = [state EXCEPT ![i] = "ready"] /\ got' = [got EXCEPT ![i] = <<>>]
             /\ UNCHANGED <<server, root, placed, broken>>

RequestNext ==
  \/ \E plan \in Plans : Build(plan)
  \/ \E l \in Locations : NewCredentialRequest(l) \/ \E i \in DOMAIN req : ApplyCredential(i, l)
  \/ \E i \in DOMAIN req : ApplyFails(i) \/ SendChunk(i) \/ SendEnd(i) \/ Replay(i)

RequestSpec == RequestInit /\ [][RequestNext]_requestVars

-----------------------------------------------------------------------------
(* Properties.  What a request is meant to be: its plan, but for what the  *)
(* last credential at each place says.                                     *)

Planned(i) == NewRequest(root[i])

LastOf(i, Fits(_)) == LET K == {k \in DOMAIN placed[i] : Fits(placed[i][k])}
                      IN  {placed[i][k] : k \in {m \in K : \A n \in K : n <= m}}

SetsHeader(p, h) == \/ p.in = "header" /\ Canon[p.name] = h
                    \/ p.in = "body" /\ h = "Content-Type"

HeaderMeant(i, h) ==
  LET last == LastOf(i, LAMBDA p : SetsHeader(p, h))
  IN  IF last = {} THEN {Planned(i).header[h]}
      ELSE {IF p.in = "body" THEN "form" ELSE p.value : p \in last}

QueryMeant(i, n) ==
  LET last == LastOf(i, LAMBDA p : p.in = "query" /\ p.name = n)
  IN  IF last = {} THEN {Planned(i).query[n]} ELSE {p.value : p \in last}

CookiesMeant(i, n) ==
  LET last == LastOf(i, LAMBDA p : p.in = "cookie" /\ p.name = n)
  IN  IF last = {} THEN {Planned(i).cookies[n]} ELSE {<<p.value>> : p \in last}

InForm(i) == LastOf(i, LAMBDA p : p.in = "body")

MethodMeant(i)  == IF InForm(i) # {} THEN "POST" ELSE Planned(i).method
PayloadMeant(i) ==
  IF InForm(i) # {} THEN {Form(p.name, p.value) : p \in InForm(i)}
  ELSE {IF Planned(i).open = None THEN <<>> ELSE Planned(i).open}

AsMeant(i, r, payload) ==
  /\ payload \in PayloadMeant(i) /\ r.method = MethodMeant(i)
  /\ \A h \in Range(Canon) : r.header[h] \in HeaderMeant(i, h)
  /\ \A n \in Names : /\ r.query[n] \in QueryMeant(i, n)
                      /\ r.cookies[n] \in CookiesMeant(i, n)

\* SentAsMeant: whatever is copied, sent and sent again meanwhile, the server receives each request
\* with its plan's method, headers, cookies, query and whole body, but for the credentials
\* placed on it, each once and the last of its place (credential.go:128).
SentAsMeant == \A w \in server : AsMeant(w.of, w.as, w.payload)

\* OriginalIntact: a request that waits to be sent still is what its caller meant, its body
\* unread, however many copies were made of it or sent, unless a caller was told that the
\* body could not be read (credential.go:141).
OriginalIntact ==
  \A i \in DOMAIN req : state[i] = "ready" /\ i \notin broken =>
    AsMeant(i, req[i], IF req[i].body = 0 THEN <<>> ELSE reader[req[i].body])
=============================================================================
