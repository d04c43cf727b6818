------------------------ MODULE BatchEncryption_proofs ------------------------
(***************************************************************************)
(* Proofs about the API client and about the view of batch encryption over *)
(* it, for any number of batches, files, keys, requests, restarts and lost *)
(* connections.                                                            *)
(*                                                                         *)
(* First the client, in a page that makes requests of every kind: PageMove *)
(* is all that this part knows of a step of the page, so it holds for any  *)
(* composition whose steps are such moves.  Then the view: a step of it is *)
(* a move of its page or no step of the client at all, so the invariant of *)
(* the client holds of the whole view; the batches and the inspection of   *)
(* the key have their own.                                                 *)
(***************************************************************************)
EXTENDS BatchEncryption, SequenceTheorems, TLAPS

AllKinds == {"plain", "protected", "create", "start", "status"}

RequestType ==
    [kind : AllKinds, at : {"health", "fetch", "renew", "refetch", "done"},
     aborted : BOOLEAN, answer : {"none", "ok", "lost", "rejected"},
     outcome : {"none", "aborted", "unreachable", "unsupported", "forbidden", "ok"}]

PageType ==
    [loaded : BOOLEAN,
     health : [at : {"none", "sent", "answered", "failed"}, supports : BOOLEAN],
     jar : Nat, req : Seq(RequestType)]

ApiTypeOK ==
    /\ api \in PageType
    /\ service \in [gen : Nat \ {0}, supports : BOOLEAN]
    /\ configured \in BOOLEAN /\ elsewhere \in BOOLEAN
    /\ wire \in [Requests(api) -> SUBSET Nat]
    /\ handled \in Seq(Seq(BOOLEAN)) /\ Len(handled) = Len(api.req)

\* No handler had the request, and no copy of it is on its way.
Unheard(req) == Awaits(req) \/ (req.at = "fetch" /\ req.answer = "rejected")

Copies ==
    \A r \in Requests(api) :
        /\ Unheard(api.req[r]) => wire[r] = {} /\ handled[r] = <<>>
        /\ wire[r] # {} => handled[r] = <<>>
        /\ Len(handled[r]) <= 1

\* No token is of a process that is yet to come.
Tokens ==
    /\ api.jar <= service.gen
    /\ \A r \in Requests(api) : \A t \in wire[r] : t <= service.gen

\* The process whose token a page has is the one whose flag it read, and every copy of a
\* request with an expectation has the token of a process that checks it.
Expectations ==
    /\ /\ api.health.at = "answered" /\ api.health.supports
       /\ api.jar = service.gen
       => service.supports
    /\ \A r \in Requests(api) :
          api.req[r].kind \in Protected =>
             /\ service.gen \in wire[r] => service.supports
             /\ \A i \in DOMAIN handled[r] : handled[r][i]

ApiInv ==
    /\ ApiTypeOK
    /\ Copies
    /\ Tokens
    /\ ~configured /\ ~elsewhere => Expectations

-----------------------------------------------------------------------------
(* Sequences.                                                              *)

\* A function on 1..n is a sequence of length n.
LEMMA FunctionIsSeq ==
    ASSUME NEW S, NEW n \in Nat, NEW f \in [1..n -> S]
    PROVE  f \in Seq(S) /\ Len(f) = n /\ DOMAIN f = 1..n
  <1>1. f \in Seq(S)
    BY SeqDef
  <1> QED
    BY <1>1, LenProperties

\* A page's requests are those up to their number.
LEMMA RequestsOfPage ==
    ASSUME NEW a \in PageType
    PROVE  /\ a.req \in Seq(RequestType)
           /\ Len(a.req) \in Nat /\ Requests(a) = 1..Len(a.req)
           /\ a.req \in [1..Len(a.req) -> RequestType]
           /\ \A r \in Requests(a) : a.req[r] \in RequestType
  <1>1. a.req \in Seq(RequestType)
    BY DEF PageType
  <1> QED
    BY <1>1, LenProperties DEF Requests

\* One request of a page gets another record.
LEMMA RequestReplaced ==
    ASSUME NEW a \in PageType, NEW r \in Requests(a), NEW q \in RequestType,
           NEW b, b = [a EXCEPT !.req[r] = q]
    PROVE  /\ b \in PageType /\ Requests(b) = Requests(a) /\ Len(b.req) = Len(a.req)
           /\ b.jar = a.jar /\ b.health = a.health /\ b.loaded = a.loaded
           /\ \A s \in Requests(a) : b.req[s] = IF s = r THEN q ELSE a.req[s]
  <1>1. b = [a EXCEPT !.req = [a.req EXCEPT ![r] = q]]
    OBVIOUS
  <1>2. b.req = [a.req EXCEPT ![r] = q] /\ b.jar = a.jar /\ b.health = a.health /\ b.loaded = a.loaded
    BY <1>1 DEF PageType
  <1>3. b.req \in Seq(RequestType) /\ Len(b.req) = Len(a.req)
        /\ \A s \in Requests(a) : b.req[s] = IF s = r THEN q ELSE a.req[s]
    BY <1>2, RequestsOfPage, ExceptSeq
  <1>4. b \in PageType
    BY <1>1, <1>3 DEF PageType
  <1> QED
    BY <1>2, <1>3, <1>4, RequestsOfPage

\* The requests of a page get other records.
LEMMA RequestsReplaced ==
    ASSUME NEW a \in PageType, NEW f \in [Requests(a) -> RequestType],
           NEW b, b = [a EXCEPT !.req = f]
    PROVE  /\ b \in PageType /\ Requests(b) = Requests(a) /\ Len(b.req) = Len(a.req)
           /\ b.jar = a.jar /\ b.health = a.health /\ b.loaded = a.loaded
           /\ \A s \in Requests(a) : b.req[s] = f[s]
  <1>1. b.req = f /\ b.jar = a.jar /\ b.health = a.health /\ b.loaded = a.loaded
    BY DEF PageType
  <1>2. f \in Seq(RequestType) /\ Len(f) = Len(a.req)
    BY RequestsOfPage, FunctionIsSeq
  <1>3. b \in PageType
    BY <1>2 DEF PageType
  <1> QED
    BY <1>1, <1>2, <1>3, RequestsOfPage
-----------------------------------------------------------------------------
(* What a step of the page may do.                                         *)

\* Some requests are aborted, or end because of it.
AbortsOnly(a, b) ==
    /\ b \in PageType
    /\ Len(b.req) = Len(a.req)
    /\ b.jar = a.jar /\ b.health = a.health
    /\ \A r \in Requests(a) :
          /\ b.req[r].kind = a.req[r].kind /\ b.req[r].answer = a.req[r].answer
          /\ b.req[r].at \in {a.req[r].at, "done"}

RequestMove(old, new, health) ==
    \/ new.at = old.at /\ new.answer = old.answer
    \/ new.at = "done"
    \/ Unheard(old) /\ new.at = "renew"
    \/ /\ Awaits(old) /\ new.at \in {"fetch", "refetch"} /\ new.answer = "none"
       /\ old.kind \in Protected => health.at = "answered" /\ health.supports

\* From page a to page b.
Moves(a, b) ==
    /\ b \in PageType
    /\ Len(b.req) \in {Len(a.req), Len(a.req) + 1}
    /\ b.jar = a.jar
    /\ b.health.at = "answered" => b.health = a.health
    /\ \A r \in Requests(a) :
          b.req[r].kind = a.req[r].kind /\ RequestMove(a.req[r], b.req[r], a.health)
    /\ \A r \in Requests(b) \ Requests(a) :
          /\ b.req[r].answer = "none"
          /\ b.req[r].at = "health" \/ (b.req[r].at = "fetch" /\ b.req[r].kind \notin Protected)

PageMove == \E b : Page(b) /\ Moves(api, b)

\* Aborting is such a step, and so is what comes after it on the page it leaves.
LEMMA AbortsMoves ==
    ASSUME NEW a \in PageType, NEW b, AbortsOnly(a, b)
    PROVE  Moves(a, b)
  <1>1. b \in PageType /\ Requests(b) = Requests(a)
    BY RequestsOfPage DEF AbortsOnly
  <1> QED
    BY <1>1 DEF AbortsOnly, Moves, RequestMove

\* Aborting twice is aborting.
LEMMA AbortsCompose ==
    ASSUME NEW a \in PageType, NEW b, NEW c, AbortsOnly(a, b), AbortsOnly(b, c)
    PROVE  AbortsOnly(a, c)
  <1>1. b \in PageType /\ Requests(b) = Requests(a)
    BY RequestsOfPage DEF AbortsOnly
  <1> QED
    BY <1>1 DEF AbortsOnly

\* Aborting nothing is a way of aborting.
LEMMA AbortsNothing ==
    ASSUME NEW a \in PageType PROVE AbortsOnly(a, a)
  BY DEF AbortsOnly

\* The record of an aborted request.
LEMMA AbortedRecord ==
    ASSUME NEW q \in RequestType, NEW p,
           p = LET aborted == [q EXCEPT !.aborted = TRUE]
               IN IF q.at \in {"fetch", "refetch"} THEN Finished(aborted, "aborted") ELSE aborted
    PROVE  /\ p \in RequestType /\ p.kind = q.kind /\ p.answer = q.answer
           /\ p.at \in {q.at, "done"}
  BY DEF RequestType, Finished

\* Aborting one request of a page.
LEMMA AbortedAborts ==
    ASSUME NEW a \in PageType, NEW r \in Requests(a)
    PROVE  AbortsOnly(a, Aborted(a, r))
  <1> DEFINE q == a.req[r]
             aborted == [q EXCEPT !.aborted = TRUE]
             p == IF q.at \in {"fetch", "refetch"} THEN Finished(aborted, "aborted") ELSE aborted
  <1>1. q \in RequestType
    BY RequestsOfPage
  <1>2. p \in RequestType /\ p.kind = q.kind /\ p.answer = q.answer /\ p.at \in {q.at, "done"}
    BY <1>1, AbortedRecord
  <1>3. Aborted(a, r) = [a EXCEPT !.req[r] = p]
    BY DEF Aborted
  <1> HIDE DEF p
  <1> QED
    BY <1>2, <1>3, RequestReplaced DEF AbortsOnly

\* fetchHealth, seen from the page.
LEMMA AsksHealthKeeps ==
    ASSUME NEW a \in PageType
    PROVE  /\ AsksHealth(a) \in PageType
           /\ AsksHealth(a).req = a.req /\ AsksHealth(a).jar = a.jar
           /\ AsksHealth(a).health.at = "answered" => AsksHealth(a).health = a.health
  BY DEF AsksHealth, PageType

\* A request starts, on a page where some were aborted before.
LEMMA StartedMoves ==
    ASSUME NEW a \in PageType, NEW b, AbortsOnly(a, b), NEW kind \in AllKinds
    PROVE  Moves(a, Started(b, kind))
  <1> DEFINE new(at) == [kind |-> kind, at |-> at, aborted |-> FALSE, answer |-> "none",
                         outcome |-> "none"]
             with(at) == [b EXCEPT !.req = Append(@, new(at))]
  <1>1. b \in PageType /\ b.req \in Seq(RequestType) /\ Requests(b) = Requests(a)
        /\ Requests(a) = 1..Len(a.req) /\ Len(b.req) = Len(a.req) /\ Len(a.req) \in Nat
    BY RequestsOfPage DEF AbortsOnly
  <1>2. ASSUME NEW at \in {"health", "fetch"}, NEW c, c \in PageType,
               c.req = with(at).req, c.jar = b.jar, c.health.at = "answered" => c.health = b.health,
               at = "fetch" => kind \notin Protected
        PROVE  Moves(a, c)
    <2>0. new(at) \in RequestType
      BY DEF RequestType
    <2>1. c.req = Append(b.req, new(at))
      BY <1>1, <1>2 DEF PageType
    <2>2. /\ Len(c.req) = Len(a.req) + 1
          /\ \A r \in Requests(a) : c.req[r] = b.req[r]
          /\ c.req[Len(a.req) + 1] = new(at)
      BY <1>1, <2>0, <2>1, AppendProperties
    <2>3. Requests(c) = 1..Len(a.req) + 1
      BY <1>2, <2>2, RequestsOfPage
    <2>4. \A r \in Requests(a) :
             c.req[r].kind = a.req[r].kind /\ RequestMove(a.req[r], c.req[r], a.health)
      BY <2>2 DEF AbortsOnly, RequestMove
    <2>5. Requests(c) \ Requests(a) = {Len(a.req) + 1}
      BY <1>1, <2>3
    <2>6. \A r \in Requests(c) \ Requests(a) :
             /\ c.req[r].answer = "none"
             /\ c.req[r].at = "health" \/ (c.req[r].at = "fetch" /\ c.req[r].kind \notin Protected)
      BY <1>2, <2>2, <2>5
    <2> QED
      BY <1>2, <2>2, <2>4, <2>6 DEF Moves, AbortsOnly
  <1>3. ASSUME NEW at \in {"health", "fetch"}
        PROVE  with(at) \in PageType /\ with(at).jar = b.jar /\ with(at).health = b.health
    <2>1. new(at) \in RequestType
      BY DEF RequestType
    <2>2. Append(b.req, new(at)) \in Seq(RequestType)
      BY <1>1, <2>1, AppendProperties
    <2> QED
      BY <1>1, <2>2 DEF PageType
  <1>4. Started(b, kind) = IF NeedsHealth(b, kind) THEN AsksHealth(with("health")) ELSE with("fetch")
    BY DEF Started
  <1>5. ~NeedsHealth(b, kind) => kind \notin Protected
    BY DEF NeedsHealth
  <1>6. CASE NeedsHealth(b, kind)
    <2> DEFINE c == AsksHealth(with("health"))
    <2>1. c \in PageType /\ c.req = with("health").req /\ c.jar = b.jar
          /\ (c.health.at = "answered" => c.health = b.health)
      BY <1>3, AsksHealthKeeps
    <2> HIDE DEF c
    <2>2. Moves(a, c)
      BY <1>2, <2>1
    <2> QED
      BY <1>4, <1>6, <2>2 DEF c
  <1>7. CASE ~NeedsHealth(b, kind)
    BY <1>2, <1>3, <1>4, <1>5, <1>7
  <1> QED
    BY <1>6, <1>7
-----------------------------------------------------------------------------
(* A step of the page keeps the invariant.                                 *)

\* Page brings the history of a request that is new.
LEMMA HandledGrows ==
    ASSUME NEW h \in Seq(Seq(BOOLEAN)), NEW m \in Nat, NEW e \in [1..m -> {<<>>}]
    PROVE  /\ h \o e \in Seq(Seq(BOOLEAN)) /\ Len(h \o e) = Len(h) + m
           /\ \A i \in 1..Len(h) : (h \o e)[i] = h[i]
           /\ \A i \in (Len(h) + 1)..(Len(h) + m) : (h \o e)[i] = <<>>
  <1>1. <<>> \in Seq(BOOLEAN) /\ Len(h) \in Nat
    BY EmptySeq, LenProperties
  <1>2. e \in [1..m -> Seq(BOOLEAN)]
    BY <1>1
  <1>3. e \in Seq(Seq(BOOLEAN)) /\ Len(e) = m
    BY <1>2, FunctionIsSeq
  <1>4. /\ h \o e \in Seq(Seq(BOOLEAN)) /\ Len(h \o e) = Len(h) + m
        /\ \A i \in 1..Len(h) + m : (h \o e)[i] = IF i <= Len(h) THEN h[i] ELSE e[i - Len(h)]
    BY <1>3, ConcatProperties
  <1>5. \A i \in 1..Len(h) : i \in 1..Len(h) + m /\ i <= Len(h)
    BY <1>1
  <1>6. \A i \in (Len(h) + 1)..(Len(h) + m) :
           i \in 1..Len(h) + m /\ ~(i <= Len(h)) /\ i - Len(h) \in 1..m
    BY <1>1
  <1> QED
    BY <1>4, <1>5, <1>6

\* What Page does to the copies and histories of requests.
LEMMA PageEffect ==
    ASSUME ApiTypeOK, NEW b, Moves(api, b), Page(b)
    PROVE  /\ api' = b /\ ApiTypeOK' /\ UNCHANGED <<service, configured, elsewhere>>
           /\ Requests(api) \subseteq Requests(b)
           /\ \A r \in Requests(api) : handled'[r] = handled[r]
           /\ \A r \in Requests(b) \ Requests(api) : handled'[r] = <<>>
           /\ \A r \in Requests(b) :
                 wire'[r] = IF /\ b.req[r].at \in {"fetch", "refetch"}
                               /\ r \notin Requests(api) \/ api.req[r].at # b.req[r].at
                            THEN {b.jar} ELSE IF r \in Requests(api) THEN wire[r] ELSE {}
  <1>1. /\ api \in PageType /\ b \in PageType
        /\ Requests(api) = 1..Len(api.req) /\ Requests(b) = 1..Len(b.req)
        /\ Len(api.req) \in Nat /\ Len(b.req) \in Nat /\ Len(api.req) <= Len(b.req)
    BY RequestsOfPage DEF ApiTypeOK, Moves
  <1>2. /\ api' = b /\ UNCHANGED <<service, configured, elsewhere>>
        /\ wire' = Sent(api, b)
        /\ handled' = handled \o [i \in 1..(Len(b.req) - Len(handled)) |-> <<>>]
    BY DEF Page
  <1>3. /\ handled' \in Seq(Seq(BOOLEAN)) /\ Len(handled') = Len(b.req)
        /\ \A r \in Requests(api) : handled'[r] = handled[r]
        /\ \A r \in Requests(b) \ Requests(api) : handled'[r] = <<>>
    <2> DEFINE m == Len(b.req) - Len(api.req)
               e == [i \in 1..m |-> <<>>]
    <2>1. handled \in Seq(Seq(BOOLEAN)) /\ Len(handled) = Len(api.req)
      BY DEF ApiTypeOK
    <2>2. handled' = handled \o e
      BY <1>2, <2>1
    <2>3. m \in Nat /\ Len(api.req) + m = Len(b.req)
      BY <1>1
    <2>4. e \in [1..m -> {<<>>}]
      OBVIOUS
    <2>5. Requests(b) \ Requests(api) = (Len(api.req) + 1)..Len(b.req)
      BY <1>1
    <2> HIDE DEF m, e
    <2>6. /\ handled' \in Seq(Seq(BOOLEAN)) /\ Len(handled') = Len(handled) + m
          /\ \A i \in 1..Len(handled) : handled'[i] = handled[i]
          /\ \A i \in (Len(handled) + 1)..(Len(handled) + m) : handled'[i] = <<>>
      BY <2>1, <2>2, <2>3, <2>4, HandledGrows
    <2> QED
      BY <1>1, <2>1, <2>3, <2>5, <2>6
  <1>4. b.jar \in Nat
    BY <1>1 DEF PageType
  <1>5. wire' \in [Requests(b) -> SUBSET Nat]
    BY <1>1, <1>2, <1>4 DEF Sent, ApiTypeOK
  <1>6. ApiTypeOK'
    BY <1>1, <1>2, <1>3, <1>5 DEF ApiTypeOK, Requests
  <1> QED
    BY SMTT(20), <1>1, <1>2, <1>3, <1>6 DEF Sent

\* A move of the page keeps the invariant: copies are sent of requests no handler had, and
\* those with an expectation only with the token of the process whose flag was read.
LEMMA PageKeeps ==
    ASSUME ApiInv, PageMove
    PROVE  ApiInv'
  <1> PICK b : Page(b) /\ Moves(api, b)
    BY DEF PageMove
  <1>0. ApiTypeOK /\ Copies /\ Tokens
    BY DEF ApiInv
  <1>1. /\ api' = b /\ ApiTypeOK' /\ UNCHANGED <<service, configured, elsewhere>>
        /\ Requests(api) \subseteq Requests(b)
        /\ \A r \in Requests(api) : handled'[r] = handled[r]
        /\ \A r \in Requests(b) \ Requests(api) : handled'[r] = <<>>
        /\ \A r \in Requests(b) :
              wire'[r] = IF /\ b.req[r].at \in {"fetch", "refetch"}
                            /\ r \notin Requests(api) \/ api.req[r].at # b.req[r].at
                         THEN {b.jar} ELSE IF r \in Requests(api) THEN wire[r] ELSE {}
    BY <1>0, PageEffect
  <1> HIDE DEF Page
  <1>2. Requests(api)' = Requests(b)
    BY <1>1 DEF Requests
  <1>3. /\ \A r \in Requests(api) : wire[r] \in SUBSET Nat
        /\ b.jar = api.jar /\ api.jar \in Nat
        /\ service.gen \in Nat
    BY <1>0 DEF ApiTypeOK, PageType, Moves
  \* Copies are sent of requests that are new or go on, which are unheard.
  <1>4. \A r \in Requests(api) :
           wire'[r] # wire[r] => wire'[r] = {b.jar} /\ Awaits(api.req[r])
                                 /\ b.req[r].answer = "none" /\ ~Awaits(b.req[r])
    BY <1>1 DEF Moves, RequestMove, Awaits, Unheard
  <1>5. Copies'
    <2> SUFFICES ASSUME NEW r \in Requests(b)
                 PROVE  /\ Unheard(b.req[r]) => wire'[r] = {} /\ handled'[r] = <<>>
                        /\ wire'[r] # {} => handled'[r] = <<>>
                        /\ Len(handled'[r]) <= 1
      BY <1>1, <1>2 DEF Copies
    <2>1. Len(<<>>) = 0
      OBVIOUS
    <2>2. CASE r \notin Requests(api)
      BY <1>1, <2>1, <2>2 DEF Moves, Unheard, Awaits
    <2>3. CASE r \in Requests(api)
      <3>1. /\ Unheard(api.req[r]) => wire[r] = {} /\ handled[r] = <<>>
            /\ wire[r] # {} => handled[r] = <<>>
            /\ Len(handled[r]) <= 1
        BY <1>0, <2>3 DEF Copies
      <3>2. Unheard(b.req[r]) => Unheard(api.req[r]) /\ wire'[r] = wire[r]
        BY <1>1, <1>4, <2>3 DEF Moves, RequestMove, Unheard, Awaits
      <3>3. wire'[r] # wire[r] => Unheard(api.req[r])
        BY <1>4, <2>3 DEF Unheard
      <3> QED
        BY <1>1, <2>3, <3>1, <3>2, <3>3
    <2> QED
      BY <2>2, <2>3
  <1>6. Tokens'
    <2>1. \A r \in Requests(b) : \A t \in wire'[r] : t <= service.gen
      BY <1>0, <1>1, <1>3 DEF Tokens
    <2> QED
      BY <1>0, <1>1, <1>2, <1>3, <2>1 DEF Tokens
  <1>7. ASSUME ~configured, ~elsewhere PROVE Expectations'
    <2>0. Expectations
      BY <1>7 DEF ApiInv
    <2>1. /\ b.health.at = "answered" /\ b.health.supports /\ b.jar = service.gen
          => service.supports
      BY <1>3, <2>0 DEF Expectations, Moves
    <2>2. ASSUME NEW r \in Requests(b), b.req[r].kind \in Protected
          PROVE  /\ service.gen \in wire'[r] => service.supports
                 /\ \A i \in DOMAIN handled'[r] : handled'[r][i]
      <3>1. CASE r \notin Requests(api)
        BY <1>1, <2>2, <3>1 DEF Moves
      <3>2. CASE r \in Requests(api)
        <4>1. api.req[r].kind \in Protected
          BY <2>2, <3>2 DEF Moves
        <4>2. wire'[r] # wire[r] => api.health.at = "answered" /\ api.health.supports
          BY <1>1, <3>2, <4>1 DEF Moves, RequestMove, Awaits, Unheard
        <4> QED
          BY <1>1, <1>3, <1>4, <2>0, <3>2, <4>1, <4>2 DEF Expectations
      <3> QED
        BY <3>1, <3>2
    <2> QED
      BY <1>1, <1>2, <2>1, <2>2 DEF Expectations
  <1> QED
    BY <1>1, <1>5, <1>6, <1>7 DEF ApiInv
-----------------------------------------------------------------------------
(* The steps of ApiClient that are steps of the page.                      *)

\* Page(b) puts b for the page, whatever b is.
LEMMA MovedPage == ASSUME NEW b, Page(b), Moves(api, b) PROVE PageMove
  BY DEF PageMove

\* A function that goes on: with its own fetch, if the health request found the service
\* to support what it needs.
LEMMA ContinuedMoves ==
    ASSUME NEW q \in RequestType, Awaits(q),
           NEW h \in [at : {"none", "sent", "answered", "failed"}, supports : BOOLEAN],
           h.at \in {"answered", "failed"}
    PROVE  /\ Continued(q, h) \in RequestType /\ Continued(q, h).kind = q.kind
           /\ RequestMove(q, Continued(q, h), h)
  <1>1. CASE h.at = "failed" \/ q.aborted \/ Unsupported(q, h)
    <2>1. \E o \in {"unreachable", "aborted", "unsupported"} : Continued(q, h) = Finished(q, o)
      BY <1>1 DEF Continued
    <2> QED
      BY <2>1 DEF Finished, RequestType, RequestMove
  <1>2. CASE h.at # "failed" /\ ~q.aborted /\ ~Unsupported(q, h)
    <2>1. Continued(q, h) = [q EXCEPT !.at = IF @ = "health" THEN "fetch" ELSE "refetch", !.answer = "none"]
      BY <1>2 DEF Continued
    <2>2. q.kind \in Protected => h.at = "answered" /\ h.supports
      BY <1>2 DEF Unsupported
    <2> QED
      BY <2>1, <2>2 DEF RequestType, RequestMove
  <1> QED
    BY <1>1, <1>2

\* The functions that awaited the health request go on.
LEMMA HealthResolvesMoves ==
    ASSUME ApiInv, HealthResolves
    PROVE  PageMove
  <1> DEFINE next(r) == IF Awaits(api.req[r]) THEN Continued(api.req[r], api.health) ELSE api.req[r]
             f == [r \in Requests(api) |-> next(r)]
             loads == \/ api.loaded
                      \/ /\ api.health.at = "answered"
                         /\ \E r \in Requests(api) : Loads(api.req[r], next(r))
             b == [api EXCEPT !.health = NoHealth, !.loaded = loads, !.req = f]
  <1>1. api \in PageType /\ api.health.at \in {"answered", "failed"}
        /\ api.health \in [at : {"none", "sent", "answered", "failed"}, supports : BOOLEAN]
    BY DEF HealthResolves, ApiInv, ApiTypeOK, PageType
  <1>2. Page(b)
    BY DEF HealthResolves
  <1>3. \A r \in Requests(api) :
           /\ next(r) \in RequestType /\ next(r).kind = api.req[r].kind
           /\ RequestMove(api.req[r], next(r), api.health)
    <2> SUFFICES ASSUME NEW r \in Requests(api)
                 PROVE  /\ next(r) \in RequestType /\ next(r).kind = api.req[r].kind
                        /\ RequestMove(api.req[r], next(r), api.health)
      OBVIOUS
    <2>1. api.req[r] \in RequestType
      BY <1>1, RequestsOfPage
    <2>2. CASE Awaits(api.req[r])
      BY <1>1, <2>1, <2>2, ContinuedMoves
    <2>3. CASE ~Awaits(api.req[r])
      BY <2>1, <2>3 DEF RequestMove
    <2> QED
      BY <2>2, <2>3
  <1>4. f \in [Requests(api) -> RequestType] /\ loads \in BOOLEAN
        /\ \A r \in Requests(api) : f[r] = next(r)
    BY <1>1, <1>3 DEF PageType
  <1> HIDE DEF next, loads, f
  <1>5. f \in Seq(RequestType) /\ Len(f) = Len(api.req) /\ Requests(api) = 1..Len(api.req)
    BY <1>1, <1>4, RequestsOfPage, FunctionIsSeq
  <1>6. b \in PageType /\ b.req = f /\ b.jar = api.jar /\ b.health.at = "none"
    BY <1>1, <1>4, <1>5 DEF PageType, NoHealth
  <1>7. Requests(b) = Requests(api)
    BY <1>5, <1>6, RequestsOfPage
  <1>8. Moves(api, b)
    BY <1>3, <1>4, <1>5, <1>6, <1>7 DEF Moves
  <1> HIDE DEF b
  <1> QED
    BY <1>2, <1>8, MovedPage

\* A fetch ends, or its request is sent again.
LEMMA FetchReturnsMoves ==
    ASSUME ApiInv, NEW r \in Requests(api), FetchReturns(r)
    PROVE  PageMove
  <1>1. api \in PageType /\ api.req[r] \in RequestType
    BY RequestsOfPage DEF ApiInv, ApiTypeOK
  <1>2. CASE Replays(api.req[r])
    <2> DEFINE q == [api.req[r] EXCEPT !.at = "renew"]
               a == [api EXCEPT !.req[r] = q]
               b == AsksHealth(a)
    <2>1. q \in RequestType /\ q.kind = api.req[r].kind /\ RequestMove(api.req[r], q, api.health)
      BY <1>1, <1>2 DEF RequestType, RequestMove, Replays, Unheard
    <2>2. Page(b)
      BY <1>2 DEF FetchReturns
    <2> HIDE DEF q
    <2>3. /\ a \in PageType /\ Requests(a) = Requests(api) /\ Len(a.req) = Len(api.req)
          /\ a.jar = api.jar /\ a.health = api.health
          /\ \A s \in Requests(api) : a.req[s] = IF s = r THEN q ELSE api.req[s]
      BY <1>1, <2>1, RequestReplaced
    <2> HIDE DEF a
    <2>4. /\ b \in PageType /\ b.req = a.req /\ b.jar = api.jar
          /\ b.health.at = "answered" => b.health = api.health
      BY <2>3, AsksHealthKeeps
    <2> HIDE DEF b
    <2>5. Requests(b) = Requests(api)
      BY <2>3, <2>4 DEF Requests
    <2>6. \A s \in Requests(api) :
             b.req[s].kind = api.req[s].kind /\ RequestMove(api.req[s], b.req[s], api.health)
      BY <2>1, <2>3, <2>4 DEF RequestMove
    <2>7. Moves(api, b)
      BY <2>3, <2>4, <2>5, <2>6 DEF Moves
    <2> QED
      BY <2>2, <2>7, MovedPage
  <1>3. CASE ~Replays(api.req[r])
    <2> DEFINE q == Finished(api.req[r], Returned[api.req[r].answer])
               b == [api EXCEPT !.req[r] = q]
    <2>1. api.req[r].answer \in {"ok", "lost", "rejected"}
      BY <1>1 DEF FetchReturns, RequestType
    <2>2. Returned[api.req[r].answer] \in {"forbidden", "unreachable", "ok"}
      BY <2>1 DEF Returned
    <2>3. q \in RequestType /\ q.kind = api.req[r].kind /\ q.at = "done"
      BY <1>1, <2>2 DEF Finished, RequestType
    <2>4. Page(b)
      BY <1>3 DEF FetchReturns
    <2> HIDE DEF q
    <2>5. /\ b \in PageType /\ Requests(b) = Requests(api) /\ Len(b.req) = Len(api.req)
          /\ b.jar = api.jar /\ b.health = api.health
          /\ \A s \in Requests(api) : b.req[s] = IF s = r THEN q ELSE api.req[s]
      BY <1>1, <2>3, RequestReplaced
    <2> HIDE DEF b
    <2>6. \A s \in Requests(api) :
             b.req[s].kind = api.req[s].kind /\ RequestMove(api.req[s], b.req[s], api.health)
      BY <2>3, <2>5 DEF RequestMove
    <2>7. Moves(api, b)
      BY <2>5, <2>6 DEF Moves
    <2> QED
      BY <2>4, <2>7, MovedPage
  <1> QED
    BY <1>2, <1>3
-----------------------------------------------------------------------------
(* The steps of the service, the connection and another page.              *)

\* The guard lets a page's request through with the token of the process only.
LEMMA GuardChecksToken ==
    ASSUME NEW t, FromPage(t) = "none"
    PROVE  t = Token
  <1>1. Authorities("own", <<"own">>) = [origin |-> TRUE, refused |-> "none"]
    BY DEF Authorities
  <1>2. FromPage(t) = IF (IF t = NoToken THEN <<>> ELSE <<t>>) # <<Token>> THEN "missing_api_token" ELSE "none"
    BY <1>1 DEF FromPage, Guard
  <1>3. (IF t = NoToken THEN <<>> ELSE <<t>>) = <<Token>>
    BY <1>2
  <1>4. <<>> # <<Token>>
    OBVIOUS
  <1> QED
    BY <1>3, <1>4

\* What an answer does to the page.
LEMMA AnsweredPage ==
    ASSUME NEW r \in Requests(api), api \in PageType, NEW x \in {"ok", "lost", "rejected"},
           Answered(r, x)
    PROVE  /\ api' \in PageType /\ Len(api'.req) = Len(api.req) /\ Requests(api)' = Requests(api)
           /\ api'.jar = api.jar /\ api'.health = api.health
           /\ \A s \in Requests(api) :
                 /\ api'.req[s].kind = api.req[s].kind /\ api'.req[s].at = api.req[s].at
                 /\ api'.req[s].answer = IF s = r /\ ~Done(api.req[r]) THEN x ELSE api.req[s].answer
  <1>0. api \in PageType /\ r \in Requests(api) /\ api.req[r] \in RequestType
    BY RequestsOfPage
  <1>1. CASE Done(api.req[r])
    BY <1>1 DEF Answered, Requests
  <1>2. CASE ~Done(api.req[r])
    <2> DEFINE q == [api.req[r] EXCEPT !.answer = x]
               b == [api EXCEPT !.req[r] = q]
    <2>1. api' = b
      BY <1>2 DEF Answered
    <2>2. q \in RequestType /\ q.kind = api.req[r].kind /\ q.at = api.req[r].at /\ q.answer = x
      BY <1>0 DEF RequestType
    <2> HIDE DEF q
    <2>3. /\ b \in PageType /\ Requests(b) = Requests(api) /\ Len(b.req) = Len(api.req)
          /\ b.jar = api.jar /\ b.health = api.health
          /\ \A s \in Requests(api) : b.req[s] = IF s = r THEN q ELSE api.req[s]
      BY <1>0, <2>2, RequestReplaced
    <2> HIDE DEF b
    <2> QED
      BY <1>2, <2>1, <2>2, <2>3 DEF Requests
  <1> QED
    BY <1>1, <1>2

\* A history of one handling.
LEMMA OneHandling ==
    ASSUME NEW e \in BOOLEAN
    PROVE  /\ Append(<<>>, e) = <<e>> /\ <<e>> \in Seq(BOOLEAN)
           /\ Len(<<e>>) = 1 /\ Len(<<>>) = 0
           /\ DOMAIN <<e>> = {1} /\ <<e>>[1] = e
  <1>1. Append(<<>>, e) = <<e>> /\ Len(<<e>>) = 1 /\ Len(<<>>) = 0 /\ <<e>>[1] = e
    OBVIOUS
  <1>2. <<>> \in Seq(BOOLEAN)
    BY EmptySeq
  <1>3. <<e>> \in Seq(BOOLEAN)
    BY <1>1, <1>2, AppendProperties
  <1>4. DOMAIN <<e>> = 1..1
    BY <1>1, <1>3, LenProperties
  <1> QED
    BY <1>1, <1>3, <1>4

\* A copy reaches the service, which accepts or refuses it.
LEMMA HandleKeeps ==
    ASSUME ApiInv, NEW r \in Requests(api), Handle(r)
    PROVE  ApiInv'
  <1>0. ApiTypeOK /\ Copies /\ Tokens /\ api \in PageType
    BY DEF ApiInv, ApiTypeOK
  <1> PICK token \in wire[r] :
         /\ wire' = [wire EXCEPT ![r] = {}]
         /\ IF FromPage(token) = "none"
            THEN /\ handled' = [handled EXCEPT ![r] = Append(@, service.supports)]
                 /\ Answered(r, "ok") \/ Answered(r, "lost")
            ELSE Answered(r, "rejected") /\ UNCHANGED handled
         /\ UNCHANGED <<service, configured, elsewhere>>
    BY DEF Handle
  <1>1. PICK x \in {"ok", "lost", "rejected"} :
           Answered(r, x) /\ (x = "rejected" <=> FromPage(token) # "none")
    OBVIOUS
  <1>2. /\ api' \in PageType /\ Len(api'.req) = Len(api.req) /\ Requests(api)' = Requests(api)
        /\ api'.jar = api.jar /\ api'.health = api.health
        /\ \A s \in Requests(api) :
              /\ api'.req[s].kind = api.req[s].kind /\ api'.req[s].at = api.req[s].at
              /\ api'.req[s].answer = IF s = r /\ ~Done(api.req[r]) THEN x ELSE api.req[s].answer
    BY <1>0, <1>1, AnsweredPage
  <1>3. handled[r] = <<>> /\ ~Unheard(api.req[r])
    BY <1>0 DEF Copies
  <1>4. /\ handled \in Seq(Seq(BOOLEAN)) /\ r \in 1..Len(handled) /\ Requests(api) = 1..Len(handled)
        /\ service.supports \in BOOLEAN
        /\ wire \in [Requests(api) -> SUBSET Nat]
    BY <1>0, RequestsOfPage DEF ApiTypeOK
  <1>5. /\ Append(<<>>, service.supports) = <<service.supports>>
        /\ <<service.supports>> \in Seq(BOOLEAN)
        /\ Len(<<service.supports>>) = 1 /\ Len(<<>>) = 0
        /\ DOMAIN <<service.supports>> = {1} /\ <<service.supports>>[1] = service.supports
    BY <1>4, OneHandling
  <1>6. /\ handled' \in Seq(Seq(BOOLEAN)) /\ Len(handled') = Len(handled)
        /\ \A s \in Requests(api) : s # r => handled'[s] = handled[s]
        /\ handled'[r] = IF FromPage(token) = "none" THEN <<service.supports>> ELSE <<>>
    <2>1. CASE FromPage(token) = "none"
      <3>1. handled' = [handled EXCEPT ![r] = <<service.supports>>]
        BY <1>3, <1>5, <2>1
      <3> DEFINE S == Seq(BOOLEAN)
                 e == <<service.supports>>
      <3>2. handled \in Seq(S) /\ r \in 1..Len(handled) /\ e \in S /\ handled' = [handled EXCEPT ![r] = e]
        BY <1>4, <1>5, <3>1
      <3> HIDE DEF S, e
      <3>3. /\ handled' \in Seq(S) /\ Len(handled') = Len(handled)
            /\ \A s \in 1..Len(handled) : handled'[s] = IF s = r THEN e ELSE handled[s]
        BY <3>2, ExceptSeq
      <3> QED
        BY <1>4, <2>1, <3>3 DEF S, e
    <2>2. CASE FromPage(token) # "none"
      BY <1>3, <1>4, <2>2
    <2> QED
      BY <2>1, <2>2
  <1>7. \A s \in Requests(api) : wire'[s] = IF s = r THEN {} ELSE wire[s]
    BY <1>4
  <1>8. ApiTypeOK'
    BY <1>0, <1>2, <1>4, <1>6 DEF ApiTypeOK
  <1>9. Copies'
    <2> SUFFICES ASSUME NEW s \in Requests(api)
                 PROVE  /\ Unheard(api'.req[s]) => wire'[s] = {} /\ handled'[s] = <<>>
                        /\ wire'[s] # {} => handled'[s] = <<>>
                        /\ Len(handled'[s]) <= 1
      BY <1>2 DEF Copies
    <2>1. CASE s # r
      BY <1>0, <1>2, <1>6, <1>7, <2>1 DEF Copies, Unheard, Awaits
    <2>2. CASE s = r
      <3>1. Unheard(api'.req[r]) => x = "rejected"
        BY <1>2, <1>3 DEF Unheard, Awaits, Done
      <3>2. wire'[s] = {}
        BY <1>7, <2>2
      <3>3. CASE FromPage(token) = "none"
        <4>1. ~Unheard(api'.req[s])
          BY <1>1, <2>2, <3>1, <3>3
        <4>2. Len(handled'[s]) = 1
          BY <1>5, <1>6, <2>2, <3>3
        <4> QED
          BY <3>2, <4>1, <4>2
      <3>4. CASE FromPage(token) # "none"
        <4>1. handled'[s] = <<>> /\ Len(<<>>) = 0
          BY <1>5, <1>6, <2>2, <3>4
        <4> QED
          BY <3>2, <4>1
      <3> QED
        BY <3>3, <3>4
    <2> QED
      BY <2>1, <2>2
  <1>10. Tokens'
    BY <1>0, <1>2, <1>7 DEF Tokens
  <1>11. ASSUME ~configured, ~elsewhere PROVE Expectations'
    <2>1. Expectations
      BY <1>11 DEF ApiInv
    <2>2. ASSUME FromPage(token) = "none", api.req[r].kind \in Protected PROVE service.supports
      <3>1. token = service.gen
        BY <1>11, <2>2, GuardChecksToken DEF Token
      <3> QED
        BY <2>1, <2>2, <3>1 DEF Expectations
    <2>3. ASSUME NEW s \in Requests(api), api'.req[s].kind \in Protected
          PROVE  /\ service.gen \in wire'[s] => service.supports
                 /\ \A i \in DOMAIN handled'[s] : handled'[s][i]
      <3>1. api.req[s].kind \in Protected
        BY <1>2, <2>3
      <3>2. CASE s # r
        BY <1>6, <1>7, <2>1, <3>1, <3>2 DEF Expectations
      <3>3. CASE s = r /\ FromPage(token) = "none"
        BY <1>5, <1>6, <1>7, <2>2, <3>1, <3>3
      <3>4. CASE s = r /\ FromPage(token) # "none"
        <4>1. DOMAIN <<>> = {}
          OBVIOUS
        <4> QED
          BY <1>6, <1>7, <3>4, <4>1
      <3> QED
        BY <3>2, <3>3, <3>4
    <2> QED
      BY <1>2, <2>1, <2>3 DEF Expectations
  <1> QED
    BY <1>8, <1>9, <1>10, <1>11 DEF ApiInv

\* A copy is lost.
LEMMA LoseRequestKeeps ==
    ASSUME ApiInv, NEW r \in Requests(api), LoseRequest(r)
    PROVE  ApiInv'
  <1>0. ApiTypeOK /\ Copies /\ Tokens /\ api \in PageType
    BY DEF ApiInv, ApiTypeOK
  <1>1. /\ Answered(r, "lost") /\ wire' = [wire EXCEPT ![r] = {}] /\ wire[r] # {}
        /\ UNCHANGED <<service, configured, handled, elsewhere>>
    BY DEF LoseRequest
  <1>2. /\ api' \in PageType /\ Len(api'.req) = Len(api.req) /\ Requests(api)' = Requests(api)
        /\ api'.jar = api.jar /\ api'.health = api.health
        /\ \A s \in Requests(api) :
              /\ api'.req[s].kind = api.req[s].kind /\ api'.req[s].at = api.req[s].at
              /\ api'.req[s].answer = IF s = r /\ ~Done(api.req[r]) THEN "lost" ELSE api.req[s].answer
    BY <1>0, <1>1, AnsweredPage
  <1>3. \A s \in Requests(api) : wire'[s] = IF s = r THEN {} ELSE wire[s]
    BY <1>0, <1>1 DEF ApiTypeOK
  <1>4. ApiTypeOK'
    BY <1>0, <1>1, <1>2 DEF ApiTypeOK
  <1>5. Copies'
    <2>0. ~Unheard(api.req[r])
      BY <1>0, <1>1 DEF Copies
    <2> SUFFICES ASSUME NEW s \in Requests(api)
                 PROVE  /\ Unheard(api'.req[s]) => wire'[s] = {} /\ handled[s] = <<>>
                        /\ wire'[s] # {} => handled[s] = <<>>
                        /\ Len(handled[s]) <= 1
      BY <1>1, <1>2 DEF Copies
    <2>1. CASE s # r
      BY <1>0, <1>2, <1>3, <2>1 DEF Copies, Unheard, Awaits
    <2>2. CASE s = r
      <3>1. ~Unheard(api'.req[r])
        BY <1>2, <2>0 DEF Unheard, Awaits, Done
      <3> QED
        BY <1>0, <1>3, <2>2, <3>1 DEF Copies
    <2> QED
      BY <2>1, <2>2
  <1>6. Tokens'
    BY <1>0, <1>1, <1>2, <1>3 DEF Tokens
  <1>7. ~configured /\ ~elsewhere => Expectations'
    BY <1>1, <1>2, <1>3 DEF ApiInv, Expectations
  <1> QED
    BY <1>1, <1>4, <1>5, <1>6, <1>7 DEF ApiInv

\* The answer of the health request brings the token and the flag of one process.
LEMMA HealthKeeps ==
    ASSUME ApiInv, AnswerHealth \/ LoseHealth
    PROVE  ApiInv'
  <1>0. ApiTypeOK /\ Copies /\ Tokens /\ api \in PageType
    BY DEF ApiInv, ApiTypeOK
  <1>1. /\ UNCHANGED <<service, configured, wire, handled, elsewhere>>
        /\ api' \in PageType /\ api'.req = api.req
        /\ api'.jar \in {api.jar, Token}
        /\ api'.health.at = "answered" /\ api'.health.supports =>
              api'.jar = Token /\ service.supports
    <2>1. service.supports \in BOOLEAN /\ service.gen \in Nat /\ Token \in Nat
      BY <1>0 DEF ApiTypeOK, Token
    <2>2. CASE AnswerHealth
      <3> PICK at \in {"answered", "failed"} :
             api' = [api EXCEPT !.jar = Token,
                       !.health = [at |-> at, supports |-> at = "answered" /\ service.supports]]
        BY <2>2 DEF AnswerHealth
      <3> DEFINE flag == at = "answered" /\ service.supports
      <3>1. flag \in BOOLEAN /\ (flag => service.supports)
        OBVIOUS
      <3>2. api' = [api EXCEPT !.jar = Token, !.health = [at |-> at, supports |-> flag]]
        OBVIOUS
      <3> HIDE DEF flag
      <3>3. api' \in PageType /\ api'.req = api.req /\ api'.jar = Token /\ api'.health.supports = flag
        <4> DEFINE health == [at |-> at, supports |-> flag]
        <4>1. health \in [at : {"none", "sent", "answered", "failed"}, supports : BOOLEAN]
              /\ health.supports = flag
          BY <3>1
        <4>2. api' = [api EXCEPT !.jar = Token, !.health = health]
          BY <3>2
        <4> HIDE DEF health
        <4> QED
          BY <1>0, <2>1, <4>1, <4>2 DEF PageType
      <3> QED
        BY <2>2, <3>1, <3>3 DEF AnswerHealth
    <2>3. CASE LoseHealth
      BY <1>0, <2>3 DEF LoseHealth, PageType
    <2> QED
      BY <2>2, <2>3
  <1>2. Token \in Nat /\ Token <= service.gen
    BY <1>0 DEF Token, ApiTypeOK
  <1>3. Requests(api)' = Requests(api)
    BY <1>1 DEF Requests
  <1>4. ApiTypeOK'
    BY <1>0, <1>1, <1>3 DEF ApiTypeOK
  <1>5. Copies' /\ Tokens'
    BY <1>0, <1>1, <1>2, <1>3 DEF Copies, Tokens
  <1>6. ~configured /\ ~elsewhere => Expectations'
    BY <1>1, <1>3 DEF ApiInv, Expectations
  <1> QED
    BY <1>1, <1>4, <1>5, <1>6 DEF ApiInv

\* No page has the token of a process that has just started.
LEMMA RestartKeeps ==
    ASSUME ApiInv, Restart \/ OtherPage
    PROVE  ApiInv'
  <1>0. ApiTypeOK /\ Copies /\ Tokens /\ api \in PageType
    BY DEF ApiInv, ApiTypeOK
  <1>1. CASE Restart
    <2>1. /\ UNCHANGED <<api, configured, wire, handled, elsewhere>>
          /\ service' \in [gen : {service.gen + 1}, supports : BOOLEAN]
      BY <1>1 DEF Restart
    <2>2. service'.gen = service.gen + 1 /\ service.gen \in Nat \ {0} /\ api.jar \in Nat
          /\ \A r \in Requests(api) : wire[r] \in SUBSET Nat
      BY <1>0, <2>1 DEF ApiTypeOK, PageType
    <2>3. Requests(api)' = Requests(api)
      BY <2>1 DEF Requests
    <2>4. service' \in [gen : Nat \ {0}, supports : BOOLEAN]
      BY <2>1, <2>2
    <2>5. ApiTypeOK'
      BY <1>0, <2>1, <2>3, <2>4 DEF ApiTypeOK
    <2>6. Copies'
      BY <1>0, <2>1, <2>3 DEF Copies
    <2>7. api.jar # service'.gen /\ \A r \in Requests(api) : service'.gen \notin wire[r]
      BY <1>0, <2>2 DEF Tokens
    <2>8. \A r \in Requests(api) : \A t \in wire[r] : t <= service'.gen
      BY <1>0, <2>2 DEF Tokens
    <2>9. Tokens'
      BY <1>0, <2>1, <2>2, <2>3, <2>8 DEF Tokens
    <2>10. ~configured /\ ~elsewhere => Expectations'
      BY <2>1, <2>3, <2>7 DEF ApiInv, Expectations
    <2> QED
      BY <2>1, <2>5, <2>6, <2>9, <2>10 DEF ApiInv
  <1>2. CASE OtherPage
    <2>1. /\ UNCHANGED <<service, configured, wire, handled>> /\ elsewhere' = TRUE
          /\ api' = [api EXCEPT !.jar = Token]
      BY <1>2 DEF OtherPage
    <2>2. Token \in Nat /\ Token <= service.gen
      BY <1>0 DEF Token, ApiTypeOK
    <2>3. api' \in PageType /\ api'.req = api.req /\ api'.jar = Token
      BY <1>0, <2>1, <2>2 DEF PageType
    <2>4. Requests(api)' = Requests(api)
      BY <2>3 DEF Requests
    <2> QED
      BY <1>0, <2>1, <2>2, <2>3, <2>4 DEF ApiInv, ApiTypeOK, Copies, Tokens
  <1> QED
    BY <1>1, <1>2

-----------------------------------------------------------------------------
\* Every step of a page whose own steps are moves keeps the invariant.
LEMMA ApiKeeps ==
    ASSUME ApiInv, ApiNext \/ PageMove \/ UNCHANGED apiVars
    PROVE  ApiInv'
  <1>1. CASE UNCHANGED apiVars
    BY <1>1 DEF apiVars, ApiInv, ApiTypeOK, Copies, Tokens, Expectations, Requests
  <1>2. CASE ApiNext
    BY <1>2, PageKeeps, HealthResolvesMoves, FetchReturnsMoves, HandleKeeps, LoseRequestKeeps,
       HealthKeeps, RestartKeeps DEF ApiNext
  <1> QED
    BY <1>1, <1>2, PageKeeps

\* A page begins with no requests.
LEMMA ApiInvInit == ApiInit => ApiInv
  <1> SUFFICES ASSUME ApiInit PROVE ApiInv
    OBVIOUS
  <1>1. /\ api = [loaded |-> FALSE, health |-> NoHealth, jar |-> NoToken, req |-> <<>>]
        /\ wire = <<>> /\ handled = <<>>
    BY DEF ApiInit
  <1>2. <<>> \in Seq(RequestType) /\ <<>> \in Seq(Seq(BOOLEAN))
    BY EmptySeq
  <1>3. api.req = <<>> /\ api.jar = 0 /\ api.health.at = "none"
    BY <1>1 DEF NoHealth, NoToken
  <1>4. Len(<<>>) = 0 /\ DOMAIN <<>> = {} /\ <<>> = [i \in {} |-> {}]
    OBVIOUS
  <1>5. Requests(api) = {}
    BY <1>3, <1>4 DEF Requests
  <1>6. api \in PageType
    BY <1>1, <1>2 DEF PageType, NoHealth, NoToken
  <1>7. wire \in [Requests(api) -> SUBSET Nat]
    <2>1. [i \in {} |-> {}] \in [{} -> SUBSET Nat]
      OBVIOUS
    <2> QED
      BY <1>1, <1>4, <1>5, <2>1
  <1>8. service.gen = 1 /\ service \in [gen : Nat \ {0}, supports : BOOLEAN]
        /\ configured \in BOOLEAN /\ elsewhere \in BOOLEAN
    <2>1. service \in [gen : {1}, supports : BOOLEAN] /\ configured \in BOOLEAN
      BY DEF ApiInit
    <2>2. elsewhere \in BOOLEAN
      BY Zenon DEF ApiInit
    <2> QED
      BY <2>1, <2>2
  <1>9. handled \in Seq(Seq(BOOLEAN)) /\ Len(handled) = Len(api.req)
    BY <1>1, <1>2, <1>3
  <1>10. ApiTypeOK
    BY <1>6, <1>7, <1>8, <1>9 DEF ApiTypeOK
  <1>11. Copies /\ Tokens /\ Expectations
    BY <1>3, <1>5, <1>8 DEF Copies, Tokens, Expectations
  <1> QED
    BY <1>10, <1>11 DEF ApiInv

\* What the invariant says of the histories.
LEMMA ApiInvMeans == ApiInv => HandledOnce /\ ExpectationEnforced
  BY DEF ApiInv, Copies, Expectations, HandledOnce, ExpectationEnforced

-----------------------------------------------------------------------------

RunType ==
    [cancelled : BOOLEAN, operation : BOOLEAN, kind : BatchKinds, item : 1..Files,
     request : Nat, ended : BOOLEAN]

Statuses == {"queued", "processing", "complete", "failed", "cancelled"}

ItemsOf(n) ==
    [run : 1..n, status : [1..Files -> Statuses], result : [1..Files -> Nat]]

BatchTypeOK ==
    /\ runs \in Seq(RunType)
    /\ batch \in [items : {NoItems} \cup ItemsOf(Len(runs)), active : 0..Len(runs),
                  busy : BOOLEAN, mounted : BOOLEAN]

\* The runs and the other views know their requests.
RequestsKnown ==
    /\ \A k \in DOMAIN runs : runs[k].request \in Requests(api)
    /\ others \subseteq Requests(api)

\* The items shown are those of the run that goes on, which is at its item.
UnderWay ==
    \A k \in DOMAIN runs :
        ~runs[k].ended /\ ~runs[k].cancelled /\ batch.mounted =>
            /\ batch.items.run = k
            /\ batch.items.status[runs[k].item] = "processing"
            /\ \A i \in 1..Files : i > runs[k].item => batch.items.status[i] = "queued"

BatchInv == BatchTypeOK /\ BatchAlone /\ UnderWay

ViewInv == ApiInv /\ BatchInv /\ RequestsKnown

\* The step LateResultDropped allows.
KeepsSettled ==
    batch'.items.run # 0 /\ batch'.items.run = batch.items.run =>
        \A i \in 1..Files :
            batch.items.status[i] \in {"complete", "failed", "cancelled"} =>
                /\ batch'.items.status[i] = batch.items.status[i]
                /\ batch'.items.result[i] = batch.items.result[i]

-----------------------------------------------------------------------------
(* The page.                                                               *)

\* Cleaning up the effect of a choice aborts requests only.
LEMMA CleanedUpAborts ==
    ASSUME NEW a \in PageType
    PROVE  AbortsOnly(a, CleanedUpPage(a))
  <1> DEFINE f == [r \in Requests(a) |-> IF \E e \in Running : effects[e].request = r
                                         THEN Aborted(a, r).req[r] ELSE a.req[r]]
  <1>1. ASSUME NEW r \in Requests(a)
        PROVE  /\ a.req[r] \in RequestType /\ f[r] \in RequestType
               /\ f[r].kind = a.req[r].kind /\ f[r].answer = a.req[r].answer
               /\ f[r].at \in {a.req[r].at, "done"}
    <2>1. AbortsOnly(a, Aborted(a, r)) /\ a.req[r] \in RequestType
      BY AbortedAborts, RequestsOfPage
    <2> DEFINE b == Aborted(a, r)
    <2>2. AbortsOnly(a, b)
      BY <2>1
    <2> HIDE DEF b
    <2>3. b \in PageType /\ Requests(b) = Requests(a)
      BY <2>2, RequestsOfPage DEF AbortsOnly
    <2>4. /\ b.req[r] \in RequestType
          /\ b.req[r].kind = a.req[r].kind /\ b.req[r].answer = a.req[r].answer
          /\ b.req[r].at \in {a.req[r].at, "done"}
      BY <2>2, <2>3, RequestsOfPage DEF AbortsOnly
    <2>5. f[r] \in {b.req[r], a.req[r]}
      BY DEF b
    <2> QED
      BY <2>1, <2>4, <2>5
  <1> DEFINE c == CleanedUpPage(a)
  <1>2. c = [a EXCEPT !.req = f]
    BY DEF CleanedUpPage, Requests
  <1>3. f \in [Requests(a) -> RequestType]
    BY <1>1
  <1> HIDE DEF f, c
  <1>4. /\ c \in PageType /\ Len(c.req) = Len(a.req)
        /\ c.jar = a.jar /\ c.health = a.health
        /\ \A s \in Requests(a) : c.req[s] = f[s]
    BY ZenonT(40), <1>2, <1>3, RequestsReplaced
  <1>5. AbortsOnly(a, c)
    BY <1>1, <1>4 DEF AbortsOnly
  <1> QED
    BY <1>5 DEF c

\* A page that starts a request has it.
LEMMA StartedHas ==
    ASSUME NEW a \in PageType, NEW kind \in AllKinds
    PROVE  Len(a.req) + 1 \in Requests(Started(a, kind))
  <1> DEFINE new(at) == [kind |-> kind, at |-> at, aborted |-> FALSE, answer |-> "none",
                         outcome |-> "none"]
             with(at) == [a EXCEPT !.req = Append(@, new(at))]
  <1>1. a.req \in Seq(RequestType) /\ Len(a.req) \in Nat
    BY RequestsOfPage
  <1>2. ASSUME NEW at \in {"health", "fetch"}
        PROVE  with(at) \in PageType /\ Len(a.req) + 1 \in DOMAIN with(at).req
    <2>1. new(at) \in RequestType
      BY DEF RequestType
    <2> HIDE DEF new
    <2>2. Append(a.req, new(at)) \in Seq(RequestType) /\ Len(Append(a.req, new(at))) = Len(a.req) + 1
      BY <1>1, <2>1, AppendProperties
    <2>3. with(at) \in PageType /\ with(at).req = Append(a.req, new(at))
      BY <2>2 DEF PageType
    <2>4. DOMAIN Append(a.req, new(at)) = 1..Len(a.req) + 1
      BY <2>2, LenProperties
    <2> QED
      BY <1>1, <2>3, <2>4
  <1>3. Started(a, kind) = IF NeedsHealth(a, kind) THEN AsksHealth(with("health")) ELSE with("fetch")
    BY DEF Started
  <1>4. AsksHealth(with("health")).req = with("health").req
    BY <1>2, AsksHealthKeeps
  <1> QED
    BY <1>2, <1>3, <1>4 DEF Requests

\* Cancelling the batch that is active aborts its request only.
LEMMA AbortedBatchAborts ==
    ASSUME ViewInv
    PROVE  AbortsOnly(api, AbortedBatch(api))
  <1>1. api \in PageType
    BY DEF ViewInv, ApiInv, ApiTypeOK
  <1>2. CASE batch.active = 0
    BY <1>1, <1>2, AbortsNothing DEF AbortedBatch
  <1>3. CASE batch.active # 0
    <2>1. batch.active \in DOMAIN runs
      BY <1>3, LenProperties DEF ViewInv, BatchInv, BatchTypeOK
    <2>2. runs[batch.active].request \in Requests(api)
      BY <2>1 DEF ViewInv, RequestsKnown
    <2> QED
      BY <1>1, <1>3, <2>2, AbortedAborts DEF AbortedBatch
  <1> QED
    BY <1>2, <1>3

\* Every step of the view is one of the page, the service or the connection.
LEMMA ViewStepsApi ==
    ASSUME ViewInv, ViewNext
    PROVE  ApiNext \/ PageMove \/ UNCHANGED apiVars
  <1>0. /\ api \in PageType /\ AbortsOnly(api, api) /\ BatchKinds \subseteq AllKinds
        /\ Kinds \subseteq AllKinds /\ "plain" \in AllKinds
    BY AbortsNothing, BatchAssumption, ApiAssumption DEF ViewInv, ApiInv, ApiTypeOK, AllKinds
  <1>1. ASSUME NEW b, Page(b), Moves(api, b) PROVE PageMove
    BY <1>1 DEF PageMove
  <1>2. ASSUME NEW b, Page(b), AbortsOnly(api, b) PROVE PageMove
    BY <1>0, <1>1, <1>2, AbortsMoves
  <1>3. ASSUME NEW b, NEW kind \in AllKinds, AbortsOnly(api, b), Page(Started(b, kind)) PROVE PageMove
    BY <1>0, <1>1, <1>3, StartedMoves
  <1>4. CASE ChoosesKey
    BY <1>4 DEF ChoosesKey, Choose
  <1>5. CASE Inspects
    <2>1. AbortsOnly(api, CleanedUpPage(api))
      BY <1>0, CleanedUpAborts
    <2>2. CASE Effect
      <3>1. Page(Started(CleanedUpPage(api), "plain")) \/ Page(CleanedUpPage(api))
        BY <2>2 DEF Effect
      <3> QED
        BY <1>0, <1>2, <1>3, <2>1, <3>1
    <2>3. ASSUME NEW e, Settle(e) PROVE UNCHANGED apiVars
      BY <2>3 DEF Settle
    <2> QED
      BY <1>5, <2>2, <2>3 DEF Inspects
  <1>6. CASE submit
    <2>1. PICK kind \in BatchKinds : start(kind)
      BY <1>6 DEF submit
    <2> QED
      BY <1>0, <1>3, <2>1 DEF start
  <1>7. CASE Encrypts
    <2>1. CASE cancel
      BY <1>2, <2>1, AbortedBatchAborts DEF cancel
    <2>2. ASSUME NEW k \in DOMAIN runs, processBatch(k) PROVE PageMove \/ UNCHANGED apiVars
      <3>1. CASE Breaks(k)
        BY <3>1 DEF Breaks
      <3>2. CASE GoesOn(k)
        <4>1. UNCHANGED apiVars \/ Page(Started(api, runs[k].kind))
          BY <3>2 DEF GoesOn
        <4>2. runs[k] \in RunType
          BY <2>2, ElementOfSeq, LenProperties DEF ViewInv, BatchInv, BatchTypeOK
        <4>3. runs[k].kind \in AllKinds
          BY <1>0, <4>2 DEF RunType
        <4> QED
          BY <1>0, <1>3, <4>1, <4>3
      <3> QED
        BY <2>2, <3>1, <3>2 DEF processBatch
    <2> QED
      BY <1>7, <2>1, <2>2 DEF Encrypts
  <1>8. CASE clearBatch
    BY <1>8 DEF clearBatch, clear
  <1>9. CASE Leave
    <2> DEFINE a == AbortedBatch(api)
               b == CleanedUpPage(a)
    <2>1. AbortsOnly(api, a)
      BY AbortedBatchAborts
    <2>2. Page(b)
      BY <1>9 DEF Leave, unmount
    <2> HIDE DEF a
    <2>3. AbortsOnly(a, b)
      BY <2>1, CleanedUpAborts DEF AbortsOnly
    <2> HIDE DEF b
    <2>4. AbortsOnly(api, b)
      BY <1>0, <2>1, <2>3, AbortsCompose
    <2> QED
      BY <1>2, <2>2, <2>4
  <1>10. CASE Other
    <2>1. ASSUME NEW kind \in Kinds, Page(Started(api, kind)) PROVE PageMove
      BY <1>0, <1>3, <2>1
    <2>2. ASSUME NEW r \in others, Page(Aborted(api, r)) PROVE PageMove
      <3>1. r \in Requests(api)
        BY <2>2 DEF ViewInv, RequestsKnown
      <3> QED
        BY <1>0, <1>2, <2>2, <3>1, AbortedAborts
    <2> QED
      BY <1>10, <2>1, <2>2 DEF Other
  <1> QED
    BY <1>4, <1>5, <1>6, <1>7, <1>8, <1>9, <1>10 DEF ViewNext
-----------------------------------------------------------------------------
(* The batches.                                                            *)

\* What cancelling leaves of the runs.
LEMMA CancelledRunsKeep ==
    ASSUME BatchTypeOK
    PROVE  /\ CancelledRuns \in Seq(RunType) /\ Len(CancelledRuns) = Len(runs)
           /\ \A k \in DOMAIN runs :
                 CancelledRuns[k] = IF k = batch.active THEN CancelledRun(runs[k]) ELSE runs[k]
  <1>1. runs \in Seq(RunType) /\ Len(runs) \in Nat /\ DOMAIN runs = 1..Len(runs)
        /\ \A k \in DOMAIN runs : runs[k] \in RunType
    BY LenProperties, ElementOfSeq DEF BatchTypeOK
  <1>2. \A run \in RunType : CancelledRun(run) \in RunType
    BY DEF CancelledRun, RunType
  <1>3. CancelledRuns \in [1..Len(runs) -> RunType]
    BY <1>1, <1>2 DEF CancelledRuns
  <1> QED
    BY <1>1, <1>3, FunctionIsSeq DEF CancelledRuns

\* What it does to a run.
LEMMA CancelledRunIs ==
    ASSUME NEW run \in RunType
    PROVE  /\ CancelledRun(run) \in RunType
           /\ CancelledRun(run).cancelled /\ ~CancelledRun(run).operation
           /\ CancelledRun(run).ended = run.ended /\ CancelledRun(run).item = run.item
           /\ CancelledRun(run).request = run.request
  BY DEF CancelledRun, RunType

\* What the end of the loop does to a run.
LEMMA EndedRunIs ==
    ASSUME NEW run \in RunType
    PROVE  /\ Ended(run) \in RunType /\ Ended(run).ended /\ ~Ended(run).operation
           /\ Ended(run).request = run.request
  BY DEF Ended, RunType

\* What cancelling leaves of the hook: settled items as they are.
LEMMA CancelledHook ==
    ASSUME BatchTypeOK, NEW h, h = Cancelled(batch)
    PROVE  /\ h.active = batch.active /\ h.busy = batch.busy /\ h.mounted = batch.mounted
           /\ h \in [items : {NoItems} \cup ItemsOf(Len(runs)), active : 0..Len(runs),
                     busy : BOOLEAN, mounted : BOOLEAN]
           /\ h.items.run = batch.items.run
           /\ batch.items.run # 0 =>
                 \A i \in 1..Files :
                    /\ h.items.result[i] = batch.items.result[i]
                    /\ batch.items.status[i] \in {"complete", "failed", "cancelled"} =>
                          h.items.status[i] = batch.items.status[i]
  <1> DEFINE items == batch.items
             status == [i \in DOMAIN items.status |->
                           IF items.status[i] \in {"queued", "processing"} THEN "cancelled"
                           ELSE items.status[i]]
             c == cancelUnfinished(items)
  <1>1. items \in {NoItems} \cup ItemsOf(Len(runs)) /\ Len(runs) \in Nat
    BY LenProperties DEF BatchTypeOK
  <1>2. c = [items EXCEPT !.status = status]
    BY DEF cancelUnfinished
  <1>3. /\ c \in {NoItems} \cup ItemsOf(Len(runs)) /\ c.run = items.run
        /\ items.run # 0 =>
              \A i \in 1..Files :
                 /\ c.result[i] = items.result[i]
                 /\ items.status[i] \in {"complete", "failed", "cancelled"} => c.status[i] = items.status[i]
    <2>1. CASE items = NoItems
      <3>1. DOMAIN items.status = {} /\ items.run = 0 /\ items.status = <<>>
        BY <2>1 DEF NoItems
      <3>2. status = [i \in {} |-> {}]
        BY <3>1
      <3>3. <<>> = [i \in {} |-> {}]
        OBVIOUS
      <3>4. c = items
        BY <1>2, <2>1, <3>1, <3>2, <3>3 DEF NoItems
      <3> QED
        BY <1>1, <3>1, <3>4
    <2>2. CASE items \in ItemsOf(Len(runs))
      <3>1. status \in [1..Files -> Statuses]
            /\ \A i \in 1..Files : items.status[i] \in {"complete", "failed", "cancelled"}
                                      => status[i] = items.status[i]
        BY <2>2 DEF ItemsOf, Statuses
      <3> HIDE DEF status
      <3> QED
        BY <1>2, <2>2, <3>1 DEF ItemsOf
    <2> QED
      BY <1>1, <2>1, <2>2
  <1>4. h = [batch EXCEPT !.items = IF batch.mounted THEN c ELSE @]
    BY DEF Cancelled
  <1> HIDE DEF c
  <1> QED
    BY <1>1, <1>3, <1>4 DEF BatchTypeOK

\* What the invariant says of the sequence of runs.
LEMMA RunsAre ==
    ASSUME BatchTypeOK
    PROVE  /\ Len(runs) \in Nat /\ DOMAIN runs = 1..Len(runs)
           /\ \A k \in DOMAIN runs : runs[k] \in RunType
           /\ batch.active \in 0..Len(runs) /\ batch.busy \in BOOLEAN /\ batch.mounted \in BOOLEAN
           /\ batch.items = NoItems \/ batch.items \in ItemsOf(Len(runs))
           /\ NoItems.run = 0
  BY LenProperties, ElementOfSeq DEF BatchTypeOK, NoItems

\* A run gets another record.
LEMMA RunReplaced ==
    ASSUME BatchTypeOK, NEW k \in DOMAIN runs, NEW run \in RunType
    PROVE  /\ [runs EXCEPT ![k] = run] \in Seq(RunType)
           /\ Len([runs EXCEPT ![k] = run]) = Len(runs)
           /\ DOMAIN [runs EXCEPT ![k] = run] = DOMAIN runs
           /\ \A j \in DOMAIN runs : [runs EXCEPT ![k] = run][j] = IF j = k THEN run ELSE runs[j]
  BY RunsAre, ExceptSeq DEF BatchTypeOK

\* The operation under way is of the run that is active.
LEMMA CancelKeeps ==
    ASSUME BatchInv, runs' = CancelledRuns,
           NEW h, h = Cancelled(batch),
           batch' = h \/ batch' = [h EXCEPT !.mounted = FALSE]
    PROVE  BatchInv' /\ KeepsSettled
  <1>0. BatchTypeOK /\ BatchAlone
    BY DEF BatchInv
  <1>1. /\ Len(runs) \in Nat /\ DOMAIN runs = 1..Len(runs)
        /\ \A k \in DOMAIN runs : runs[k] \in RunType
    BY <1>0, RunsAre
  <1>2. /\ runs' \in Seq(RunType) /\ Len(runs') = Len(runs) /\ DOMAIN runs' = DOMAIN runs
        /\ \A k \in DOMAIN runs :
              runs'[k] = IF k = batch.active THEN CancelledRun(runs[k]) ELSE runs[k]
    BY <1>0, CancelledRunsKeep, LenProperties
  <1>3. /\ h.active = batch.active /\ h.busy = batch.busy /\ h.mounted = batch.mounted
        /\ h \in [items : {NoItems} \cup ItemsOf(Len(runs)), active : 0..Len(runs),
                  busy : BOOLEAN, mounted : BOOLEAN]
        /\ h.items.run = batch.items.run
        /\ batch.items.run # 0 =>
              \A i \in 1..Files :
                 /\ h.items.result[i] = batch.items.result[i]
                 /\ batch.items.status[i] \in {"complete", "failed", "cancelled"} =>
                       h.items.status[i] = batch.items.status[i]
    BY <1>0, CancelledHook
  <1>4. /\ batch'.items = h.items /\ batch'.active = batch.active
        /\ batch' \in [items : {NoItems} \cup ItemsOf(Len(runs)), active : 0..Len(runs),
                       busy : BOOLEAN, mounted : BOOLEAN]
    BY <1>3
  <1>5. BatchTypeOK'
    BY <1>2, <1>4 DEF BatchTypeOK
  <1>6. ASSUME NEW k \in DOMAIN runs
        PROVE  /\ runs'[k].ended = runs[k].ended
               /\ ~runs[k].ended => runs'[k].cancelled /\ k = batch.active
               /\ ~(runs'[k].operation)
    <2>1. runs[k] \in RunType
      BY <1>1
    <2>2. CASE k = batch.active
      BY <1>2, <2>1, <2>2, CancelledRunIs
    <2>3. CASE k # batch.active
      BY <1>0, <1>2, <2>3 DEF BatchAlone
    <2> QED
      BY <2>2, <2>3
  <1>7. BatchAlone'
    BY <1>2, <1>4, <1>6 DEF BatchAlone
  <1>8. UnderWay'
    BY <1>2, <1>6 DEF UnderWay
  <1>9. KeepsSettled
    BY <1>3, <1>4 DEF KeepsSettled
  <1> QED
    BY <1>5, <1>7, <1>8, <1>9 DEF BatchInv

\* A batch starts when no other one is under way.
LEMMA StartKeeps ==
    ASSUME BatchInv, NEW kind \in BatchKinds, start(kind), Len(api.req) \in Nat
    PROVE  /\ BatchInv' /\ KeepsSettled
           /\ Len(runs') = Len(runs) + 1
           /\ \A k \in DOMAIN runs : runs'[k] = runs[k]
           /\ runs'[Len(runs) + 1].request = Len(api.req) + 1
  <1>0. BatchTypeOK /\ BatchAlone /\ Files \in Nat \ {0} /\ 1 \in 1..Files
    BY BatchAssumption DEF BatchInv
  <1> DEFINE k == Len(runs) + 1
             run == [cancelled |-> FALSE, operation |-> TRUE, kind |-> kind,
                     item |-> 1, request |-> Len(api.req) + 1, ended |-> FALSE]
             status == [[i \in 1..Files |-> "queued"] EXCEPT ![1] = "processing"]
             result == [[i \in 1..Files |-> 0] EXCEPT ![1] = 0]
             items == [run |-> k, status |-> status, result |-> result]
  <1>1. /\ Len(runs) \in Nat /\ DOMAIN runs = 1..Len(runs) /\ runs \in Seq(RunType)
        /\ \A j \in DOMAIN runs : runs[j] \in RunType
        /\ batch.items = NoItems \/ batch.items \in ItemsOf(Len(runs))
        /\ NoItems.run = 0
    BY <1>0, RunsAre DEF BatchTypeOK
  <1>2. /\ batch.mounted /\ batch.active = 0
        /\ batch' = [batch EXCEPT !.active = k, !.busy = TRUE, !.items = items]
        /\ runs' = Append(runs, run)
    BY DEF start, updateItem
  <1>3. run \in RunType /\ ~run.ended /\ ~run.cancelled /\ run.item = 1
        /\ run.request = Len(api.req) + 1
    BY <1>0 DEF RunType
  <1>4. /\ status \in [1..Files -> Statuses] /\ result \in [1..Files -> Nat]
        /\ status[1] = "processing" /\ \A i \in 1..Files : i > 1 => status[i] = "queued"
    BY <1>0 DEF Statuses
  <1> HIDE DEF run, status, result
  <1>5. /\ runs' \in Seq(RunType) /\ Len(runs') = k /\ runs'[k] = run
        /\ \A j \in DOMAIN runs : runs'[j] = runs[j]
    BY <1>1, <1>2, <1>3, AppendProperties
  <1>6. DOMAIN runs' = 1..k
    BY <1>5, LenProperties
  <1>7. /\ items \in ItemsOf(k) /\ items.run = k /\ items.status = status
        /\ k \in Nat /\ k # 0
    BY <1>1, <1>4 DEF ItemsOf
  <1> HIDE DEF items
  <1>8. /\ batch' \in [items : ItemsOf(k), active : 0..k, busy : BOOLEAN, mounted : BOOLEAN]
        /\ batch'.items = items /\ batch'.active = k /\ batch'.mounted
    <2>1. batch \in [items : {NoItems} \cup ItemsOf(Len(runs)), active : 0..Len(runs),
                     busy : BOOLEAN, mounted : BOOLEAN]
      BY <1>0 DEF BatchTypeOK
    <2>2. items \in ItemsOf(k) /\ k \in 0..k
      BY <1>7
    <2> HIDE DEF k
    <2> QED
      BY <1>2, <2>1, <2>2
  <1>9. BatchTypeOK'
    BY <1>5, <1>8 DEF BatchTypeOK
  <1>10. \A j \in DOMAIN runs' : j \in DOMAIN runs \/ j = k
    BY <1>1, <1>6
  <1>11. \A j \in DOMAIN runs : runs[j].ended /\ ~runs[j].operation
    <2>1. \A j \in DOMAIN runs : j # 0
      BY <1>1
    <2> QED
      BY <1>0, <1>2, <2>1 DEF BatchAlone
  <1>12. BatchAlone'
    BY <1>3, <1>5, <1>8, <1>10, <1>11 DEF BatchAlone
  <1>13. UnderWay'
    BY <1>3, <1>4, <1>5, <1>7, <1>8, <1>10, <1>11 DEF UnderWay
  <1>14. batch.items.run # k
    BY <1>1 DEF ItemsOf
  <1>15. KeepsSettled
    BY <1>7, <1>8, <1>14 DEF KeepsSettled
  <1> QED
    BY <1>3, <1>5, <1>9, <1>12, <1>13, <1>15 DEF BatchInv

\* The type of the hook's state when there are n runs.
HookType(n) ==
    [items : {NoItems} \cup ItemsOf(n), active : 0..n, busy : BOOLEAN, mounted : BOOLEAN]

\* What the finally clause leaves of the hook, after the run that is active.
LEMMA ReleasedIs ==
    ASSUME NEW n \in Nat, NEW h \in HookType(n), NEW k \in 1..n, h.active = k
    PROVE  /\ Released(h, k) \in HookType(n) /\ Released(h, k).active = 0
           /\ Released(h, k).items = h.items /\ Released(h, k).mounted = h.mounted
  <1> DEFINE busy == h.busy /\ ~h.mounted
  <1>1. Released(h, k) = [h EXCEPT !.active = 0, !.busy = busy]
    BY DEF Released
  <1>2. busy \in BOOLEAN
    OBVIOUS
  <1>3. ASSUME NEW x \in BOOLEAN, NEW g, g = [h EXCEPT !.active = 0, !.busy = x]
        PROVE  /\ g \in HookType(n) /\ g.active = 0
               /\ g.items = h.items /\ g.mounted = h.mounted
    <2>1. 0 \in 0..n
      OBVIOUS
    <2> DEFINE I == {NoItems} \cup ItemsOf(n)
               A == 0..n
    <2>2. h \in [items : I, active : A, busy : BOOLEAN, mounted : BOOLEAN] /\ 0 \in A
      BY <2>1 DEF HookType
    <2> HIDE DEF I, A
    <2>3. /\ g \in [items : I, active : A, busy : BOOLEAN, mounted : BOOLEAN]
          /\ g.active = 0 /\ g.items = h.items /\ g.mounted = h.mounted
      BY <1>3, <2>2
    <2> QED
      BY <2>3 DEF HookType, I, A
  <1> HIDE DEF busy
  <1> QED
    BY <1>1, <1>2, <1>3

\* What an entry leaves of the items.
LEMMA ItemUpdated ==
    ASSUME NEW n \in Nat, NEW items \in ItemsOf(n), NEW k, items.run = k, NEW i \in 1..Files,
           NEW status \in Statuses, NEW result \in Nat
    PROVE  /\ updateItem(items, k, i, status, result) \in ItemsOf(n)
           /\ updateItem(items, k, i, status, result).run = k
           /\ \A j \in 1..Files :
                 /\ updateItem(items, k, i, status, result).status[j]
                       = IF j = i THEN status ELSE items.status[j]
                 /\ updateItem(items, k, i, status, result).result[j]
                       = IF j = i THEN result ELSE items.result[j]
  <1> DEFINE s == [items.status EXCEPT ![i] = status]
             r == [items.result EXCEPT ![i] = result]
             new == updateItem(items, k, i, status, result)
  <1>1. new = [items EXCEPT !.status = s, !.result = r]
    BY DEF updateItem
  <1>2. /\ s \in [1..Files -> Statuses] /\ r \in [1..Files -> Nat]
        /\ \A j \in 1..Files : /\ s[j] = IF j = i THEN status ELSE items.status[j]
                              /\ r[j] = IF j = i THEN result ELSE items.result[j]
    BY DEF ItemsOf
  <1> HIDE DEF s, r
  <1>3. /\ new \in ItemsOf(n) /\ new.run = items.run /\ new.status = s /\ new.result = r
    BY <1>1, <1>2 DEF ItemsOf
  <1> QED
    BY <1>2, <1>3

\* The run under way ends: no other one is.
LEMMA EndKeeps ==
    ASSUME BatchInv, NEW k \in DOMAIN runs, ~runs[k].ended,
           NEW run \in RunType, run.ended, ~run.operation, runs' = [runs EXCEPT ![k] = run],
           batch' \in HookType(Len(runs)), batch'.active = 0
    PROVE  BatchTypeOK' /\ BatchAlone' /\ UnderWay'
  <1>0. BatchTypeOK /\ BatchAlone
    BY DEF BatchInv
  <1>1. /\ runs' \in Seq(RunType) /\ Len(runs') = Len(runs) /\ DOMAIN runs' = DOMAIN runs
        /\ \A j \in DOMAIN runs : runs'[j] = IF j = k THEN run ELSE runs[j]
    BY <1>0, RunReplaced
  <1>2. \A j \in DOMAIN runs : runs'[j].ended /\ ~(runs'[j].operation)
    BY <1>0, <1>1 DEF BatchAlone
  <1>3. BatchTypeOK'
    BY <1>1 DEF BatchTypeOK, HookType
  <1> QED
    BY <1>1, <1>2, <1>3 DEF BatchAlone, UnderWay

\* The loop breaks.
LEMMA BreaksKeeps ==
    ASSUME BatchInv, NEW k \in DOMAIN runs, ~runs[k].ended, Breaks(k)
    PROVE  /\ BatchInv' /\ KeepsSettled /\ DOMAIN runs' = DOMAIN runs
           /\ \A j \in DOMAIN runs : runs'[j].request = runs[j].request
  <1>0. BatchTypeOK /\ BatchAlone
    BY DEF BatchInv
  <1>1. /\ Len(runs) \in Nat /\ k \in 1..Len(runs) /\ runs[k] \in RunType /\ batch.active = k
        /\ batch \in HookType(Len(runs))
    BY <1>0, RunsAre DEF BatchAlone, BatchTypeOK, HookType
  <1> DEFINE h == IF isCurrent(k) THEN Cancelled(batch) ELSE batch
             run == Ended(IF isCurrent(k) THEN CancelledRun(runs[k]) ELSE runs[k])
  <1>2. batch' = Released(h, k) /\ runs' = [runs EXCEPT ![k] = run]
    BY DEF Breaks
  <1>3. /\ h \in HookType(Len(runs)) /\ h.active = k
        /\ h.items.run = batch.items.run
        /\ batch.items.run # 0 =>
              \A i \in 1..Files :
                 batch.items.status[i] \in {"complete", "failed", "cancelled"} =>
                    /\ h.items.result[i] = batch.items.result[i]
                    /\ h.items.status[i] = batch.items.status[i]
    <2>1. CASE isCurrent(k)
      BY <1>0, <1>1, <2>1, CancelledHook DEF HookType
    <2>2. CASE ~isCurrent(k)
      BY <1>1, <2>2
    <2> QED
      BY <2>1, <2>2
  <1>4. run \in RunType /\ run.ended /\ ~run.operation /\ run.request = runs[k].request
    BY <1>1, CancelledRunIs, EndedRunIs
  <1> HIDE DEF h, run
  <1>5. batch' \in HookType(Len(runs)) /\ batch'.active = 0 /\ batch'.items = h.items
    BY <1>1, <1>2, <1>3, ReleasedIs
  <1>6. BatchTypeOK' /\ BatchAlone' /\ UnderWay'
    BY <1>2, <1>4, <1>5, EndKeeps
  <1>7. KeepsSettled
    BY <1>3, <1>5 DEF KeepsSettled
  <1>8. DOMAIN runs' = DOMAIN runs /\ \A j \in DOMAIN runs : runs'[j].request = runs[j].request
    BY <1>0, <1>2, <1>4, RunReplaced
  <1> QED
    BY <1>6, <1>7, <1>8 DEF BatchInv

\* An item gets its result, and the next one its request.
LEMMA GoesOnKeeps ==
    ASSUME BatchInv, NEW k \in DOMAIN runs, ~runs[k].ended, GoesOn(k), Len(api.req) \in Nat
    PROVE  /\ BatchInv' /\ KeepsSettled /\ DOMAIN runs' = DOMAIN runs
           /\ \A j \in DOMAIN runs :
                 \/ runs'[j].request = runs[j].request
                 \/ /\ runs'[j].request = Len(api.req) + 1
                    /\ Page(Started(api, runs[k].kind))
  <1>0. BatchTypeOK /\ BatchAlone /\ UnderWay /\ Files \in Nat \ {0}
    BY BatchAssumption DEF BatchInv
  <1>1. /\ Len(runs) \in Nat /\ k \in 1..Len(runs) /\ runs[k] \in RunType /\ batch.active = k
        /\ batch \in HookType(Len(runs)) /\ k # 0 /\ NoItems.run = 0
        /\ batch.items = NoItems \/ batch.items \in ItemsOf(Len(runs))
    BY <1>0, RunsAre DEF BatchAlone, BatchTypeOK, HookType
  <1>2. /\ batch.mounted /\ ~runs[k].cancelled
        /\ batch.items.run = k
        /\ batch.items.status[runs[k].item] = "processing"
        /\ \A i \in 1..Files : i > runs[k].item => batch.items.status[i] = "queued"
    BY <1>0 DEF GoesOn, Enters, isCurrent, UnderWay
  <1> DEFINE run == runs[k]
             status == IF Outcome(k) = "ok" THEN "complete" ELSE "failed"
             items == updateItem(batch.items, k, run.item, status, run.request)
             next == updateItem(items, k, run.item + 1, "processing", 0)
  <1>3. batch.items \in ItemsOf(Len(runs)) /\ run.item \in 1..Files /\ run.request \in Nat
    BY <1>1, <1>2 DEF RunType
  <1>4. status \in Statuses
    BY DEF Statuses
  <1> HIDE DEF status
  <1>5. /\ items \in ItemsOf(Len(runs)) /\ items.run = k
        /\ \A j \in 1..Files :
              /\ items.status[j] = IF j = run.item THEN status ELSE batch.items.status[j]
              /\ items.result[j] = IF j = run.item THEN run.request ELSE batch.items.result[j]
    <2> DEFINE old == batch.items
               item == run.item
               request == run.request
               new == updateItem(old, k, item, status, request)
    <2>1. items = new
      OBVIOUS
    <2>2. old \in ItemsOf(Len(runs)) /\ old.run = k /\ item \in 1..Files /\ request \in Nat
      BY <1>2, <1>3
    <2> HIDE DEF old, item, request, items
    <2>3. /\ new \in ItemsOf(Len(runs)) /\ new.run = k
          /\ \A j \in 1..Files :
                /\ new.status[j] = IF j = item THEN status ELSE old.status[j]
                /\ new.result[j] = IF j = item THEN request ELSE old.result[j]
      BY <1>1, <1>4, <2>2, ItemUpdated
    <2> HIDE DEF new
    <2>4. /\ items \in ItemsOf(Len(runs)) /\ items.run = k
          /\ \A j \in 1..Files :
                /\ items.status[j] = IF j = item THEN status ELSE old.status[j]
                /\ items.result[j] = IF j = item THEN request ELSE old.result[j]
      BY <2>1, <2>3
    <2> QED
      BY <2>4 DEF old, item, request
  <1> HIDE DEF items
  <1>6. CASE run.item = Files
    <2> DEFINE h == [batch EXCEPT !.items = items]
               e == Ended(run)
    <2>1. batch' = Released(h, k) /\ runs' = [runs EXCEPT ![k] = e]
      BY <1>6 DEF GoesOn, status, items
    <2>2. h \in HookType(Len(runs)) /\ h.active = k /\ h.items = items
      BY <1>1, <1>5 DEF HookType
    <2>3. e \in RunType /\ e.ended /\ ~e.operation /\ e.request = run.request
      BY <1>1, EndedRunIs
    <2> HIDE DEF h, e
    <2>4. batch' \in HookType(Len(runs)) /\ batch'.active = 0 /\ batch'.items = items
      BY <1>1, <2>1, <2>2, ReleasedIs
    <2>5. BatchTypeOK' /\ BatchAlone' /\ UnderWay'
      BY <2>1, <2>3, <2>4, EndKeeps
    <2>6. KeepsSettled
      BY <1>2, <1>5, <2>4 DEF KeepsSettled
    <2>7. DOMAIN runs' = DOMAIN runs /\ \A j \in DOMAIN runs : runs'[j].request = runs[j].request
      BY <1>0, <2>1, <2>3, RunReplaced
    <2> QED
      BY <2>5, <2>6, <2>7 DEF BatchInv
  <1>7. CASE run.item # Files
    <2> DEFINE r == [run EXCEPT !.item = run.item + 1, !.request = Len(api.req) + 1]
    <2>1. /\ batch' = [batch EXCEPT !.items = next]
          /\ runs' = [runs EXCEPT ![k].item = @ + 1, ![k].request = Len(api.req) + 1]
          /\ Page(Started(api, run.kind))
      BY <1>7 DEF GoesOn, status, items
    <2>2. runs' = [runs EXCEPT ![k] = r]
      <3>1. runs \in [1..Len(runs) -> RunType]
        BY <1>0, LenProperties DEF BatchTypeOK
      <3> QED
        BY <1>1, <2>1, <3>1
    <2>3. run.item + 1 \in 1..Files
      BY <1>0, <1>3, <1>7
    <2>4. /\ r \in RunType /\ r.item = run.item + 1 /\ r.request = Len(api.req) + 1
          /\ r.cancelled = run.cancelled /\ r.ended = run.ended /\ r.operation = run.operation
      <3>1. r = [run EXCEPT !.item = run.item + 1, !.request = Len(api.req) + 1]
        OBVIOUS
      <3>2. run \in RunType /\ Len(api.req) + 1 \in Nat
        BY <1>1
      <3> HIDE DEF r, run
      <3> QED
        BY <2>3, <3>1, <3>2 DEF RunType
    <2>5. "processing" \in Statuses
      BY DEF Statuses
    <2>6. /\ next \in ItemsOf(Len(runs)) /\ next.run = k
          /\ \A j \in 1..Files :
                /\ next.status[j] = IF j = run.item + 1 THEN "processing" ELSE items.status[j]
                /\ next.result[j] = IF j = run.item + 1 THEN 0 ELSE items.result[j]
      BY <1>1, <1>5, <2>3, <2>5, ItemUpdated
    <2> HIDE DEF next, r
    <2>7. /\ batch' \in HookType(Len(runs)) /\ batch'.active = k /\ batch'.items = next
          /\ batch'.mounted = batch.mounted
      BY <1>1, <2>1, <2>6 DEF HookType
    <2>8. /\ runs' \in Seq(RunType) /\ Len(runs') = Len(runs) /\ DOMAIN runs' = DOMAIN runs
          /\ \A j \in DOMAIN runs : runs'[j] = IF j = k THEN r ELSE runs[j]
      BY <1>0, <2>2, <2>4, RunReplaced
    <2>9. BatchTypeOK'
      BY <2>7, <2>8 DEF BatchTypeOK, HookType
    <2>10. BatchAlone'
      BY <1>0, <1>1, <2>4, <2>7, <2>8 DEF BatchAlone
    <2>11. \A i \in 1..Files : i > run.item + 1 => next.status[i] = "queued"
      BY <1>2, <1>3, <1>5, <2>3, <2>6
    <2>12. UnderWay'
      BY <1>0, <1>1, <2>3, <2>4, <2>6, <2>7, <2>8, <2>11 DEF UnderWay, BatchAlone
    <2>13. batch.items.status[run.item + 1] = "queued"
      BY <1>2, <1>3, <2>3
    <2>14. KeepsSettled
      BY <1>2, <1>5, <2>6, <2>7, <2>13 DEF KeepsSettled
    <2> QED
      BY <2>1, <2>4, <2>8, <2>9, <2>10, <2>12, <2>14 DEF BatchInv
  <1> QED
    BY <1>6, <1>7

\* Clearing shows no items, and the hook's state may stay as it is.
LEMMA ClearKeeps ==
    ASSUME BatchInv, UNCHANGED runs,
           \/ UNCHANGED batch
           \/ batch.active = 0 /\ batch' = [batch EXCEPT !.items = NoItems]
    PROVE  BatchInv' /\ KeepsSettled
  <1>0. BatchTypeOK /\ BatchAlone /\ UnderWay
    BY DEF BatchInv
  <1>1. CASE UNCHANGED batch
    BY <1>0, <1>1 DEF BatchInv, BatchTypeOK, BatchAlone, UnderWay, KeepsSettled
  <1>2. CASE batch.active = 0 /\ batch' = [batch EXCEPT !.items = NoItems]
    <2>1. /\ batch' \in HookType(Len(runs)) /\ batch'.items = NoItems
          /\ batch'.active = 0 /\ batch'.mounted = batch.mounted /\ NoItems.run = 0
      BY <1>0, <1>2 DEF BatchTypeOK, HookType, NoItems
    <2>2. \A k \in DOMAIN runs : k # 0
      BY <1>0, RunsAre
    <2>3. \A k \in DOMAIN runs : runs[k].ended /\ ~runs[k].operation
      BY <1>0, <1>2, <2>2 DEF BatchAlone
    <2>4. BatchTypeOK'
      BY <1>0, <2>1 DEF BatchTypeOK, HookType
    <2>5. BatchAlone' /\ UnderWay'
      BY <2>3 DEF BatchAlone, UnderWay
    <2>6. KeepsSettled
      BY <2>1 DEF KeepsSettled
    <2> QED
      BY <2>4, <2>5, <2>6 DEF BatchInv
  <1> QED
    BY <1>1, <1>2

-----------------------------------------------------------------------------
(* The view.                                                               *)

\* A page forgets no request.
LEMMA ApiGrows ==
    ASSUME ApiInv, ApiNext \/ PageMove \/ UNCHANGED apiVars
    PROVE  Requests(api) \subseteq Requests(api)'
  <1>0. ApiTypeOK /\ api \in PageType
    BY DEF ApiInv, ApiTypeOK
  <1>1. ASSUME PageMove PROVE Requests(api) \subseteq Requests(api)'
    <2> PICK b : Page(b) /\ Moves(api, b)
      BY <1>1 DEF PageMove
    <2>1. api' = b /\ Requests(api) \subseteq Requests(b)
      BY <1>0, PageEffect
    <2> QED
      BY <2>1 DEF Requests
  <1>2. ASSUME NEW r \in Requests(api), Handle(r) \/ LoseRequest(r)
        PROVE  Requests(api) \subseteq Requests(api)'
    <2>1. PICK x \in {"ok", "lost", "rejected"} : Answered(r, x)
      BY <1>2 DEF Handle, LoseRequest
    <2> QED
      BY <1>0, <2>1, AnsweredPage
  <1>3. ASSUME AnswerHealth \/ LoseHealth \/ OtherPage \/ Restart \/ UNCHANGED apiVars
        PROVE  Requests(api) \subseteq Requests(api)'
    <2>1. api'.req = api.req
      BY <1>0, <1>3 DEF AnswerHealth, LoseHealth, OtherPage, Restart, apiVars, PageType
    <2> QED
      BY <2>1 DEF Requests
  <1> QED
    BY <1>1, <1>2, <1>3, HealthResolvesMoves, FetchReturnsMoves DEF ApiNext

\* The steps of the batches keep their invariant, and their runs know their requests.
LEMMA ViewStepsBatch ==
    ASSUME ViewInv, ViewNext
    PROVE  BatchInv' /\ KeepsSettled /\ RequestsKnown'
  <1>0. /\ BatchInv /\ BatchTypeOK /\ RequestsKnown /\ api \in PageType /\ Len(api.req) \in Nat
        /\ BatchKinds \subseteq AllKinds /\ Kinds \subseteq AllKinds
    BY BatchAssumption, ApiAssumption, RequestsOfPage
       DEF ViewInv, BatchInv, ApiInv, ApiTypeOK, AllKinds
  <1>1. Requests(api) \subseteq Requests(api)'
    BY ViewStepsApi, ApiGrows DEF ViewInv
  <1>2. ASSUME NEW kind \in AllKinds, Page(Started(api, kind))
        PROVE  Len(api.req) + 1 \in Requests(api)'
    <2>1. api' = Started(api, kind)
      BY <1>2 DEF Page
    <2>2. Requests(api)' = Requests(Started(api, kind))
      BY <2>1 DEF Requests
    <2> QED
      BY <1>0, <2>2, StartedHas
  <1>3. ASSUME UNCHANGED <<batchVars, others>> PROVE BatchInv' /\ KeepsSettled /\ RequestsKnown'
    <2>1. BatchInv' /\ KeepsSettled
      BY <1>0, <1>3, ClearKeeps DEF batchVars
    <2> QED
      BY <1>0, <1>1, <1>3, <2>1 DEF RequestsKnown, batchVars
  <1>4. ASSUME UNCHANGED others, DOMAIN runs' = DOMAIN runs,
               \A k \in DOMAIN runs : runs'[k].request \in Requests(api)'
        PROVE  RequestsKnown'
    BY <1>0, <1>1, <1>4 DEF RequestsKnown
  <1>5. CASE submit
    <2>1. PICK kind \in BatchKinds : start(kind)
      BY <1>5 DEF submit
    <2>2. /\ BatchInv' /\ KeepsSettled
          /\ Len(runs') = Len(runs) + 1
          /\ \A k \in DOMAIN runs : runs'[k] = runs[k]
          /\ runs'[Len(runs) + 1].request = Len(api.req) + 1
      BY <1>0, <2>1, StartKeeps
    <2>3. Len(api.req) + 1 \in Requests(api)'
      BY <1>0, <1>2, <2>1 DEF start
    <2>4. \A k \in DOMAIN runs' : k \in DOMAIN runs \/ k = Len(runs) + 1
      <3>1. DOMAIN runs' = 1..Len(runs) + 1
        BY <2>2, LenProperties DEF BatchInv, BatchTypeOK
      <3> QED
        BY <1>0, <3>1, RunsAre
    <2>5. RequestsKnown'
      BY <1>0, <1>1, <1>5, <2>2, <2>3, <2>4 DEF RequestsKnown, submit
    <2> QED
      BY <2>2, <2>5
  <1>6. ASSUME NEW h, h = Cancelled(batch), batch' = h \/ batch' = [h EXCEPT !.mounted = FALSE],
               runs' = CancelledRuns, UNCHANGED others
        PROVE  BatchInv' /\ KeepsSettled /\ RequestsKnown'
    <2>1. BatchInv' /\ KeepsSettled
      BY <1>0, <1>6, CancelKeeps
    <2>2. DOMAIN runs' = DOMAIN runs
      BY <1>6 DEF CancelledRuns
    <2>3. \A k \in DOMAIN runs : runs'[k].request = runs[k].request
      BY <1>0, <1>6, CancelledRunsKeep, CancelledRunIs, RunsAre
    <2> QED
      BY <1>0, <1>1, <1>4, <1>6, <2>1, <2>2, <2>3 DEF RequestsKnown
  <1>7. CASE Encrypts
    <2>1. CASE cancel
      BY <1>6, <1>7, <2>1 DEF cancel, Encrypts
    <2>2. ASSUME NEW k \in DOMAIN runs, processBatch(k)
          PROVE  BatchInv' /\ KeepsSettled /\ RequestsKnown'
      <3>0. ~runs[k].ended /\ UNCHANGED others /\ runs[k].kind \in AllKinds
        BY <1>0, <1>7, <2>2, RunsAre DEF processBatch, Encrypts, RunType
      <3>1. CASE Breaks(k)
        BY <1>0, <1>1, <1>4, <3>0, <3>1, BreaksKeeps DEF RequestsKnown
      <3>2. CASE GoesOn(k)
        <4>1. /\ BatchInv' /\ KeepsSettled /\ DOMAIN runs' = DOMAIN runs
              /\ \A j \in DOMAIN runs :
                    \/ runs'[j].request = runs[j].request
                    \/ /\ runs'[j].request = Len(api.req) + 1
                       /\ Page(Started(api, runs[k].kind))
          BY <1>0, <3>0, <3>2, GoesOnKeeps
        <4>2. \A j \in DOMAIN runs : runs'[j].request \in Requests(api)'
          BY <1>0, <1>1, <1>2, <3>0, <4>1 DEF RequestsKnown
        <4> QED
          BY <1>4, <3>0, <4>1, <4>2
      <3> QED
        BY <2>2, <3>1, <3>2 DEF processBatch
    <2> QED
      BY <1>7, <2>1, <2>2 DEF Encrypts
  <1>8. CASE clearBatch
    <2>1. BatchInv' /\ KeepsSettled /\ UNCHANGED <<runs, others>>
      BY <1>0, <1>8, ClearKeeps DEF clearBatch, clear
    <2> QED
      BY <1>0, <1>1, <1>4, <2>1 DEF RequestsKnown
  <1>9. CASE Leave
    BY <1>6, <1>9 DEF Leave, unmount
  <1>10. CASE Other
    <2>1. UNCHANGED batchVars
      BY <1>10 DEF Other
    <2>2. BatchInv' /\ KeepsSettled
      BY <1>0, <2>1, ClearKeeps DEF batchVars
    <2>3. others' \subseteq Requests(api)'
      <3>1. CASE \E kind \in Kinds : Page(Started(api, kind)) /\ others' = others \cup {Len(api.req) + 1}
        BY <1>0, <1>1, <1>2, <3>1 DEF RequestsKnown
      <3>2. CASE UNCHANGED others
        BY <1>0, <1>1, <3>2 DEF RequestsKnown
      <3> QED
        BY <1>10, <3>1, <3>2 DEF Other
    <2> QED
      BY <1>0, <1>1, <2>1, <2>2, <2>3 DEF RequestsKnown, batchVars
  <1>11. CASE ApiNext /\ UNCHANGED <<batchVars, inspectionVars, others>>
    BY <1>3, <1>11
  <1>12. CASE ChoosesKey
    BY <1>3, <1>12 DEF ChoosesKey
  <1>13. CASE Inspects
    BY <1>3, <1>13 DEF Inspects
  <1> QED
    BY <1>5, <1>7, <1>8, <1>9, <1>10, <1>11, <1>12, <1>13 DEF ViewNext

-----------------------------------------------------------------------------
(* The invariant of the view.                                              *)

\* The invariant holds at first.
LEMMA ViewInvInit == ViewInit => ViewInv
  <1> SUFFICES ASSUME ViewInit PROVE ViewInv
    OBVIOUS
  <1>1. ApiInv
    BY ApiInvInit DEF ViewInit
  <1>2. runs = <<>> /\ batch = [items |-> NoItems, active |-> 0, busy |-> FALSE, mounted |-> TRUE]
        /\ others = {}
    BY DEF ViewInit, BatchInit
  <1>3. runs \in Seq(RunType) /\ Len(runs) = 0 /\ DOMAIN runs = {}
    BY <1>2, EmptySeq
  <1>4. BatchTypeOK
    BY <1>2, <1>3 DEF BatchTypeOK
  <1> QED
    BY <1>1, <1>2, <1>3, <1>4 DEF ViewInv, BatchInv, BatchAlone, UnderWay, RequestsKnown

\* A step keeps it, and does what LateResultDropped says.
LEMMA ViewInvStep == ViewInv /\ [ViewNext]_viewVars => ViewInv' /\ [KeepsSettled]_batch
  <1> SUFFICES ASSUME ViewInv, [ViewNext]_viewVars PROVE ViewInv' /\ [KeepsSettled]_batch
    OBVIOUS
  <1>1. CASE ViewNext
    BY <1>1, ViewStepsApi, ViewStepsBatch, ApiKeeps DEF ViewInv
  <1>2. CASE UNCHANGED viewVars
    <2>1. UNCHANGED apiVars /\ UNCHANGED <<batch, runs, others>>
      BY <1>2 DEF viewVars, batchVars
    <2>2. ApiInv'
      BY <2>1, ApiKeeps DEF ViewInv
    <2>3. BatchInv'
      BY <2>1, ClearKeeps DEF ViewInv
    <2>4. Requests(api)' = Requests(api)
      BY <2>1 DEF apiVars, Requests
    <2> QED
      BY <2>1, <2>2, <2>3, <2>4 DEF ViewInv, RequestsKnown
  <1> QED
    BY <1>1, <1>2

\* Whatever the user and the network do, the view stays in the invariant.
THEOREM ViewInvariant == ViewSpec => []ViewInv
  BY ViewInvInit, ViewInvStep, PTL DEF ViewSpec

\* A handler of the service has a request of the page at most once, however often the
\* service restarts, connections break and requests are replayed (client.ts:58-67).
THEOREM ViewHandledOnce == ViewSpec => []HandledOnce
  <1>1. ViewInv => HandledOnce
    BY ApiInvMeans DEF ViewInv
  <1> QED
    BY <1>1, ViewInvariant, PTL

\* No handler that ignores the expected fingerprint has a request that states one, after
\* any number of restarts with older and newer versions (client.ts:50-65).
THEOREM ViewExpectationEnforced == ViewSpec => []ExpectationEnforced
  <1>1. ViewInv => ExpectationEnforced
    BY ApiInvMeans DEF ViewInv
  <1> QED
    BY <1>1, ViewInvariant, PTL

\* One operation of a batch at a time, however often the user cancels and starts again
\* (useBatchFiles.ts:66-72, 115-121).
THEOREM ViewBatchAlone == ViewSpec => []BatchAlone
  <1>1. ViewInv => BatchAlone
    BY DEF ViewInv, BatchInv
  <1> QED
    BY <1>1, ViewInvariant, PTL

\* No late result changes an item that is settled, for any number of files and batches
\* (useBatchFiles.ts:91-114).
THEOREM ViewLateResultDropped == ViewSpec => LateResultDropped
  BY ViewInvariant, ViewInvStep, PTL DEF ViewSpec, LateResultDropped, KeepsSettled
-----------------------------------------------------------------------------
(* The inspection of the key file.                                         *)

EffectType ==
    [file : Key \ LargeKey, request : Nat, current : BOOLEAN, settled : BOOLEAN]

StateType ==
    [sourceFile : Key \cup {NoKey}, value : {"none", "result", "error"}, request : Nat,
     loading : BOOLEAN]

\* The hook and the effects that ran, of any number of choices.
InspectionTypeOK ==
    /\ inspection \in [file : Key \cup {NoKey}, ran : Key \cup {NoKey}, state : StateType,
                       choices : Nat]
    /\ effects \in Seq(EffectType)

\* What an abort is known by: a request ends as aborted only when somebody aborted it.
AbortsKnown(a) ==
    \A r \in Requests(a) : a.req[r].outcome = "aborted" => a.req[r].aborted

\* The effect that runs is that of the file rendered last; its request is its own and
\* nobody has aborted it.
RunningOK ==
    \A e \in DOMAIN effects : effects[e].current =>
        /\ effects[e].file = inspection.ran
        /\ effects[e].request \notin others
        /\ \A k \in DOMAIN runs : runs[k].request # effects[e].request
        /\ ~api.req[effects[e].request].aborted
        /\ effects[e].settled => /\ inspection.state.sourceFile = effects[e].file
                                 /\ ~inspection.state.loading

\* What the hook holds was found by an effect of the file it is about.
FoundByEffect ==
    inspection.state.request # 0 =>
        \E e \in DOMAIN effects : /\ effects[e].file = inspection.state.sourceFile
                                  /\ effects[e].request = inspection.state.request

\* Every effect has a request of its own page, and what was found is about a file that
\* was inspected.
InspectionInv ==
    /\ InspectionTypeOK /\ AbortsKnown(api) /\ RunningOK /\ FoundByEffect
    /\ \A e \in DOMAIN effects : effects[e].request \in Requests(api)

\* The step from page a to page b forgets no request and tells no abort that was none.
Heeds(a, b) ==
    /\ b \in PageType /\ Requests(a) \subseteq Requests(b)
    /\ AbortsKnown(a) => AbortsKnown(b)
    /\ \A r \in Requests(b) \ Requests(a) : ~b.req[r].aborted

\* Aborting a request aborts no other one.
LEMMA AbortedIs ==
    ASSUME NEW a \in PageType, NEW r \in Requests(a)
    PROVE  /\ Heeds(a, Aborted(a, r))
           /\ \A s \in Requests(a) : s # r => Aborted(a, r).req[s] = a.req[s]
           /\ Aborted(a, r).req[r].aborted
  <1> DEFINE q == a.req[r]
             aborted == [q EXCEPT !.aborted = TRUE]
             p == IF q.at \in {"fetch", "refetch"} THEN Finished(aborted, "aborted") ELSE aborted
             b == [a EXCEPT !.req[r] = p]
  <1>1. q \in RequestType
    BY RequestsOfPage
  <1>2. p \in RequestType
    BY <1>1 DEF Finished, RequestType
  <1>20. p.aborted
    BY <1>1 DEF Finished, RequestType
  <1>3. Aborted(a, r) = b
    BY DEF Aborted
  <1> HIDE DEF p, q
  <1>4. /\ b \in PageType /\ Requests(b) = Requests(a)
        /\ \A s \in Requests(a) : b.req[s] = IF s = r THEN p ELSE a.req[s]
    <2>1. AbortsOnly(a, b)
      BY <1>3, AbortedAborts
    <2>2. b = [a EXCEPT !.req = [a.req EXCEPT ![r] = p]]
      OBVIOUS
    <2> HIDE DEF b
    <2>3. b.req = [a.req EXCEPT ![r] = p]
      BY <2>2 DEF PageType
    <2> QED
      BY <2>1, <2>3 DEF AbortsOnly, Requests
  <1> HIDE DEF b
  <1>5. Heeds(a, b)
    BY <1>20, <1>4 DEF Heeds, AbortsKnown
  <1> QED
    BY <1>20, <1>3, <1>4, <1>5

\* Cleaning up the effect that runs forgets no request.
LEMMA CleanedUpIs ==
    ASSUME NEW a \in PageType
    PROVE  /\ Heeds(a, CleanedUpPage(a)) /\ Requests(CleanedUpPage(a)) = Requests(a)
           /\ Len(CleanedUpPage(a).req) = Len(a.req)
  <1> DEFINE f == [r \in Requests(a) |-> IF \E e \in Running : effects[e].request = r
                                         THEN Aborted(a, r).req[r] ELSE a.req[r]]
             c == CleanedUpPage(a)
  <1>1. c = [a EXCEPT !.req = f]
    BY DEF CleanedUpPage, Requests
  <1>2. AbortsOnly(a, c)
    BY CleanedUpAborts
  <1>3. c \in PageType /\ Len(c.req) = Len(a.req)
    BY <1>2 DEF AbortsOnly
  <1>4. Requests(c) = Requests(a) /\ c.req = f
    BY <1>1, <1>3, RequestsOfPage DEF PageType
  <1>5. ASSUME NEW r \in Requests(a)
        PROVE  f[r] = a.req[r] \/ f[r].aborted
    BY <1>5, AbortedIs
  <1> HIDE DEF f, c
  <1>6. Heeds(a, c)
    BY <1>3, <1>4, <1>5 DEF Heeds, AbortsKnown
  <1> QED
    BY <1>3, <1>4, <1>6 DEF c

\* A request that starts is a new one, and nobody has aborted it.
LEMMA StartedIs ==
    ASSUME NEW a \in PageType, NEW kind \in AllKinds
    PROVE  /\ Heeds(a, Started(a, kind))
           /\ Requests(Started(a, kind)) = Requests(a) \cup {Len(a.req) + 1}
           /\ Len(a.req) + 1 \notin Requests(a)
           /\ \A r \in Requests(a) : Started(a, kind).req[r] = a.req[r]
  <1> DEFINE new(at) == [kind |-> kind, at |-> at, aborted |-> FALSE, answer |-> "none",
                         outcome |-> "none"]
             with(at) == [a EXCEPT !.req = Append(@, new(at))]
  <1>1. a.req \in Seq(RequestType) /\ Len(a.req) \in Nat /\ Requests(a) = 1..Len(a.req)
    BY RequestsOfPage
  <1>2. ASSUME NEW at \in {"health", "fetch"}
        PROVE  /\ with(at) \in PageType /\ Requests(with(at)) = Requests(a) \cup {Len(a.req) + 1}
               /\ \A r \in Requests(a) : with(at).req[r] = a.req[r]
               /\ ~with(at).req[Len(a.req) + 1].aborted
               /\ with(at).req[Len(a.req) + 1].outcome = "none"
    <2>1. new(at) \in RequestType /\ ~new(at).aborted /\ new(at).outcome = "none"
      BY DEF RequestType
    <2> HIDE DEF new
    <2>2. /\ Append(a.req, new(at)) \in Seq(RequestType)
          /\ Len(Append(a.req, new(at))) = Len(a.req) + 1
          /\ \A r \in 1..Len(a.req) : Append(a.req, new(at))[r] = a.req[r]
          /\ Append(a.req, new(at))[Len(a.req) + 1] = new(at)
      BY <1>1, <2>1, AppendProperties
    <2>3. with(at) \in PageType /\ with(at).req = Append(a.req, new(at))
      BY <2>2 DEF PageType
    <2>4. Requests(with(at)) = 1..Len(a.req) + 1
      BY <2>2, <2>3, LenProperties DEF Requests
    <2> DEFINE b == with(at)
               n == new(at)
    <2>5. /\ b.req = Append(a.req, n) /\ b \in PageType /\ Requests(b) = 1..Len(a.req) + 1
          /\ \A r \in 1..Len(a.req) : b.req[r] = a.req[r]
          /\ b.req[Len(a.req) + 1] = n
      BY <2>2, <2>3, <2>4
    <2>6. ~n.aborted /\ n.outcome = "none"
      BY <2>1
    <2> HIDE DEF b, n
    <2>7. /\ b \in PageType /\ Requests(b) = Requests(a) \cup {Len(a.req) + 1}
          /\ \A r \in Requests(a) : b.req[r] = a.req[r]
          /\ ~b.req[Len(a.req) + 1].aborted
          /\ b.req[Len(a.req) + 1].outcome = "none"
      BY <1>1, <2>5, <2>6
    <2> QED
      BY <2>7 DEF b
  <1>3. Started(a, kind) = IF NeedsHealth(a, kind) THEN AsksHealth(with("health")) ELSE with("fetch")
    BY DEF Started
  <1>4. AsksHealth(with("health")).req = with("health").req /\ AsksHealth(with("health")) \in PageType
    BY <1>2, AsksHealthKeeps
  <1>5. Len(a.req) + 1 \notin Requests(a)
    BY <1>1
  <1> DEFINE b == Started(a, kind)
  <1>6. PICK at \in {"health", "fetch"} : b \in PageType /\ b.req = with(at).req
    BY <1>2, <1>3, <1>4
  <1> HIDE DEF with, b
  <1>7. /\ Requests(b) = Requests(a) \cup {Len(a.req) + 1}
        /\ \A r \in Requests(a) : b.req[r] = a.req[r]
        /\ ~b.req[Len(a.req) + 1].aborted /\ b.req[Len(a.req) + 1].outcome = "none"
    BY <1>2, <1>6 DEF Requests
  <1>8. Heeds(a, b)
    BY <1>6, <1>7 DEF Heeds, AbortsKnown
  <1> QED
    BY <1>5, <1>7, <1>8 DEF b

\* The page goes on, the service and the connection do: nothing is aborted by it.
LEMMA ApiHeeds ==
    ASSUME ApiInv, AbortsKnown(api), ApiNext
    PROVE  /\ AbortsKnown(api)'
           /\ \A r \in Requests(api) : api'.req[r].aborted = api.req[r].aborted
  <1>0. /\ ApiTypeOK /\ api \in PageType
        /\ api.health \in [at : {"none", "sent", "answered", "failed"}, supports : BOOLEAN]
        /\ \A r \in Requests(api) : api.req[r] \in RequestType
    BY RequestsOfPage DEF ApiInv, ApiTypeOK, PageType
  <1>1. ASSUME Requests(api)' = Requests(api),
               \A r \in Requests(api) :
                  /\ api'.req[r].aborted = api.req[r].aborted
                  /\ \/ api'.req[r].outcome = api.req[r].outcome
                     \/ api'.req[r].outcome # "aborted" \/ api.req[r].aborted
        PROVE  /\ AbortsKnown(api)'
               /\ \A r \in Requests(api) : api'.req[r].aborted = api.req[r].aborted
    BY <1>1 DEF AbortsKnown
  <1>2. CASE HealthResolves
    <2> DEFINE next(r) == IF Awaits(api.req[r]) THEN Continued(api.req[r], api.health) ELSE api.req[r]
               f == [r \in Requests(api) |-> next(r)]
    <2>1. api'.req = f
      BY <1>0, <1>2 DEF HealthResolves, Page, PageType
    <2>2. ASSUME NEW q \in RequestType, NEW h
          PROVE  /\ Continued(q, h).aborted = q.aborted
                 /\ \/ Continued(q, h).outcome = q.outcome
                    \/ Continued(q, h).outcome # "aborted" \/ q.aborted
      <3>1. \/ q.aborted /\ Continued(q, h) = Finished(q, "aborted")
            \/ \E o \in {"unreachable", "unsupported"} : Continued(q, h) = Finished(q, o)
            \/ Continued(q, h) = [q EXCEPT !.at = IF @ = "health" THEN "fetch" ELSE "refetch",
                                           !.answer = "none"]
        BY DEF Continued
      <3> QED
        BY <3>1 DEF Finished, RequestType
    <2>3. \A r \in Requests(api) : f[r] = api.req[r] \/ f[r] = Continued(api.req[r], api.health)
      OBVIOUS
    <2>4. Requests(api)' = Requests(api)
      BY <2>1 DEF Requests
    <2> HIDE DEF f
    <2> QED
      BY <1>0, <1>1, <2>1, <2>2, <2>3, <2>4
  <1>3. ASSUME NEW r \in Requests(api), FetchReturns(r)
        PROVE  /\ AbortsKnown(api)'
               /\ \A s \in Requests(api) : api'.req[s].aborted = api.req[s].aborted
    <2>1. PICK q \in RequestType :
             /\ q.aborted = api.req[r].aborted
             /\ q.outcome = api.req[r].outcome \/ q.outcome # "aborted"
             /\ api'.req = [api.req EXCEPT ![r] = q]
      <3>1. CASE Replays(api.req[r])
        <4> DEFINE q == [api.req[r] EXCEPT !.at = "renew"]
                   a == [api EXCEPT !.req[r] = q]
        <4>1. api' = AsksHealth(a)
          BY <1>3, <3>1 DEF FetchReturns, Page
        <4>2. q \in RequestType /\ q.aborted = api.req[r].aborted /\ q.outcome = api.req[r].outcome
          BY <1>0 DEF RequestType
        <4> HIDE DEF q
        <4>3. a \in PageType /\ a.req = [api.req EXCEPT ![r] = q]
          BY <1>0, <4>2, RequestReplaced DEF PageType
        <4> HIDE DEF a
        <4>4. api'.req = a.req
          BY <4>1, <4>3, AsksHealthKeeps
        <4> QED
          BY <4>2, <4>3, <4>4
      <3>2. CASE ~Replays(api.req[r])
        <4> DEFINE q == Finished(api.req[r], Returned[api.req[r].answer])
        <4>1. api.req[r].answer \in {"ok", "lost", "rejected"}
          BY <1>0, <1>3 DEF FetchReturns, RequestType
        <4>2. Returned[api.req[r].answer] \in {"forbidden", "unreachable", "ok"}
          BY <4>1 DEF Returned
        <4>3. q \in RequestType /\ q.aborted = api.req[r].aborted /\ q.outcome # "aborted"
          BY <1>0, <4>2 DEF Finished, RequestType
        <4>4. api' = [api EXCEPT !.req[r] = q]
          BY <1>3, <3>2 DEF FetchReturns, Page
        <4> HIDE DEF q
        <4>5. api'.req = [api.req EXCEPT ![r] = q]
          BY <1>0, <4>4 DEF PageType
        <4> QED
          BY <4>3, <4>5
      <3> QED
        BY <3>1, <3>2
    <2>2. /\ Requests(api)' = Requests(api)
          /\ \A s \in Requests(api) : api'.req[s] = IF s = r THEN q ELSE api.req[s]
      BY <2>1 DEF Requests
    <2> QED
      BY <1>1, <2>1, <2>2
  <1>4. ASSUME NEW r \in Requests(api), Handle(r) \/ LoseRequest(r)
        PROVE  /\ AbortsKnown(api)'
               /\ \A s \in Requests(api) : api'.req[s].aborted = api.req[s].aborted
    <2>1. PICK x \in {"ok", "lost", "rejected"} : Answered(r, x)
      BY <1>4 DEF Handle, LoseRequest
    <2>2. CASE Done(api.req[r])
      <3>1. api' = api
        BY <2>1, <2>2 DEF Answered
      <3> QED
        BY <1>1, <3>1
    <2>3. CASE ~Done(api.req[r])
      <3> DEFINE q == [api.req[r] EXCEPT !.answer = x]
      <3>1. api' = [api EXCEPT !.req[r] = q]
        BY <2>1, <2>3 DEF Answered
      <3>2. q.aborted = api.req[r].aborted /\ q.outcome = api.req[r].outcome
        BY <1>0 DEF RequestType
      <3> HIDE DEF q
      <3>3. api'.req = [api.req EXCEPT ![r] = q]
        BY <1>0, <3>1 DEF PageType
      <3>4. /\ Requests(api)' = Requests(api)
            /\ \A s \in Requests(api) : api'.req[s] = IF s = r THEN q ELSE api.req[s]
        BY <3>3 DEF Requests
      <3> QED
        BY <1>1, <3>2, <3>4
    <2> QED
      BY <2>2, <2>3
  <1>5. ASSUME AnswerHealth \/ LoseHealth \/ OtherPage \/ Restart
        PROVE  /\ AbortsKnown(api)'
               /\ \A s \in Requests(api) : api'.req[s].aborted = api.req[s].aborted
    <2>1. api'.req = api.req
      BY <1>0, <1>5 DEF AnswerHealth, LoseHealth, OtherPage, Restart, PageType
    <2>2. Requests(api)' = Requests(api)
      BY <2>1 DEF Requests
    <2> QED
      BY <1>1, <2>1, <2>2
  <1> QED
    BY <1>2, <1>3, <1>4, <1>5 DEF ApiNext

\* What the invariant says of the sequence of effects.
LEMMA EffectsAre ==
    ASSUME InspectionInv
    PROVE  /\ Len(effects) \in Nat /\ DOMAIN effects = 1..Len(effects)
           /\ \A e \in DOMAIN effects : effects[e] \in EffectType
           /\ inspection.file \in Key \cup {NoKey} /\ inspection.ran \in Key \cup {NoKey}
           /\ inspection.state \in StateType /\ inspection.choices \in Nat
  BY LenProperties, ElementOfSeq DEF InspectionInv, InspectionTypeOK

\* A step that leaves the hook's state and the effects alone, but for the file rendered,
\* and aborts no request of the effect that runs.
LEMMA InspectionQuietly ==
    ASSUME InspectionInv, InspectionTypeOK', UNCHANGED effects,
           inspection'.ran = inspection.ran, inspection'.state = inspection.state,
           AbortsKnown(api)', Requests(api) \subseteq Requests(api)',
           \A e \in DOMAIN effects : effects[e].current =>
              /\ api'.req[effects[e].request].aborted = api.req[effects[e].request].aborted
              /\ effects[e].request \notin others'
              /\ \A k \in DOMAIN runs' : runs'[k].request # effects[e].request
    PROVE  InspectionInv'
  <1>1. RunningOK' /\ FoundByEffect'
    BY DEF InspectionInv, RunningOK, FoundByEffect
  <1>2. \A e \in DOMAIN effects' : effects'[e].request \in Requests(api)'
    BY DEF InspectionInv
  <1> QED
    BY <1>1, <1>2 DEF InspectionInv

\* The user chooses another file, or none.
LEMMA ChosenIs ==
    ASSUME InspectionInv, NEW file \in Key \cup {NoKey}, NEW n \in Nat,
           inspection' = [inspection EXCEPT !.file = file, !.choices = n], UNCHANGED effects
    PROVE  InspectionTypeOK' /\ inspection'.ran = inspection.ran /\ inspection'.state = inspection.state
  BY DEF InspectionInv, InspectionTypeOK

\* What becomes of the effects when they are cleaned up: none of them runs.
LEMMA CleanedUpEffectsAre ==
    ASSUME InspectionInv
    PROVE  /\ CleanedUpEffects \in Seq(EffectType) /\ Len(CleanedUpEffects) = Len(effects)
           /\ DOMAIN CleanedUpEffects = DOMAIN effects
           /\ \A e \in DOMAIN effects :
                 /\ ~CleanedUpEffects[e].current
                 /\ CleanedUpEffects[e].file = effects[e].file
                 /\ CleanedUpEffects[e].request = effects[e].request
  <1>1. \A e \in DOMAIN effects :
           LET x == [effects[e] EXCEPT !.current = FALSE] IN
           /\ x \in EffectType /\ ~x.current
           /\ x.file = effects[e].file /\ x.request = effects[e].request
    BY EffectsAre DEF EffectType
  <1>2. \A e \in DOMAIN effects : CleanedUpEffects[e] = [effects[e] EXCEPT !.current = FALSE]
    BY DEF CleanedUpEffects
  <1>3. DOMAIN CleanedUpEffects = DOMAIN effects
    BY DEF CleanedUpEffects
  <1>4. CleanedUpEffects \in [1..Len(effects) -> EffectType]
    BY <1>1, EffectsAre DEF CleanedUpEffects
  <1>5. CleanedUpEffects \in Seq(EffectType) /\ Len(CleanedUpEffects) = Len(effects)
    BY <1>4, EffectsAre, FunctionIsSeq
  <1> QED
    BY <1>1, <1>2, <1>3, <1>5

\* The effect of the file rendered last.
LEMMA EffectKeeps ==
    ASSUME InspectionInv, api \in PageType, Effect, UNCHANGED <<runs, others>>,
           RequestsKnown
    PROVE  InspectionInv'
  <1> DEFINE file == inspection.file
             page == CleanedUpPage(api)
             old == CleanedUpEffects
  <1>0. /\ Len(effects) \in Nat /\ DOMAIN effects = 1..Len(effects)
        /\ file \in Key \cup {NoKey} /\ AbortsKnown(api)
        /\ inspection \in [file : Key \cup {NoKey}, ran : Key \cup {NoKey}, state : StateType,
                           choices : Nat]
        /\ \A e \in DOMAIN effects : effects[e].request \in Requests(api)
    BY EffectsAre DEF InspectionInv, InspectionTypeOK
  <1>1. Heeds(api, page) /\ Requests(page) = Requests(api) /\ Len(page.req) = Len(api.req)
        /\ page \in PageType /\ AbortsKnown(page)
    BY <1>0, CleanedUpIs DEF Heeds
  <1>2. /\ old \in Seq(EffectType) /\ Len(old) = Len(effects) /\ DOMAIN old = DOMAIN effects
        /\ \A e \in DOMAIN effects : /\ ~old[e].current /\ old[e].file = effects[e].file
                                     /\ old[e].request = effects[e].request
    BY CleanedUpEffectsAre
  <1>3. CASE file \in Key \ LargeKey
    <2> DEFINE new == [file |-> file, request |-> Len(api.req) + 1, current |-> TRUE,
                       settled |-> FALSE]
               state == [sourceFile |-> file, value |-> "none", request |-> 0, loading |-> TRUE]
               b == Started(page, "plain")
    <2>1. /\ Page(b) /\ effects' = Append(old, new)
          /\ inspection' = [inspection EXCEPT !.ran = file, !.state = state]
      BY <1>3 DEF Effect
    <2>2. new \in EffectType /\ state \in StateType
      <3>1. Len(api.req) + 1 \in Nat
        BY RequestsOfPage
      <3> QED
        BY <1>0, <1>3, <3>1 DEF EffectType, StateType
    <2>3. new.current /\ ~new.settled /\ new.file = file /\ new.request = Len(api.req) + 1
          /\ state.request = 0
      OBVIOUS
    <2> HIDE DEF new, state, page, old
    <2>4. /\ Heeds(page, b)
          /\ Requests(b) = Requests(api) \cup {Len(api.req) + 1}
          /\ Len(api.req) + 1 \notin Requests(api)
      BY <1>1, StartedIs DEF AllKinds
    <2>5. api' = b
      BY <2>1 DEF Page
    <2> HIDE DEF b
    <2>6. /\ AbortsKnown(api)' /\ Requests(api)' = Requests(api) \cup {Len(api.req) + 1}
          /\ ~api'.req[Len(api.req) + 1].aborted
      <3>1. Requests(api)' = Requests(b)
        BY <2>5 DEF Requests
      <3>2. AbortsKnown(b) /\ ~b.req[Len(api.req) + 1].aborted
        BY <1>1, <2>4 DEF Heeds
      <3>3. AbortsKnown(api)'
        BY <2>5, <3>1, <3>2 DEF AbortsKnown
      <3> QED
        BY <2>4, <2>5, <3>1, <3>2, <3>3
    <2>7. /\ effects' \in Seq(EffectType) /\ Len(effects') = Len(effects) + 1
          /\ \A e \in DOMAIN effects : effects'[e] = old[e]
          /\ effects'[Len(effects) + 1] = new
      BY <1>0, <1>2, <2>1, <2>2, AppendProperties
    <2>8. DOMAIN effects' = 1..Len(effects) + 1
      BY <2>7, LenProperties
    <2>9. \A e \in DOMAIN effects' : e \in DOMAIN effects \/ e = Len(effects) + 1
      BY <1>0, <2>8
    <2>10. /\ InspectionTypeOK' /\ inspection'.ran = file /\ inspection'.state = state
      BY <1>0, <2>1, <2>2, <2>7 DEF InspectionTypeOK
    <2>11. \A e \in DOMAIN effects' : effects'[e].request \in Requests(api)'
      BY <1>0, <1>2, <2>3, <2>6, <2>7, <2>9
    <2>12. FoundByEffect'
      BY <2>3, <2>10 DEF FoundByEffect
    <2>13. /\ Len(api.req) + 1 \notin others
           /\ \A k \in DOMAIN runs : runs[k].request # Len(api.req) + 1
      BY <2>4 DEF RequestsKnown
    <2>14. ASSUME NEW e \in DOMAIN effects', effects'[e].current
           PROVE  e = Len(effects) + 1 /\ effects'[e] = new
      BY <1>2, <2>7, <2>9, <2>14
    <2>15. RunningOK'
      BY <2>3, <2>6, <2>10, <2>13, <2>14 DEF RunningOK
    <2> QED
      BY <2>6, <2>10, <2>11, <2>12, <2>15 DEF InspectionInv
  <1>4. CASE file \notin Key \ LargeKey
    <2>1. Page(page) /\ effects' = old
      BY <1>4 DEF Effect
    <2>2. PICK state \in StateType :
             /\ inspection' = [inspection EXCEPT !.ran = file, !.state = state]
             /\ state.request = 0
      <3>1. INITIAL_STATE \in StateType /\ INITIAL_STATE.request = 0
        BY DEF INITIAL_STATE, StateType
      <3> DEFINE large == [sourceFile |-> file, value |-> "error", request |-> 0, loading |-> FALSE]
      <3>2. large \in StateType /\ large.request = 0
        BY <1>0 DEF StateType
      <3>3. inspection' = [inspection EXCEPT !.ran = file,
                             !.state = IF file = NoKey THEN INITIAL_STATE ELSE large]
        BY <1>4 DEF Effect
      <3> HIDE DEF large
      <3> QED
        BY <3>1, <3>2, <3>3
    <2>3. api' = page
      BY <2>1 DEF Page
    <2> HIDE DEF page, old
    <2>4. AbortsKnown(api)' /\ Requests(api)' = Requests(api)
      BY <1>1, <2>3 DEF AbortsKnown, Requests
    <2>5. InspectionTypeOK' /\ inspection'.state = state
      BY <1>0, <1>2, <2>1, <2>2 DEF InspectionTypeOK
    <2>6. RunningOK' /\ FoundByEffect'
      BY <1>2, <2>1, <2>2, <2>5 DEF RunningOK, FoundByEffect
    <2> QED
      BY <1>0, <1>2, <2>1, <2>4, <2>5, <2>6 DEF InspectionInv
  <1> QED
    BY <1>3, <1>4

\* An inspection ends: the state is that of the effect that runs, or as it was.
LEMMA SettleKeeps ==
    ASSUME InspectionInv, NEW e \in DOMAIN effects, Settle(e), UNCHANGED <<runs, others>>
    PROVE  InspectionInv'
  <1> DEFINE request == effects[e].request
             value == IF api.req[request].outcome = "ok" THEN "result" ELSE "error"
             state == [sourceFile |-> effects[e].file, request |-> request, loading |-> FALSE,
                       value |-> value]
             settled == [effects[e] EXCEPT !.settled = TRUE]
  <1>0. /\ effects \in Seq(EffectType) /\ effects[e] \in EffectType
        /\ \A d \in DOMAIN effects : effects[d] \in EffectType
        /\ request \in Requests(api) /\ AbortsKnown(api)
        /\ inspection \in [file : Key \cup {NoKey}, ran : Key \cup {NoKey}, state : StateType,
                           choices : Nat]
    BY EffectsAre DEF InspectionInv, InspectionTypeOK
  <1>1. UNCHANGED apiVars /\ api' = api
    BY DEF Settle, apiVars
  <1>2. /\ settled \in EffectType /\ settled.file = effects[e].file
        /\ settled.request = request /\ settled.current = effects[e].current
    BY <1>0 DEF EffectType
  <1>3. effects' = [effects EXCEPT ![e] = settled]
    BY DEF Settle
  <1> HIDE DEF settled
  <1>4. /\ effects' \in Seq(EffectType) /\ DOMAIN effects' = DOMAIN effects
        /\ \A d \in DOMAIN effects : effects'[d] = IF d = e THEN settled ELSE effects[d]
    BY <1>0, <1>2, <1>3, ExceptSeq
  <1>5. \A d \in DOMAIN effects :
           /\ effects'[d].file = effects[d].file /\ effects'[d].request = effects[d].request
           /\ effects'[d].current = effects[d].current
           /\ effects'[d].settled => d = e \/ effects[d].settled
    BY <1>2, <1>4
  <1>6. state \in StateType
    BY <1>0 DEF StateType, EffectType
  <1>7. /\ state.sourceFile = effects[e].file /\ state.request = request /\ ~state.loading
    OBVIOUS
  <1>8. \/ inspection' = [inspection EXCEPT !.state = state] /\ effects[e].current
        \/ inspection' = inspection /\ ~effects[e].current
    <2>1. effects[e].current => ~api.req[request].aborted /\ api.req[request].outcome # "aborted"
      BY <1>0 DEF InspectionInv, RunningOK, AbortsKnown
    <2> QED
      BY <2>1 DEF Settle, Heeded
  <1> HIDE DEF state, request
  <1>9. /\ inspection' \in [file : Key \cup {NoKey}, ran : Key \cup {NoKey}, state : StateType,
                            choices : Nat]
        /\ inspection'.ran = inspection.ran
        /\ \/ inspection'.state = state /\ effects[e].current
           \/ inspection'.state = inspection.state /\ ~effects[e].current
    BY <1>0, <1>6, <1>8
  <1>10. InspectionTypeOK'
    BY <1>4, <1>9 DEF InspectionTypeOK
  <1>11. FoundByEffect'
    <2>1. CASE inspection'.state = state
      <3>1. effects'[e].file = inspection'.state.sourceFile
            /\ effects'[e].request = inspection'.state.request
        BY <1>5, <1>7, <2>1 DEF request
      <3> QED
        BY <1>4, <3>1 DEF FoundByEffect
    <2>2. CASE inspection'.state = inspection.state
      BY <1>4, <1>5, <2>2 DEF FoundByEffect, InspectionInv
    <2> QED
      BY <1>9, <2>1, <2>2
  <1>12. RunningOK'
    <2> SUFFICES ASSUME NEW d \in DOMAIN effects, effects[d].current
                 PROVE  /\ effects[d].file = inspection'.ran
                        /\ effects[d].request \notin others
                        /\ \A k \in DOMAIN runs : runs[k].request # effects[d].request
                        /\ ~api.req[effects[d].request].aborted
                        /\ effects'[d].settled => /\ inspection'.state.sourceFile = effects[d].file
                                                  /\ ~inspection'.state.loading
      BY <1>1, <1>4, <1>5 DEF RunningOK
    <2>1. /\ effects[d].file = inspection.ran
          /\ effects[d].request \notin others
          /\ \A k \in DOMAIN runs : runs[k].request # effects[d].request
          /\ ~api.req[effects[d].request].aborted
          /\ effects[d].settled => /\ inspection.state.sourceFile = effects[d].file
                                   /\ ~inspection.state.loading
      BY DEF InspectionInv, RunningOK
    <2>2. effects[e].current => effects[e].file = inspection.ran
      BY DEF InspectionInv, RunningOK
    <2> QED
      BY <1>5, <1>7, <1>9, <2>1, <2>2
  <1>13. /\ AbortsKnown(api)'
         /\ \A d \in DOMAIN effects' : effects'[d].request \in Requests(api)'
    BY <1>1, <1>4, <1>5 DEF InspectionInv, AbortsKnown, Requests
  <1> QED
    BY <1>10, <1>11, <1>12, <1>13 DEF InspectionInv

\* A step that aborts no request of the effect that runs and makes none of its requests
\* one of a run or of another view.
LEMMA InspectionUntouched ==
    ASSUME InspectionInv, RequestsKnown, UNCHANGED inspectionVars,
           AbortsKnown(api)', Requests(api) \subseteq Requests(api)',
           \A e \in DOMAIN effects : effects[e].current =>
              api'.req[effects[e].request].aborted = api.req[effects[e].request].aborted,
           \A r \in others' : r \in others \/ r \notin Requests(api),
           \A k \in DOMAIN runs' :
              \/ k \in DOMAIN runs /\ runs'[k].request = runs[k].request
              \/ runs'[k].request \notin Requests(api)
    PROVE  InspectionInv'
  <1>1. /\ effects' = effects /\ inspection' = inspection
    BY DEF inspectionVars
  <1>2. InspectionTypeOK'
    BY <1>1 DEF InspectionInv, InspectionTypeOK
  <1>3. ASSUME NEW e \in DOMAIN effects, effects[e].current
        PROVE  effects[e].request \notin others' /\ \A k \in DOMAIN runs' : runs'[k].request # effects[e].request
    BY <1>3 DEF InspectionInv, RunningOK
  <1> QED
    BY <1>1, <1>2, <1>3, InspectionQuietly

\* Every step of the view keeps the invariant.
LEMMA InspectionStep ==
    ASSUME ViewInv, InspectionInv, ViewNext
    PROVE  InspectionInv'
  <1>0. /\ BatchInv /\ BatchTypeOK /\ RequestsKnown /\ ApiInv /\ api \in PageType
        /\ Len(api.req) \in Nat /\ Requests(api) = 1..Len(api.req)
        /\ BatchKinds \subseteq AllKinds /\ Kinds \subseteq AllKinds
        /\ AbortsKnown(api) /\ \A e \in DOMAIN effects : effects[e].request \in Requests(api)
    BY BatchAssumption, ApiAssumption, RequestsOfPage
       DEF ViewInv, BatchInv, ApiInv, ApiTypeOK, AllKinds, InspectionInv
  <1>1. Requests(api) \subseteq Requests(api)'
    BY <1>0, ViewStepsApi, ApiGrows
  <1>2. ASSUME NEW kind \in AllKinds, Page(Started(api, kind))
        PROVE  /\ AbortsKnown(api)' /\ Len(api.req) + 1 \notin Requests(api)
               /\ \A r \in Requests(api) : api'.req[r] = api.req[r]
    <2> DEFINE b == Started(api, kind)
    <2>1. /\ Heeds(api, b) /\ Len(api.req) + 1 \notin Requests(api)
          /\ \A r \in Requests(api) : b.req[r] = api.req[r]
      BY <1>0, StartedIs
    <2>2. api' = b
      BY <1>2 DEF Page
    <2> HIDE DEF b
    <2>3. AbortsKnown(api)'
      BY <1>0, <2>1, <2>2 DEF Heeds, AbortsKnown, Requests
    <2> QED
      BY <2>1, <2>2, <2>3
  <1>3. ASSUME NEW r \in Requests(api), Page(Aborted(api, r))
        PROVE  /\ AbortsKnown(api)'
               /\ \A s \in Requests(api) : s # r => api'.req[s] = api.req[s]
    <2> DEFINE b == Aborted(api, r)
    <2>1. Heeds(api, b) /\ \A s \in Requests(api) : s # r => b.req[s] = api.req[s]
      BY <1>0, AbortedIs
    <2>2. api' = b
      BY <1>3 DEF Page
    <2> HIDE DEF b
    <2>3. AbortsKnown(api)'
      BY <1>0, <2>1, <2>2 DEF Heeds, AbortsKnown, Requests
    <2> QED
      BY <2>1, <2>2, <2>3
  <1>4. CASE ApiNext /\ UNCHANGED <<batchVars, inspectionVars, others>>
    <2>1. /\ AbortsKnown(api)'
          /\ \A r \in Requests(api) : api'.req[r].aborted = api.req[r].aborted
      BY <1>0, <1>4, ApiHeeds
    <2>2. UNCHANGED inspectionVars /\ runs' = runs /\ others' = others
      BY <1>4 DEF batchVars
    <2> QED
      BY <1>0, <1>1, <2>1, <2>2, InspectionUntouched
  <1>5. ASSUME NEW file \in Key \cup {NoKey}, NEW n \in Nat,
               inspection' = [inspection EXCEPT !.file = file, !.choices = n],
               UNCHANGED <<effects, apiVars, runs, others>>
        PROVE  InspectionInv'
    <2>1. api' = api /\ effects' = effects /\ runs' = runs /\ others' = others
      BY <1>5 DEF apiVars
    <2>2. AbortsKnown(api)'
      BY <1>0, <2>1 DEF AbortsKnown, Requests
    <2>3. InspectionTypeOK' /\ inspection'.ran = inspection.ran /\ inspection'.state = inspection.state
      BY <1>5, ChosenIs
    <2>4. \A e \in DOMAIN effects : effects[e].current =>
             /\ api'.req[effects[e].request].aborted = api.req[effects[e].request].aborted
             /\ effects[e].request \notin others'
             /\ \A k \in DOMAIN runs' : runs'[k].request # effects[e].request
      BY <2>1 DEF InspectionInv, RunningOK
    <2> QED
      BY <1>1, <2>1, <2>2, <2>3, <2>4, InspectionQuietly
  <1>6. CASE ChoosesKey
    <2>1. PICK file \in Key \cup {NoKey} : Choose(file)
      BY <1>6 DEF ChoosesKey
    <2>2. /\ inspection' = [inspection EXCEPT !.file = file, !.choices = inspection.choices + 1]
          /\ UNCHANGED <<effects, apiVars, runs, others>>
      BY <1>6, <2>1 DEF ChoosesKey, Choose, batchVars
    <2>3. inspection.choices + 1 \in Nat
      BY EffectsAre
    <2> QED
      BY <1>5, <2>2, <2>3
  <1>7. CASE clearBatch
    <2>1. inspection' = [inspection EXCEPT !.file = NoKey] /\ UNCHANGED <<effects, apiVars, runs, others>>
      BY <1>7 DEF clearBatch, clear
    <2>2. inspection \in [file : Key \cup {NoKey}, ran : Key \cup {NoKey}, state : StateType,
                          choices : Nat]
      BY DEF InspectionInv, InspectionTypeOK
    <2>3. [inspection EXCEPT !.file = NoKey]
             = [inspection EXCEPT !.file = NoKey, !.choices = inspection.choices]
      BY <2>2
    <2>4. inspection.choices \in Nat
      BY EffectsAre
    <2> QED
      BY <1>5, <2>1, <2>3, <2>4
  <1>8. CASE Inspects
    <2>1. UNCHANGED <<runs, others>>
      BY <1>8 DEF Inspects, batchVars
    <2> QED
      BY <1>0, <1>8, <2>1, EffectKeeps, SettleKeeps DEF Inspects
  <1>9. CASE submit
    <2>1. PICK kind \in BatchKinds : start(kind)
      BY <1>9 DEF submit
    <2>2. /\ Len(runs') = Len(runs) + 1 /\ BatchTypeOK'
          /\ \A k \in DOMAIN runs : runs'[k] = runs[k]
          /\ runs'[Len(runs) + 1].request = Len(api.req) + 1
      BY <1>0, <2>1, StartKeeps DEF BatchInv
    <2>3. \A k \in DOMAIN runs' : k \in DOMAIN runs \/ k = Len(runs) + 1
      <3>1. DOMAIN runs' = 1..Len(runs) + 1
        BY <2>2, LenProperties DEF BatchTypeOK
      <3> QED
        BY <1>0, <3>1, RunsAre
    <2>4. Page(Started(api, kind)) /\ UNCHANGED inspectionVars /\ others' = others
      BY <1>9, <2>1 DEF submit, start
    <2>5. /\ AbortsKnown(api)' /\ Len(api.req) + 1 \notin Requests(api)
          /\ \A r \in Requests(api) : api'.req[r] = api.req[r]
      BY <1>0, <1>2, <2>4
    <2> QED
      BY <1>0, <1>1, <2>2, <2>3, <2>4, <2>5, InspectionUntouched
  <1>10. CASE Encrypts
    <2>0. UNCHANGED inspectionVars /\ others' = others
      BY <1>10 DEF Encrypts
    <2>1. CASE cancel
      <3>1. /\ DOMAIN runs' = DOMAIN runs
            /\ \A k \in DOMAIN runs : runs'[k].request = runs[k].request
        <4>1. runs' = CancelledRuns
          BY <2>1 DEF cancel
        <4> QED
          BY <1>0, <4>1, CancelledRunsKeep, CancelledRunIs, RunsAre DEF CancelledRuns
      <3>2. batch.active # 0 /\ batch.active \in DOMAIN runs
        BY <1>0, <2>1, RunsAre DEF cancel
      <3> DEFINE r == runs[batch.active].request
      <3>3. r \in Requests(api) /\ Page(Aborted(api, r))
        BY <1>0, <2>1, <3>2 DEF RequestsKnown, cancel, AbortedBatch
      <3>4. \A e \in DOMAIN effects : effects[e].current => effects[e].request # r
        BY <3>2 DEF InspectionInv, RunningOK
      <3> HIDE DEF r
      <3>5. /\ AbortsKnown(api)'
            /\ \A s \in Requests(api) : s # r => api'.req[s] = api.req[s]
        BY <1>3, <3>3
      <3> QED
        BY <1>0, <1>1, <2>0, <3>1, <3>4, <3>5, InspectionUntouched
    <2>2. ASSUME NEW k \in DOMAIN runs, processBatch(k) PROVE InspectionInv'
      <3>0. ~runs[k].ended /\ runs[k].kind \in AllKinds
        BY <1>0, <2>2, RunsAre DEF processBatch, RunType
      <3>1. CASE Breaks(k)
        <4>1. DOMAIN runs' = DOMAIN runs /\ \A j \in DOMAIN runs : runs'[j].request = runs[j].request
          BY <1>0, <3>0, <3>1, BreaksKeeps
        <4>2. api' = api
          BY <3>1 DEF Breaks, apiVars
        <4>3. AbortsKnown(api)'
          BY <1>0, <4>2 DEF AbortsKnown, Requests
        <4> QED
          BY <1>0, <1>1, <2>0, <4>1, <4>2, <4>3, InspectionUntouched
      <3>2. CASE GoesOn(k)
        <4>1. /\ DOMAIN runs' = DOMAIN runs
              /\ \A j \in DOMAIN runs :
                    \/ runs'[j].request = runs[j].request
                    \/ runs'[j].request = Len(api.req) + 1
          BY <1>0, <3>0, <3>2, GoesOnKeeps
        <4>2. Len(api.req) + 1 \notin Requests(api)
          BY <1>0
        <4>3. /\ AbortsKnown(api)'
              /\ \A r \in Requests(api) : api'.req[r] = api.req[r]
          <5>1. CASE UNCHANGED apiVars
            <6>1. api' = api
              BY <5>1 DEF apiVars
            <6> QED
              BY <1>0, <6>1 DEF AbortsKnown, Requests
          <5>2. CASE Page(Started(api, runs[k].kind))
            BY <1>2, <3>0, <5>2
          <5> QED
            BY <3>2, <5>1, <5>2 DEF GoesOn
        <4> QED
          BY <1>0, <1>1, <2>0, <4>1, <4>2, <4>3, InspectionUntouched
      <3> QED
        BY <2>2, <3>1, <3>2 DEF processBatch
    <2> QED
      BY <1>10, <2>1, <2>2 DEF Encrypts
  <1>11. CASE Leave
    <2> DEFINE a == AbortedBatch(api)
               b == CleanedUpPage(a)
    <2>1. /\ api' = b /\ effects' = CleanedUpEffects /\ inspection' = inspection
      BY <1>11 DEF Leave, unmount, Page
    <2>2. a \in PageType /\ Requests(a) = Requests(api) /\ AbortsKnown(a)
      <3>1. AbortsOnly(api, a)
        BY AbortedBatchAborts
      <3>2. a \in PageType /\ Requests(a) = Requests(api)
        BY <1>0, <3>1, RequestsOfPage DEF AbortsOnly
      <3>3. a = api \/ \E r \in Requests(api) : a = Aborted(api, r)
        <4>1. batch.active # 0 => runs[batch.active].request \in Requests(api)
          BY <1>0, RunsAre DEF RequestsKnown
        <4> QED
          BY <4>1 DEF AbortedBatch
      <3> HIDE DEF a
      <3> QED
        BY <1>0, <3>2, <3>3, AbortedIs DEF Heeds
    <2> HIDE DEF a
    <2>3. AbortsKnown(b) /\ Requests(b) = Requests(api)
      BY <2>2, CleanedUpIs DEF Heeds
    <2> HIDE DEF b
    <2>4. AbortsKnown(api)' /\ Requests(api)' = Requests(api)
      BY <2>1, <2>3 DEF AbortsKnown, Requests
    <2>5. /\ effects' \in Seq(EffectType) /\ DOMAIN effects' = DOMAIN effects
          /\ \A e \in DOMAIN effects : /\ ~(effects'[e].current)
                                       /\ effects'[e].file = effects[e].file
                                       /\ effects'[e].request = effects[e].request
      BY <2>1, CleanedUpEffectsAre
    <2>6. InspectionTypeOK' /\ RunningOK' /\ FoundByEffect'
      BY <2>1, <2>5 DEF InspectionInv, InspectionTypeOK, RunningOK, FoundByEffect
    <2> QED
      BY <1>0, <2>4, <2>5, <2>6 DEF InspectionInv
  <1>12. CASE Other
    <2>0. UNCHANGED inspectionVars /\ runs' = runs
      BY <1>12 DEF Other, batchVars
    <2>1. ASSUME NEW kind \in Kinds, Page(Started(api, kind)), others' = others \cup {Len(api.req) + 1}
          PROVE  InspectionInv'
      <3>1. /\ AbortsKnown(api)' /\ Len(api.req) + 1 \notin Requests(api)
            /\ \A r \in Requests(api) : api'.req[r] = api.req[r]
        BY <1>0, <1>2, <2>1
      <3> QED
        BY <1>0, <1>1, <2>0, <2>1, <3>1, InspectionUntouched
    <2>2. ASSUME NEW r \in others, Page(Aborted(api, r)), UNCHANGED others PROVE InspectionInv'
      <3>1. r \in Requests(api)
        BY <1>0 DEF RequestsKnown
      <3>2. /\ AbortsKnown(api)'
            /\ \A s \in Requests(api) : s # r => api'.req[s] = api.req[s]
        BY <1>3, <2>2, <3>1
      <3>3. \A e \in DOMAIN effects : effects[e].current => effects[e].request # r
        BY DEF InspectionInv, RunningOK
      <3> QED
        BY <1>0, <1>1, <2>0, <2>2, <3>2, <3>3, InspectionUntouched
    <2> QED
      BY <1>12, <2>1, <2>2 DEF Other
  <1> QED
    BY <1>4, <1>6, <1>7, <1>8, <1>9, <1>10, <1>11, <1>12 DEF ViewNext

\* It holds at first, when no key is chosen.
LEMMA InspectionStarts == ViewInit => InspectionInv
  <1> SUFFICES ASSUME ViewInit PROVE InspectionInv
    OBVIOUS
  <1>1. /\ inspection = [file |-> NoKey, ran |-> NoKey, state |-> INITIAL_STATE, choices |-> 0]
        /\ effects = <<>> /\ api.req = <<>>
    BY DEF ViewInit, InspectionInit, ApiInit
  <1>2. effects \in Seq(EffectType) /\ DOMAIN effects = {} /\ Requests(api) = {}
    <2>1. <<>> \in Seq(EffectType) /\ DOMAIN <<>> = {}
      BY EmptySeq
    <2> QED
      BY <1>1, <2>1 DEF Requests
  <1>3. INITIAL_STATE \in StateType /\ INITIAL_STATE.request = 0
    BY DEF INITIAL_STATE, StateType
  <1>4. InspectionTypeOK /\ inspection.state = INITIAL_STATE
    BY <1>1, <1>2, <1>3 DEF InspectionTypeOK
  <1> QED
    BY <1>2, <1>3, <1>4 DEF InspectionInv, AbortsKnown, RunningOK, FoundByEffect

\* What is shown is about the file chosen now.
LEMMA InspectionInvMeans == InspectionInv => InspectionShown
  <1> SUFFICES ASSUME InspectionInv PROVE InspectionShown
    OBVIOUS
  <1>1. CASE inspection.state.sourceFile = inspection.file
    <2>1. Shown = inspection.state
      BY <1>1 DEF Shown
    <2>2. ASSUME NEW e \in DOMAIN effects, effects[e].current, effects[e].settled
          PROVE  ~inspection.state.loading
      BY <2>2 DEF InspectionInv, RunningOK
    <2> QED
      BY <1>1, <2>1, <2>2 DEF InspectionInv, FoundByEffect, InspectionShown
  <1>2. CASE inspection.state.sourceFile # inspection.file
    <2>1. Shown.sourceFile = inspection.file /\ Shown.request = 0
      BY <1>2 DEF Shown
    <2>2. ASSUME NEW e \in DOMAIN effects, effects[e].current, effects[e].settled
          PROVE  inspection.file # inspection.ran
      BY <1>2, <2>2 DEF InspectionInv, RunningOK
    <2> QED
      BY <2>1, <2>2 DEF InspectionShown
  <1> QED
    BY <1>1, <1>2

\* The view shows what was found about the file chosen now, and an inspection that ended
\* is not shown as loading, whichever inspections, batches, restarts and lost connections
\* come between (useKeyInspection.ts:48-73).
THEOREM ViewInspectionShown == ViewSpec => []InspectionShown
  <1>1. ViewInv /\ InspectionInv /\ [ViewNext]_viewVars => InspectionInv'
    <2> SUFFICES ASSUME ViewInv, InspectionInv, [ViewNext]_viewVars PROVE InspectionInv'
      OBVIOUS
    <2>1. CASE UNCHANGED viewVars
      <3>1. api' = api /\ UNCHANGED inspectionVars /\ runs' = runs /\ others' = others
        BY <2>1 DEF viewVars, apiVars, batchVars
      <3>2. AbortsKnown(api)' /\ Requests(api) \subseteq Requests(api)'
        BY <3>1 DEF InspectionInv, AbortsKnown, Requests
      <3> QED
        BY <3>1, <3>2, InspectionUntouched DEF ViewInv
    <2> QED
      BY <2>1, InspectionStep
  <1>2. ViewSpec => []InspectionInv
    BY <1>1, InspectionStarts, ViewInvariant, PTL DEF ViewSpec
  <1> QED
    BY <1>2, InspectionInvMeans, PTL
=============================================================================
