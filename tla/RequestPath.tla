----------------------------- MODULE RequestPath -----------------------------
(***************************************************************************)
(* The way of requests through one worker: the service of each connection  *)
(* (nailserve) names the peer, the router (nailroutes) leads past or       *)
(* through its layers, the trace layer (nailtrace) opens a span for the    *)
(* request and enters it for every poll of what it wraps, first of the     *)
(* future that answers and then of the body, and a page opens a span of    *)
(* its own that its stream keeps.                                          *)
(*                                                                         *)
(* A worker's runtime is one thread and polls one future at a time; the    *)
(* spans entered are a stack of that thread.  A span is open while there   *)
(* is a handle to it.  What the rate limiter decides, and when, is         *)
(* NailRater's; what a page says is MarkovStream's.                        *)
(***************************************************************************)
EXTENDS PeerIdentity

CONSTANTS
  Requests,   \* the requests that may arrive, each over a connection of its own
  Arrivals,   \* what each may be: who sent it, by which proxies, for what
  Proxies,    \* the addresses of the proxies on the way, in order
  Nobody,     \* no request
  NoId,       \* no X-Request-Id header
  OpaqueId    \* one that is not visible ASCII

ASSUME AbsentAssumption ==
  Nobody \notin Requests /\ \A r \in Requests : Nobody \notin Arrivals[r]

\* No UUID is a missing header.
ASSUME IdAssumption == NoId \notin {"uuid"} \X Nat

\* Addresses are read as what they are: no address is a separator or a
\* keyword, and no line of such symbols is unreadable.
Addresses == Range(Proxies) \cup UNION {{a.client : a \in Arrivals[r]} : r \in Requests}
ByEq == "by="
Colon == ":"
Marks == {Comma, Semicolon, Space, Quote, ForEq, ByEq}

ASSUME AddressAssumption ==
  /\ Proxies \in Seq(Addresses) /\ Addresses \cap (Marks \cup {Colon}) = {}
  /\ Opaque \notin Seq(Addresses \cup Marks)

\* What a proxy may do to the headers, as Relay says.
Customs == {"xff", "xff line", "xff and real", "real", "forwarded", "forwarded line",
            "blank", "opaque", "silent"}

\* A request has come past no more proxies than there are.
ASSUME WayAssumption ==
  \A r \in Requests : \A a \in Arrivals[r] :
    a.way \in Seq(Customs) /\ Len(a.way) <= Len(Proxies)

\* What goes through the layers.
Asked(a) == a.kind \in {"page", "unmatched"}

VARIABLES
  tracing,  \* whether telemetry has traces or logs
  pc,       \* where each request stands
  arrival,  \* what it is, one of its Arrivals
  peer,     \* the IdentifiedPeer extension
  running,  \* the request that is being polled
  stack,    \* the spans the thread has entered, innermost last
  handles,  \* the handles to spans: the span and who holds it
  noted,    \* the request id in InspectState
  marked,   \* the request id the span has recorded
  response, \* the X-Request-Id header of the response
  uuids     \* the UUIDs that have been made

identity == <<arrival, peer>>
vars == <<tracing, pc, identity, running, stack, handles, noted, marked, response,
          uuids>>

InPoll == {"inner", "page", "answered", "frame"}
Places == {"new", "oneshot", "waiting", "body", "done"} \cup InPoll

RequestSpan(r) == [name |-> "HTTP request", of |-> r]
PageSpan(r)    == [name |-> "page", of |-> r]
Spans == {RequestSpan(r) : r \in Requests} \cup {PageSpan(r) : r \in Requests}
Handle(span, holder) == [span |-> span, holder |-> holder]
Open(span) == \E h \in handles : h.span = span

\* Whether a request is under the trace layer.
Traced(r) == tracing /\ arrival[r] # Nobody /\ Asked(arrival[r])

TypeOK ==
  /\ pc \in [Requests -> Places]
  /\ \A r \in Requests : pc[r] # "new" => arrival[r] \in Arrivals[r]
  /\ running \in Requests \cup {Nobody}
  /\ \A r \in Requests : pc[r] \in InPoll <=> r = running
  /\ stack \in Seq(Spans)
  /\ handles \subseteq [span : Spans,
                         holder : {"InspectState", "InspectBody", "handler", "stream"}]

Init ==
  /\ tracing \in BOOLEAN
  /\ pc = [r \in Requests |-> "new"]
  /\ arrival = [r \in Requests |-> Nobody]
  /\ peer = [r \in Requests |-> <<>>]
  /\ running = Nobody
  /\ stack = <<>>
  /\ handles = {}
  /\ noted = [r \in Requests |-> NoId]
  /\ marked = [r \in Requests |-> NoId]
  /\ response = [r \in Requests |-> NoId]
  /\ uuids = 0

-----------------------------------------------------------------------------
(***************************************************************************)
(* What proxies do to the headers that name a client: each adds the        *)
(* address it was called from, by its custom.                              *)
(***************************************************************************)
XffCustoms       == {"xff", "xff line", "xff and real"}
RealCustoms      == {"real", "xff and real"}
ForwardedCustoms == {"forwarded", "forwarded line"}

NoHeaders == [xff |-> <<>>, real |-> <<>>, forwarded |-> <<>>]

\* A name at the end of the last line of a header.
Extend(lines, name) ==
  IF lines = <<>> THEN <<name>>
  ELSE IF Last(lines) = Opaque THEN lines
  ELSE Front(lines) \o << Last(lines) \o <<Comma, Space>> \o name >>

Relay(headers, from, custom) ==
  [xff |-> CASE custom \in {"xff", "xff and real"} -> Extend(headers.xff, <<from>>)
             [] custom = "xff line" -> Append(headers.xff, <<from>>)
             [] custom = "blank"    -> << <<Space>> >>
             [] custom = "opaque"   -> <<Opaque>>
             [] OTHER               -> headers.xff,
   real |-> IF custom \in {"real", "xff and real"} THEN << <<from>> >>
            ELSE headers.real,
   forwarded |-> CASE custom = "forwarded" -> Extend(headers.forwarded, <<ForEq, from>>)
                   [] custom = "forwarded line" ->
                        Append(headers.forwarded, <<ByEq, Semicolon, Space, ForEq, Quote, from, Quote>>)
                   [] OTHER -> headers.forwarded]

Nodes(a) == <<a.client>> \o SubSeq(Proxies, 1, Len(a.way))

HeadersOf(a) ==
  LET after[n \in 0 .. Len(a.way)] ==
        IF n = 0 THEN NoHeaders ELSE Relay(after[n - 1], Nodes(a)[n], a.way[n])
  IN  after[Len(a.way)]

\* SocketAddr's text: the address that calls, and the port, which is the
\* connection's own.
SocketOf(r, a) == <<Last(Nodes(a)), Colon, r>>

-----------------------------------------------------------------------------
(***************************************************************************)
(* The service and the router.                                             *)
(***************************************************************************)

\* hyper calls the service: the peer is extracted from this request's headers
\* and put into its extensions, and a future made.
Arrive(r) ==
  /\ pc[r] = "new" /\ running = Nobody
  /\ pc' = [pc EXCEPT ![r] = "oneshot"]
  /\ \E a \in Arrivals[r] :
       /\ arrival' = [arrival EXCEPT ![r] = a]
       /\ peer' = [peer EXCEPT ![r] = Extract(HeadersOf(a), SocketOf(r, a))]
  /\ UNCHANGED <<tracing, running, stack, handles, noted, marked, response, uuids>>

\* /health and /favicon.ico are routed past all layers.
RouteAround(r) ==
  /\ pc[r] = "oneshot" /\ running = Nobody /\ ~ Asked(arrival[r])
  /\ pc' = [pc EXCEPT ![r] = "body"]
  /\ UNCHANGED <<tracing, identity, running, stack, handles, noted, marked, response, uuids>>

\* Without telemetry the first layer is the rate limiter's.
RouteUntraced(r) ==
  /\ pc[r] = "oneshot" /\ running = Nobody /\ Asked(arrival[r]) /\ ~ tracing
  /\ pc' = [pc EXCEPT ![r] = "inner"]
  /\ running' = r
  /\ UNCHANGED <<tracing, identity, stack, handles, noted, marked, response, uuids>>

\* Slip: the span records the id of the client only.
TraceGivenId(r) ==
  /\ pc[r] = "oneshot" /\ running = Nobody /\ Traced(r)
  /\ LET given == arrival[r].id
         id    == IF given = NoId THEN <<"uuid", uuids>> ELSE given
     IN  /\ uuids' = IF given = NoId THEN uuids + 1 ELSE uuids
         /\ noted' = [noted EXCEPT ![r] = id]
         /\ marked' = [marked EXCEPT ![r] = IF given = OpaqueId THEN NoId ELSE given]
  /\ handles' = handles \cup {Handle(RequestSpan(r), "InspectState")}
  /\ stack' = Append(stack, RequestSpan(r))
  /\ pc' = [pc EXCEPT ![r] = "inner"]
  /\ running' = r
  /\ UNCHANGED <<tracing, identity, response>>

\* trace_connection_layer up to its await: the id is the client's or a new
\* UUID, and the span records it if it can be read.  The first poll of
\* InspectHttpResponse follows at once.
Trace(r) ==
  /\ pc[r] = "oneshot" /\ running = Nobody /\ Traced(r)
  /\ LET given == arrival[r].id
         id    == IF given = NoId THEN <<"uuid", uuids>> ELSE given
     IN  /\ uuids' = IF given = NoId THEN uuids + 1 ELSE uuids
         /\ noted' = [noted EXCEPT ![r] = id]
         /\ marked' = [marked EXCEPT ![r] = IF id = OpaqueId THEN NoId ELSE id]
  /\ handles' = handles \cup {Handle(RequestSpan(r), "InspectState")}
  /\ stack' = Append(stack, RequestSpan(r))
  /\ pc' = [pc EXCEPT ![r] = "inner"]
  /\ running' = r
  /\ UNCHANGED <<tracing, identity, response>>

-----------------------------------------------------------------------------
(***************************************************************************)
(* The poll of the answer.                                                 *)
(***************************************************************************)

\* A woken future is polled again, in its span.
Resume(r) ==
  /\ pc[r] = "waiting" /\ running = Nobody
  /\ pc' = [pc EXCEPT ![r] = "inner"]
  /\ running' = r
  /\ stack' = IF Traced(r) THEN Append(stack, RequestSpan(r)) ELSE stack
  /\ UNCHANGED <<tracing, identity, handles, noted, marked, response, uuids>>

\* Slip: the span is entered by a guard that is held across the await.
InnerPendingEntered(r) ==
  /\ pc[r] = "inner"
  /\ pc' = [pc EXCEPT ![r] = "waiting"]
  /\ running' = Nobody
  /\ UNCHANGED <<tracing, identity, stack, handles, noted, marked, response, uuids>>

\* The rate limiter waits for a lock, a prune or a delay.
InnerPending(r) ==
  /\ pc[r] = "inner"
  /\ pc' = [pc EXCEPT ![r] = "waiting"]
  /\ running' = Nobody
  /\ stack' = IF Traced(r) THEN Front(stack) ELSE stack
  /\ UNCHANGED <<tracing, identity, handles, noted, marked, response, uuids>>

\* The rate limiter refuses the request, or the fallback answers it.
AnswerPlainly(r) ==
  /\ pc[r] = "inner"
  /\ pc' = [pc EXCEPT ![r] = "answered"]
  /\ UNCHANGED <<tracing, identity, running, stack, handles, noted, marked, response, uuids>>

\* The handler's instrumented future is polled for the first and only time.
EnterHandler(r) ==
  /\ pc[r] = "inner" /\ arrival[r].kind = "page"
  /\ pc' = [pc EXCEPT ![r] = "page"]
  /\ handles' = handles \cup {Handle(PageSpan(r), "handler")}
  /\ stack' = Append(stack, PageSpan(r))
  /\ UNCHANGED <<tracing, identity, running, noted, marked, response, uuids>>

\* warning, generated: the stream takes a handle to the span it is made in.
ReturnPage(r) ==
  /\ pc[r] = "page"
  /\ pc' = [pc EXCEPT ![r] = "answered"]
  /\ handles' = (handles \ {Handle(PageSpan(r), "handler")})
                \cup {Handle(Last(stack), "stream")}
  /\ stack' = Front(stack)
  /\ UNCHANGED <<tracing, identity, running, noted, marked, response, uuids>>

\* Slip: the span is dropped with InspectState instead of handed to the body.
FinishDropsSpan(r) ==
  /\ pc[r] = "answered"
  /\ pc' = [pc EXCEPT ![r] = "body"]
  /\ running' = Nobody
  /\ stack' = IF Traced(r) THEN Front(stack) ELSE stack
  /\ response' = [response EXCEPT ![r] = noted[r]]
  /\ handles' = handles \ {Handle(RequestSpan(r), "InspectState")}
  /\ UNCHANGED <<tracing, identity, noted, marked, uuids>>

\* The answer is Ready: InspectState is taken, its id goes into the header and
\* its span to the body.
Finish(r) ==
  /\ pc[r] = "answered"
  /\ pc' = [pc EXCEPT ![r] = "body"]
  /\ running' = Nobody
  /\ stack' = IF Traced(r) THEN Front(stack) ELSE stack
  /\ response' = [response EXCEPT ![r] = noted[r]]
  /\ handles' = IF Traced(r)
                THEN (handles \ {Handle(RequestSpan(r), "InspectState")})
                     \cup {Handle(RequestSpan(r), "InspectBody")}
                ELSE handles
  /\ UNCHANGED <<tracing, identity, noted, marked, uuids>>

-----------------------------------------------------------------------------
(***************************************************************************)
(* The polls of the body.                                                  *)
(***************************************************************************)
BodySpans(r) ==
  (IF Traced(r) THEN <<RequestSpan(r)>> ELSE <<>>)
  \o (IF Open(PageSpan(r)) THEN <<PageSpan(r)>> ELSE <<>>)

\* InspectBody and the instrumented stream enter their spans.
PollFrame(r) ==
  /\ pc[r] = "body" /\ running = Nobody
  /\ pc' = [pc EXCEPT ![r] = "frame"]
  /\ running' = r
  /\ stack' = stack \o BodySpans(r)
  /\ UNCHANGED <<tracing, identity, handles, noted, marked, response, uuids>>

Exit(n) == SubSeq(stack, 1, Len(stack) - n)

\* A frame, or Pending while a page sleeps.
ReturnFrame(r) ==
  /\ pc[r] = "frame"
  /\ pc' = [pc EXCEPT ![r] = "body"]
  /\ running' = Nobody
  /\ stack' = Exit(Len(BodySpans(r)))
  /\ UNCHANGED <<tracing, identity, handles, noted, marked, response, uuids>>

\* A future or body that is dropped takes with it all that it holds: the body
\* and the stream in it, then the span.  Nothing runs in between, so the order
\* of the fields is left out.
Release(r) == {h \in handles : h.span.of # r}

\* The end of the body, which hyper then drops.
EndBody(r) ==
  /\ pc[r] = "frame"
  /\ pc' = [pc EXCEPT ![r] = "done"]
  /\ running' = Nobody
  /\ stack' = Exit(Len(BodySpans(r)))
  /\ handles' = Release(r)
  /\ UNCHANGED <<tracing, identity, noted, marked, response, uuids>>

\* Slip: something else keeps a handle to the span of a future that is dropped.
LeaveLeaking(r) ==
  /\ pc[r] \in {"oneshot", "waiting", "body"} /\ running = Nobody
  /\ pc' = [pc EXCEPT ![r] = "done"]
  /\ handles' = IF pc[r] = "body" THEN Release(r) ELSE handles
  /\ UNCHANGED <<tracing, identity, running, stack, noted, marked, response, uuids>>

\* The client leaves, and hyper drops the future or the body.
Leave(r) ==
  /\ pc[r] \in {"oneshot", "waiting", "body"} /\ running = Nobody
  /\ pc' = [pc EXCEPT ![r] = "done"]
  /\ handles' = Release(r)
  /\ UNCHANGED <<tracing, identity, running, stack, noted, marked, response, uuids>>

Answer(r) == AnswerPlainly(r) \/ EnterHandler(r)
Poll(r)   == \/ RouteAround(r) \/ RouteUntraced(r) \/ Trace(r) \/ Resume(r)
             \/ InnerPending(r) \/ Answer(r) \/ ReturnPage(r) \/ Finish(r)
             \/ PollFrame(r) \/ ReturnFrame(r) \/ EndBody(r)

Next == \E r \in Requests : Arrive(r) \/ Poll(r) \/ Leave(r)

Spec == Init /\ [][Next]_vars

\* The runtime polls what is woken; the rate limiter answers and a page ends
\* after finitely many polls (EveryRequestAnswered and PageCompletes).
FairSpec ==
  Spec /\ \A r \in Requests :
            SF_vars(Poll(r)) /\ SF_vars(Answer(r)) /\ SF_vars(EndBody(r))

-----------------------------------------------------------------------------
(***************************************************************************)
(* Properties.                                                             *)
(***************************************************************************)

\* However requests interleave on the thread, work is done under open spans of
\* its own request only, the span of the request outermost, and nothing stays
\* entered when a poll returns.
WorkUnderOwnSpans ==
  /\ running = Nobody => stack = <<>>
  /\ \A i \in DOMAIN stack : stack[i].of = running /\ Open(stack[i])
  /\ running # Nobody /\ Traced(running) => stack # <<>> /\ stack[1] = RequestSpan(running)

\* The span of a page lies within the one of its request, which stays open
\* until the page has been sent or its client has left.
PageWithinRequest ==
  \A r \in Requests : Open(PageSpan(r)) /\ Traced(r) => Open(RequestSpan(r))

\* A traced response carries an id, and it is the one its span can be found by:
\* the client's, or one that no other response carries, whichever request
\* finishes first; only a client that brings that very id gets it too.
IdsLeadToSpans ==
  \A r \in Requests : Traced(r) =>
    /\ pc[r] \in {"body", "frame"} => response[r] # NoId
    /\ response[r] # NoId =>
         /\ marked[r] = response[r] \/ response[r] = OpaqueId
         /\ arrival[r].id # NoId => response[r] = arrival[r].id
         /\ arrival[r].id = NoId =>
              \A s \in Requests \ {r} :
                response[s] # response[r] \/ arrival[s].id = response[r]

\* Every span that is opened is closed, so that it is exported.
SpansClose ==
  \A r \in Requests : Open(RequestSpan(r)) ~> ~ Open(RequestSpan(r))

Arrived == {r \in Requests : pc[r] # "new"}

\* The hops at which proxies of some customs wrote.
Hops(a, customs) == {n \in DOMAIN a.way : a.way[n] \in customs}

\* However many proxies write, and into one line or several, the peer is the
\* remotest node that X-Forwarded-For names, else the node the last proxy put
\* into X-Real-IP, else the remotest one Forwarded names, else the connection;
\* a blank or unreadable X-Forwarded-For counts as none.  Nothing is claimed of
\* one that some proxies write to and others blank or make unreadable: an
\* unreadable first line hides the names in those after it.
PeerIsRemotestNamed ==
  \A r \in Arrived :
    LET a         == arrival[r]
        xff       == Hops(a, XffCustoms)
        real      == Hops(a, RealCustoms)
        forwarded == Hops(a, ForwardedCustoms)
    IN  xff = {} \/ Hops(a, {"blank", "opaque"}) = {} =>
          peer[r] = IF xff # {} THEN << Nodes(a)[Min(xff)] >>
                    ELSE IF real # {} THEN << Nodes(a)[Max(real)] >>
                    ELSE IF forwarded # {} THEN << Nodes(a)[Min(forwarded)] >>
                    ELSE SocketOf(r, a)

\* Proxies of one custom name the client as such.
Uniform(a) ==
  a.way # <<>> /\ \E customs \in {XffCustoms, ForwardedCustoms} :
                     \A n \in DOMAIN a.way : a.way[n] \in customs

\* Behind proxies of one custom, requests are of the same peer exactly when
\* they are of the same client, whatever connections bring them; without
\* proxies each connection is a peer.
ClientIsOnePeer ==
  \A r, s \in Arrived :
    /\ Uniform(arrival[r]) /\ Uniform(arrival[s]) =>
         (peer[r] = peer[s] <=> arrival[r].client = arrival[s].client)
    /\ arrival[r].way = <<>> /\ r # s => peer[r] # peer[s]
=============================================================================
