-------------------------- MODULE RequestPathProofs --------------------------
(***************************************************************************)
(* Proofs about RequestPath, for any number of requests of any kind.       *)
(***************************************************************************)
EXTENDS RequestPath, SequenceTheorems, WellFoundedInduction, TLAPS

\* One request is polled at a time.
PollsOK ==
  /\ pc \in [Requests -> Places]
  /\ running \in Requests \cup {Nobody}
  /\ \A r \in Requests : pc[r] \in InPoll <=> r = running

Root(r) == IF Traced(r) THEN <<RequestSpan(r)>> ELSE <<>>

\* What is entered is what the place of that request calls for.
Entered(r) ==
  /\ pc[r] \in {"inner", "answered"} => stack = Root(r)
  /\ pc[r] = "page" => stack = Root(r) \o <<PageSpan(r)>>
  /\ pc[r] = "frame" => stack = BodySpans(r)

StackOK ==
  /\ running = Nobody => stack = <<>>
  /\ \A r \in Requests : Entered(r)

\* A request that has arrived holds its spans as its place calls for.
Holds(r) ==
  /\ pc[r] = "new" => arrival[r] = Nobody
  /\ pc[r] \in {"new", "oneshot", "waiting", "inner", "done"} => ~ Open(PageSpan(r))
  /\ pc[r] = "page" => Open(PageSpan(r))
  /\ Traced(r) /\ pc[r] \in {"waiting", "inner", "page", "answered"} =>
       Handle(RequestSpan(r), "InspectState") \in handles
  /\ Traced(r) /\ pc[r] \in {"body", "frame"} =>
       Handle(RequestSpan(r), "InspectBody") \in handles

HoldsAll == DOMAIN arrival = Requests /\ \A r \in Requests : Holds(r)

PathInv == PollsOK /\ StackOK /\ HoldsAll

-----------------------------------------------------------------------------
\* Sequences of at most two elements are equal when they are elementwise.
LEMMA ShortEqual ==
  ASSUME NEW S, NEW s \in Seq(S), NEW t \in Seq(S), NEW n \in {1, 2},
         Len(s) = n, Len(t) = n, s[1] = t[1], n = 2 => s[2] = t[2]
  PROVE  s = t
<1>1. ASSUME NEW i \in 1 .. n PROVE s[i] = t[i]
  <2>1. i = 1 \/ (i = 2 /\ n = 2)
        OBVIOUS
  <2> QED BY <2>1
<1> QED BY <1>1, SeqEqual

\* Short sequences.
LEMMA ShortSequences ==
  ASSUME NEW a, NEW b
  PROVE  /\ Front(<<a>>) = <<>> /\ Append(<<>>, a) = <<a>>
         /\ <<a>> \o <<b>> = <<a, b>>
         /\ Front(<<a>> \o <<b>>) = <<a>> /\ Last(<<a>> \o <<b>>) = b
         /\ Append(<<a>>, b) = <<a>> \o <<b>>
         /\ Front(<<>> \o <<b>>) = <<>> /\ Last(<<>> \o <<b>>) = b
         /\ Append(<<>>, b) = <<>> \o <<b>>
<1>1. Front(<<a>>) = <<>> /\ Append(<<>>, a) = <<a>>
      BY DEF Front
<1> DEFINE S == {a, b}
<1>2. /\ <<a>> \in Seq(S) /\ <<b>> \in Seq(S) /\ <<a, b>> \in Seq(S)
      /\ Len(<<a>>) = 1 /\ Len(<<b>>) = 1 /\ Len(<<a, b>>) = 2
      /\ <<a>>[1] = a /\ <<a, b>>[1] = a /\ <<a, b>>[2] = b
      OBVIOUS
<1>3. <<a>> \o <<b>> = <<a, b>>
  <2>1. /\ <<a>> \o <<b>> \in Seq(S) /\ Len(<<a>> \o <<b>>) = 2
        /\ (<<a>> \o <<b>>)[1] = a /\ (<<a>> \o <<b>>)[2] = b
        BY <1>2, ConcatProperties
  <2> QED BY <2>1, <1>2, ShortEqual
<1>4. Append(<<a>>, b) = <<a, b>>
  <2>1. /\ Append(<<a>>, b) \in Seq(S) /\ Len(Append(<<a>>, b)) = 2
        /\ Append(<<a>>, b)[1] = a /\ Append(<<a>>, b)[2] = b
        BY <1>2, AppendProperties
  <2> QED BY <2>1, <1>2, ShortEqual
<1>5. Front(<<a, b>>) = <<a>> /\ Last(<<a, b>>) = b
  <2>1. SubSeq(<<a, b>>, 1, 1) = <<a>>
    <3>1. PICK t \in Seq(S) : t = <<a, b>> /\ Len(t) = 2 /\ t[1] = a
          BY <1>2
    <3>2. PICK u : u = SubSeq(t, 1, 1)
          OBVIOUS
    <3>3. u \in Seq(S) /\ Len(u) = 1 /\ u[1] = a
          BY <3>1, <3>2, SubSeqProperties
    <3>4. PICK v \in Seq(S) : v = <<a>> /\ Len(v) = 1 /\ v[1] = a
          BY <1>2
    <3>5. u = v
          BY <3>3, <3>4, ShortEqual
    <3> QED BY <3>1, <3>2, <3>4, <3>5
  <2> QED BY <2>1, <1>2 DEF Front, Last
<1>6. <<>> \o <<b>> = <<b>> /\ Append(<<>>, b) = <<b>>
      OBVIOUS
<1>7. Front(<<b>>) = <<>> /\ Last(<<b>>) = b
      BY DEF Front, Last
<1> QED BY <1>1, <1>3, <1>4, <1>5, <1>6, <1>7

\* The stack of a request that is not in the handler holds its root only.
LEMMA RootSteps ==
  ASSUME NEW r
  PROVE  /\ Traced(r) => Front(Root(r)) = <<>> /\ Append(<<>>, RequestSpan(r)) = Root(r)
         /\ ~ Traced(r) => Root(r) = <<>>
         /\ Append(Root(r), PageSpan(r)) = Root(r) \o <<PageSpan(r)>>
         /\ Front(Root(r) \o <<PageSpan(r)>>) = Root(r)
         /\ Last(Root(r) \o <<PageSpan(r)>>) = PageSpan(r)
BY ShortSequences DEF Root

\* The spans of a body, by whether it is traced and is a page's.
LEMMA BodySpansSequence ==
  ASSUME NEW r
  PROVE  /\ <<>> \o BodySpans(r) = BodySpans(r)
         /\ BodySpans(r) = IF Open(PageSpan(r)) THEN Root(r) \o <<PageSpan(r)>> ELSE Root(r)
<1>1. CASE Traced(r) /\ Open(PageSpan(r))
      BY <1>1 DEF BodySpans, Root
<1>2. CASE Traced(r) /\ ~ Open(PageSpan(r))
      BY <1>2 DEF BodySpans, Root
<1>3. CASE ~ Traced(r) /\ Open(PageSpan(r))
      BY <1>3 DEF BodySpans, Root
<1>4. CASE ~ Traced(r) /\ ~ Open(PageSpan(r))
      BY <1>4 DEF BodySpans, Root
<1> QED BY <1>1, <1>2, <1>3, <1>4

\* All spans of a body are exited.
LEMMA BodyExit ==
  ASSUME NEW r, stack = BodySpans(r)
  PROVE  Exit(Len(BodySpans(r))) = <<>>
<1>1. CASE Traced(r) /\ Open(PageSpan(r))
      BY <1>1 DEF BodySpans, Exit
<1>2. CASE Traced(r) /\ ~ Open(PageSpan(r))
      BY <1>2 DEF BodySpans, Exit
<1>3. CASE ~ Traced(r) /\ Open(PageSpan(r))
      BY <1>3 DEF BodySpans, Exit
<1>4. CASE ~ Traced(r) /\ ~ Open(PageSpan(r))
      BY <1>4 DEF BodySpans, Exit
<1> QED BY <1>1, <1>2, <1>3, <1>4

\* Spans are told apart by their names and requests, handles by their spans.
LEMMA SpansDiffer ==
  ASSUME NEW r, NEW s
  PROVE  /\ RequestSpan(r) # PageSpan(s)
         /\ r # s => RequestSpan(r) # RequestSpan(s) /\ PageSpan(r) # PageSpan(s)
         /\ \A a, x : Handle(a, x).span = a /\ Handle(a, x).holder = x
BY DEF RequestSpan, PageSpan, Handle

-----------------------------------------------------------------------------
(***************************************************************************)
(* The invariant is inductive.                                             *)
(***************************************************************************)
LEMMA PathInvInit == Init => PathInv
BY AbsentAssumption
   DEF Init, PathInv, PollsOK, StackOK, Entered, HoldsAll, Holds, Open, Traced, Places, InPoll

\* The spans of a request that a step is not about are left alone.
LEMMA OthersKeep ==
  ASSUME PathInv, NEW r \in Requests, NEW s \in Requests, s # r,
         pc'[s] = pc[s], arrival'[s] = arrival[s], tracing' = tracing,
         \A h : h.span.of # r => (h \in handles' <=> h \in handles)
  PROVE  Holds(s)'
<1>1. Traced(s)' <=> Traced(s)
      BY DEF Traced, Asked
<1>2. \A x : Handle(RequestSpan(s), x).span.of # r /\ Handle(PageSpan(s), x).span.of # r
      BY DEF RequestSpan, PageSpan, Handle
<1>3. Open(PageSpan(s))' <=> Open(PageSpan(s))
      BY DEF Open, PageSpan
<1>4. Holds(s)
      BY DEF PathInv, HoldsAll
<1> QED BY <1>1, <1>2, <1>3, <1>4 DEF Holds

\* A step of one request that leaves the thread to it or to nobody, enters what
\* its new place calls for and holds what that calls for.
LEMMA StepOf ==
  ASSUME PathInv, NEW r \in Requests, running \in {r, Nobody},
         NEW to \in Places, pc' = [pc EXCEPT ![r] = to],
         \/ to \in InPoll /\ running' = r
         \/ to \notin InPoll /\ running' = Nobody /\ stack' = <<>>,
         tracing' = tracing, DOMAIN arrival' = Requests,
         \A s \in Requests \ {r} : arrival'[s] = arrival[s],
         \A h : h.span.of # r => (h \in handles' <=> h \in handles),
         Entered(r)', Holds(r)'
  PROVE  PathInv'
<1>1. pc'[r] = to /\ \A s \in Requests \ {r} : pc'[s] = pc[s] /\ pc[s] \notin InPoll
      BY AbsentAssumption DEF PathInv, PollsOK
<1>2. PollsOK'
      BY <1>1, AbsentAssumption DEF PathInv, PollsOK
<1>3. StackOK'
  <2>1. \A s \in Requests \ {r} : Entered(s)'
        BY <1>1 DEF Entered, InPoll
  <2> QED BY <2>1, AbsentAssumption DEF StackOK
<1>4. \A s \in Requests \ {r} : Holds(s)'
      BY <1>1, OthersKeep
<1> QED BY <1>2, <1>3, <1>4 DEF PathInv, HoldsAll

\* The handles of a request are not those of others.
LEMMA HandlesOf ==
  ASSUME NEW r, NEW x
  PROVE  Handle(RequestSpan(r), x).span.of = r /\ Handle(PageSpan(r), x).span.of = r
BY DEF RequestSpan, PageSpan, Handle

-----------------------------------------------------------------------------
\* A request arrives, with no handle and no span of its own.
LEMMA ArriveKeeps ==
  ASSUME PathInv, NEW r \in Requests, Arrive(r) PROVE PathInv'
<1>1. PICK a \in Arrivals[r] : arrival' = [arrival EXCEPT ![r] = a]
      BY DEF Arrive
<1>2. stack = <<>> /\ pc'[r] = "oneshot" /\ handles' = handles /\ tracing' = tracing
      BY DEF Arrive, PathInv, PollsOK, StackOK
<1>3. Entered(r)'
      BY <1>2 DEF Entered
<1>4. ~ Open(PageSpan(r))'
      BY <1>2 DEF Arrive, PathInv, HoldsAll, Holds, Open
<1>5. Holds(r)'
      BY <1>2, <1>4 DEF Holds
<1>6. "oneshot" \in Places /\ "oneshot" \notin InPoll
      BY DEF Places, InPoll
<1>7. DOMAIN arrival' = Requests /\ \A s \in Requests \ {r} : arrival'[s] = arrival[s]
      BY <1>1 DEF PathInv, HoldsAll
<1> QED BY <1>2, <1>3, <1>5, <1>6, <1>7, StepOf DEF Arrive

\* What a request is, is not changed once it has arrived.
LEMMA SameRequest ==
  ASSUME PathInv, NEW r, UNCHANGED <<tracing, identity>>
  PROVE  /\ arrival' = arrival /\ tracing' = tracing /\ DOMAIN arrival' = Requests
         /\ Traced(r)' <=> Traced(r)
         /\ Root(r)' = Root(r)
BY DEF identity, PathInv, HoldsAll, Traced, Asked, Root

\* A request for /health or the icon is routed past all layers.
LEMMA RouteAroundKeeps ==
  ASSUME PathInv, NEW r \in Requests, RouteAround(r) PROVE PathInv'
<1>1. stack' = <<>> /\ ~ Traced(r)' /\ handles' = handles /\ pc'[r] = "body"
      BY SameRequest DEF RouteAround, PathInv, PollsOK, StackOK, Traced
<1>2. Entered(r)' /\ Holds(r)'
      BY <1>1 DEF Entered, Holds
<1> QED BY <1>1, <1>2, SameRequest, StepOf DEF RouteAround, Places, InPoll

\* Without telemetry a request goes on with no span.
LEMMA RouteUntracedKeeps ==
  ASSUME PathInv, NEW r \in Requests, RouteUntraced(r) PROVE PathInv'
<1>1. stack' = <<>> /\ ~ Traced(r)' /\ handles' = handles /\ pc'[r] = "inner"
      BY SameRequest DEF RouteUntraced, PathInv, PollsOK, StackOK, Traced
<1>2. Entered(r)'
      BY <1>1, RootSteps DEF Entered, Root
<1>3. Holds(r)'
      BY <1>1 DEF Holds, PathInv, HoldsAll, Open, RouteUntraced
<1> QED BY <1>1, <1>2, <1>3, SameRequest, StepOf DEF RouteUntraced, Places, InPoll

\* The trace layer opens the span of a request, and keeps a handle to it.
LEMMA TraceKeeps ==
  ASSUME PathInv, NEW r \in Requests, Trace(r) PROVE PathInv'
<1>1. /\ Traced(r) /\ pc'[r] = "inner" /\ stack = <<>>
      /\ handles' = handles \cup {Handle(RequestSpan(r), "InspectState")}
      BY DEF Trace, PathInv, PollsOK, StackOK
<1>2. stack' = Root(r)'
      BY <1>1, SameRequest, RootSteps DEF Trace
<1>3. Entered(r)'
      BY <1>1, <1>2 DEF Entered
<1>4. ~ Open(PageSpan(r))'
      BY <1>1, SpansDiffer DEF PathInv, HoldsAll, Holds, Open, Trace
<1>5. Holds(r)'
      BY <1>1, <1>4 DEF Holds
<1>6. \A h : h.span.of # r => (h \in handles' <=> h \in handles)
      BY <1>1, HandlesOf
<1> QED BY <1>1, <1>3, <1>5, <1>6, SameRequest, StepOf DEF Trace, Places, InPoll

\* A poll enters the span of its request.
LEMMA ResumeKeeps ==
  ASSUME PathInv, NEW r \in Requests, Resume(r) PROVE PathInv'
<1>1. pc'[r] = "inner" /\ stack = <<>> /\ handles' = handles
      BY DEF Resume, PathInv, PollsOK, StackOK
<1>2. stack' = Root(r)'
      BY <1>1, SameRequest, RootSteps DEF Resume
<1>3. Entered(r)' /\ Holds(r)'
      BY <1>1, <1>2, SameRequest DEF Entered, Holds, PathInv, HoldsAll, Open, Resume
<1> QED BY <1>1, <1>3, SameRequest, StepOf DEF Resume, Places, InPoll

\* A poll that must wait leaves what it entered.
LEMMA InnerPendingKeeps ==
  ASSUME PathInv, NEW r \in Requests, InnerPending(r) PROVE PathInv'
<1>1. /\ running = r /\ pc[r] = "inner" /\ pc'[r] = "waiting"
      /\ stack = Root(r) /\ handles' = handles
      BY DEF InnerPending, PathInv, PollsOK, StackOK, Entered, InPoll
<1>2. stack' = <<>>
      BY <1>1, RootSteps DEF InnerPending
<1>3. Entered(r)' /\ Holds(r)'
      BY <1>1, SameRequest DEF Entered, Holds, PathInv, HoldsAll, Open, InnerPending
<1> QED BY <1>1, <1>2, <1>3, SameRequest, StepOf DEF InnerPending, Places, InPoll

\* An answer without a page has the span of the request only.
LEMMA AnswerPlainlyKeeps ==
  ASSUME PathInv, NEW r \in Requests, AnswerPlainly(r) PROVE PathInv'
<1>1. /\ running = r /\ pc[r] = "inner" /\ pc'[r] = "answered"
      /\ stack = Root(r) /\ handles' = handles /\ stack' = stack
      BY DEF AnswerPlainly, PathInv, PollsOK, StackOK, Entered, InPoll
<1>2. Entered(r)' /\ Holds(r)'
      BY <1>1, SameRequest DEF Entered, Holds, PathInv, HoldsAll, AnswerPlainly
<1> QED BY <1>1, <1>2, SameRequest, StepOf DEF AnswerPlainly, Places, InPoll

\* The handler of a page opens a span of its own.
LEMMA EnterHandlerKeeps ==
  ASSUME PathInv, NEW r \in Requests, EnterHandler(r) PROVE PathInv'
<1>1. /\ running = r /\ pc[r] = "inner" /\ pc'[r] = "page" /\ stack = Root(r)
      /\ handles' = handles \cup {Handle(PageSpan(r), "handler")}
      BY DEF EnterHandler, PathInv, PollsOK, StackOK, Entered, InPoll
<1>2. stack' = Root(r)' \o <<PageSpan(r)>>
      BY <1>1, SameRequest, RootSteps DEF EnterHandler
<1>3. Open(PageSpan(r))'
      BY <1>1, SpansDiffer DEF Open
<1>4. Entered(r)' /\ Holds(r)'
      BY <1>1, <1>2, <1>3, SameRequest DEF Entered, Holds, PathInv, HoldsAll, EnterHandler
<1>5. \A h : h.span.of # r => (h \in handles' <=> h \in handles)
      BY <1>1, HandlesOf
<1> QED BY <1>1, <1>4, <1>5, SameRequest, StepOf DEF EnterHandler, Places, InPoll

\* The stream of a page takes a handle to the span it is made in.
LEMMA ReturnPageKeeps ==
  ASSUME PathInv, NEW r \in Requests, ReturnPage(r) PROVE PathInv'
<1>1. /\ running = r /\ pc[r] = "page" /\ pc'[r] = "answered"
      /\ stack = Root(r) \o <<PageSpan(r)>>
      BY DEF ReturnPage, PathInv, PollsOK, StackOK, Entered, InPoll
<1>2. /\ stack' = Root(r)'
      /\ handles' = (handles \ {Handle(PageSpan(r), "handler")})
                    \cup {Handle(PageSpan(r), "stream")}
      BY <1>1, SameRequest, RootSteps DEF ReturnPage
<1>3. Handle(RequestSpan(r), "InspectState") # Handle(PageSpan(r), "handler")
      BY SpansDiffer
<1>4. Entered(r)' /\ Holds(r)'
      BY <1>1, <1>2, <1>3, SameRequest DEF Entered, Holds, PathInv, HoldsAll, ReturnPage
<1>5. \A h : h.span.of # r => (h \in handles' <=> h \in handles)
      BY <1>2, HandlesOf
<1> QED BY <1>1, <1>4, <1>5, SameRequest, StepOf DEF ReturnPage, Places, InPoll

\* An answer hands the span of its request to the body.
LEMMA FinishKeeps ==
  ASSUME PathInv, NEW r \in Requests, Finish(r) PROVE PathInv'
<1>1. /\ running = r /\ pc[r] = "answered" /\ pc'[r] = "body" /\ stack = Root(r)
      BY DEF Finish, PathInv, PollsOK, StackOK, Entered, InPoll
<1>2. stack' = <<>>
      BY <1>1, RootSteps DEF Finish
<1>3. Entered(r)' /\ Holds(r)'
      BY <1>1, SameRequest DEF Entered, Holds, Finish
<1>4. \A h : h.span.of # r => (h \in handles' <=> h \in handles)
      BY HandlesOf DEF Finish
<1> QED BY <1>1, <1>2, <1>3, <1>4, SameRequest, StepOf DEF Finish, Places, InPoll

-----------------------------------------------------------------------------
\* While nothing is opened or closed, a body is polled in the same spans.
LEMMA SameBody ==
  ASSUME PathInv, NEW r, UNCHANGED <<tracing, identity, handles>>
  PROVE  BodySpans(r)' = BodySpans(r)
BY SameRequest DEF BodySpans, Open

\* A poll of the body enters the spans the body holds.
LEMMA PollFrameKeeps ==
  ASSUME PathInv, NEW r \in Requests, PollFrame(r) PROVE PathInv'
<1>1. /\ pc[r] = "body" /\ pc'[r] = "frame" /\ stack = <<>> /\ handles' = handles
      BY DEF PollFrame, PathInv, PollsOK, StackOK
<1>2. stack' = BodySpans(r)'
      BY <1>1, SameBody, BodySpansSequence DEF PollFrame
<1>3. Entered(r)' /\ Holds(r)'
      BY <1>1, <1>2, SameRequest DEF Entered, Holds, PathInv, HoldsAll, PollFrame
<1> QED BY <1>1, <1>3, SameRequest, StepOf DEF PollFrame, Places, InPoll

\* A frame leaves them in the reverse order.
LEMMA ReturnFrameKeeps ==
  ASSUME PathInv, NEW r \in Requests, ReturnFrame(r) PROVE PathInv'
<1>1. /\ running = r /\ pc[r] = "frame" /\ pc'[r] = "body"
      /\ stack = BodySpans(r) /\ handles' = handles
      BY DEF ReturnFrame, PathInv, PollsOK, StackOK, Entered, InPoll
<1>2. stack' = <<>>
      BY <1>1, BodyExit DEF ReturnFrame
<1>3. Entered(r)' /\ Holds(r)'
      BY <1>1, SameRequest DEF Entered, Holds, PathInv, HoldsAll, ReturnFrame
<1> QED BY <1>1, <1>2, <1>3, SameRequest, StepOf DEF ReturnFrame, Places, InPoll

\* Nothing of a request is open once its handles are released.
LEMMA Released ==
  ASSUME NEW r, handles' = Release(r)
  PROVE  ~ Open(PageSpan(r))' /\ \A h : h.span.of # r => (h \in handles' <=> h \in handles)
BY DEF Release, Open, PageSpan

\* The end of a body gives up its handles.
LEMMA EndBodyKeeps ==
  ASSUME PathInv, NEW r \in Requests, EndBody(r) PROVE PathInv'
<1>1. /\ running = r /\ pc[r] = "frame" /\ pc'[r] = "done"
      /\ stack = BodySpans(r) /\ handles' = Release(r)
      BY DEF EndBody, PathInv, PollsOK, StackOK, Entered, InPoll
<1>2. stack' = <<>>
      BY <1>1, BodyExit DEF EndBody
<1>3. Entered(r)' /\ Holds(r)'
      BY <1>1, Released DEF Entered, Holds
<1> QED BY <1>1, <1>2, <1>3, Released, SameRequest, StepOf DEF EndBody, Places, InPoll

\* A client that goes away gives up what its request holds.
LEMMA LeaveKeeps ==
  ASSUME PathInv, NEW r \in Requests, Leave(r) PROVE PathInv'
<1>1. /\ running = Nobody /\ pc'[r] = "done" /\ stack' = <<>>
      /\ handles' = Release(r)
      BY DEF Leave, PathInv, PollsOK, StackOK
<1>2. Entered(r)' /\ Holds(r)'
      BY <1>1, Released DEF Entered, Holds
<1> QED BY <1>1, <1>2, Released, SameRequest, StepOf DEF Leave, Places, InPoll

\* Every step enters and holds what the places of the requests call for.
LEMMA PathInvNext == PathInv /\ [Next]_vars => PathInv'
<1> SUFFICES ASSUME PathInv, [Next]_vars PROVE PathInv'
    OBVIOUS
<1>1. ASSUME NEW r \in Requests, Arrive(r) \/ Poll(r) \/ Leave(r) PROVE PathInv'
      BY <1>1, ArriveKeeps, RouteAroundKeeps, RouteUntracedKeeps, TraceKeeps,
         ResumeKeeps, InnerPendingKeeps, AnswerPlainlyKeeps, EnterHandlerKeeps,
         ReturnPageKeeps, FinishKeeps, PollFrameKeeps, ReturnFrameKeeps,
         EndBodyKeeps, LeaveKeeps DEF Poll, Answer
<1>2. CASE UNCHANGED vars
      BY <1>2 DEF vars, identity, PathInv, PollsOK, StackOK, Entered, Root, BodySpans,
                  HoldsAll, Holds, Traced, Asked, Open
<1> QED BY <1>1, <1>2 DEF Next

\* What is entered and held is what the places of the requests call for, always.
THEOREM SpecPathInv == Spec => []PathInv
BY PathInvInit, PathInvNext, PTL DEF Spec

-----------------------------------------------------------------------------
(***************************************************************************)
(* What it gives.                                                          *)
(***************************************************************************)

\* The elements of what may be entered.
LEMMA RootElements ==
  ASSUME NEW r
  PROVE  /\ \A i \in DOMAIN Root(r) : Root(r)[i] = RequestSpan(r) /\ Traced(r)
         /\ Traced(r) => Root(r) # <<>> /\ Root(r)[1] = RequestSpan(r)
BY DEF Root

\* The elements of a pair.
LEMMA PairElements ==
  ASSUME NEW a, NEW b, NEW t, t = <<a, b>>
  PROVE  DOMAIN t = 1 .. 2 /\ t[1] = a /\ t[2] = b /\ t # <<>>
OBVIOUS

\* The same behind which comes the span of the page.
LEMMA PageElements ==
  ASSUME NEW r, NEW s, s = Root(r) \o <<PageSpan(r)>>
  PROVE  /\ \A i \in DOMAIN s : \/ s[i] = RequestSpan(r) /\ Traced(r)
                                \/ s[i] = PageSpan(r)
         /\ Traced(r) => s # <<>> /\ s[1] = RequestSpan(r)
<1>1. CASE Traced(r)
  <2> DEFINE a == RequestSpan(r)
             b == PageSpan(r)
  <2>1. s = <<a, b>>
        BY <1>1, ShortSequences DEF Root
  <2> HIDE DEF a, b
  <2>2. DOMAIN s = 1 .. 2 /\ s[1] = a /\ s[2] = b /\ s # <<>>
        BY <2>1, PairElements, Zenon
  <2>3. \A i \in DOMAIN s : s[i] = a \/ s[i] = b
    <3>1. \A i \in 1 .. 2 : i = 1 \/ i = 2
          OBVIOUS
    <3> QED BY <2>2, <3>1
  <2> QED BY <1>1, <2>2, <2>3 DEF a, b
<1>2. CASE ~ Traced(r)
  <2>1. s = <<PageSpan(r)>>
        BY <1>2 DEF Root
  <2> QED BY <1>2, <2>1
<1> QED BY <1>1, <1>2

\* Whatever is entered is open and belongs to the request that is polled.
LEMMA OwnSpans == PathInv => WorkUnderOwnSpans
<1> SUFFICES ASSUME PathInv PROVE WorkUnderOwnSpans
    OBVIOUS
<1>1. CASE running = Nobody
      BY <1>1 DEF PathInv, StackOK, WorkUnderOwnSpans
<1>2. ASSUME NEW r \in Requests, running = r PROVE WorkUnderOwnSpans
  <2>1. /\ pc[r] \in {"inner", "page", "answered", "frame"}
        /\ Entered(r) /\ Holds(r) /\ r # Nobody
        BY <1>2, AbsentAssumption DEF PathInv, PollsOK, StackOK, HoldsAll, InPoll
  <2>2. Traced(r) => Open(RequestSpan(r))
        BY <2>1, SpansDiffer DEF Holds, Open
  <2>3. RequestSpan(r).of = r /\ PageSpan(r).of = r
        BY DEF RequestSpan, PageSpan
  <2>4. \/ stack = Root(r)
        \/ stack = Root(r) \o <<PageSpan(r)>> /\ Open(PageSpan(r))
        BY <2>1, BodySpansSequence DEF Entered, Holds
  <2>5. \A i \in DOMAIN stack : \/ stack[i] = RequestSpan(r) /\ Traced(r)
                                \/ stack[i] = PageSpan(r) /\ Open(PageSpan(r))
        BY <2>4, RootElements, PageElements
  <2>6. Traced(r) => stack # <<>> /\ stack[1] = RequestSpan(r)
        BY <2>4, RootElements, PageElements
  <2>7. \A i \in DOMAIN stack : stack[i].of = running /\ Open(stack[i])
        BY <1>2, <2>2, <2>3, <2>5
  <2> QED BY <1>2, <2>1, <2>6, <2>7 DEF WorkUnderOwnSpans
<1> QED BY <1>1, <1>2 DEF PathInv, PollsOK

\* Spans of pages are nested in those of their requests.
LEMMA PageNested == PathInv => PageWithinRequest
<1> SUFFICES ASSUME PathInv, NEW r \in Requests, Open(PageSpan(r)), Traced(r)
             PROVE  Open(RequestSpan(r))
    BY DEF PageWithinRequest
<1>1. pc[r] \in {"page", "answered", "body", "frame"} /\ Holds(r)
      BY DEF PathInv, PollsOK, HoldsAll, Holds, Places, InPoll
<1> QED BY <1>1, SpansDiffer DEF Holds, Open

\* Whatever requests arrive and however their polls interleave, the spans that
\* are entered are those of the request that is polled, and they are open.
THEOREM SpansOwnWork == Spec => []WorkUnderOwnSpans
BY SpecPathInv, OwnSpans, PTL

\* The span of a request outlives the one of its page.
THEOREM PageSpansNested == Spec => []PageWithinRequest
BY SpecPathInv, PageNested, PTL

-----------------------------------------------------------------------------
(***************************************************************************)
(* The types.  Those of the stack follow from what is entered; those of    *)
(* arrivals and handles are kept by every step.                            *)
(***************************************************************************)
Holders == {"InspectState", "InspectBody", "handler", "stream"}

HeldOK ==
  /\ \A r \in Requests : pc[r] # "new" => arrival[r] \in Arrivals[r]
  /\ handles \subseteq [span : Spans, holder : Holders]

\* Handles to the spans of requests.
LEMMA HandleTypes ==
  ASSUME NEW r \in Requests, NEW x \in Holders
  PROVE  /\ Handle(RequestSpan(r), x) \in [span : Spans, holder : Holders]
         /\ Handle(PageSpan(r), x) \in [span : Spans, holder : Holders]
BY DEF Handle, Spans

\* Every step keeps arrivals and handles to their types.
LEMMA HeldOKNext ==
  ASSUME PathInv, HeldOK, [Next]_vars PROVE HeldOK'
<1>1. ASSUME NEW r \in Requests, Arrive(r) PROVE HeldOK'
  <2>1. PICK a \in Arrivals[r] : arrival' = [arrival EXCEPT ![r] = a]
        BY <1>1 DEF Arrive
  <2>2. /\ handles' = handles /\ DOMAIN arrival = Requests
        /\ \A s \in Requests \ {r} : pc'[s] = pc[s]
        BY <1>1 DEF Arrive, PathInv, PollsOK, HoldsAll
  <2> QED BY <2>1, <2>2 DEF HeldOK
<1>2. ASSUME NEW r \in Requests, Poll(r) \/ Leave(r) PROVE HeldOK'
  <2>1. /\ arrival' = arrival /\ pc[r] # "new"
        /\ \A s \in Requests \ {r} : pc'[s] = pc[s]
        BY <1>2 DEF PathInv, PollsOK, Poll, Answer, RouteAround, RouteUntraced, Trace,
              Resume, InnerPending, AnswerPlainly, EnterHandler, ReturnPage, Finish,
              PollFrame, ReturnFrame, EndBody, Leave, identity
  <2>2. ReturnPage(r) => Last(stack) = PageSpan(r)
        BY RootSteps DEF ReturnPage, PathInv, StackOK, Entered
  <2>3. handles' \subseteq handles \cup {Handle(RequestSpan(r), x) : x \in Holders}
                                   \cup {Handle(PageSpan(r), x) : x \in Holders}
        BY <1>2, <2>2 DEF Holders, Poll, Answer, RouteAround, RouteUntraced, Trace,
              Resume, InnerPending, AnswerPlainly, EnterHandler, ReturnPage, Finish,
              PollFrame, ReturnFrame, EndBody, Leave, Release
  <2>4. handles' \subseteq [span : Spans, holder : Holders]
        BY <2>3, HandleTypes DEF HeldOK
  <2> QED BY <2>1, <2>4 DEF HeldOK
<1>3. CASE UNCHANGED vars
      BY <1>3 DEF HeldOK, vars, identity
<1> QED BY <1>1, <1>2, <1>3 DEF Next

\* What is entered is a sequence of spans.
LEMMA StackTyped == PathInv => stack \in Seq(Spans)
<1> SUFFICES ASSUME PathInv PROVE stack \in Seq(Spans)
    OBVIOUS
<1>1. CASE running = Nobody
      BY <1>1 DEF PathInv, StackOK
<1>2. ASSUME NEW r \in Requests, running = r PROVE stack \in Seq(Spans)
  <2>1. pc[r] \in {"inner", "page", "answered", "frame"} /\ Entered(r)
        BY <1>2 DEF PathInv, PollsOK, StackOK, InPoll
  <2>2. RequestSpan(r) \in Spans /\ PageSpan(r) \in Spans
        BY DEF Spans
  <2>3. Root(r) \in Seq(Spans) /\ <<PageSpan(r)>> \in Seq(Spans)
        BY <2>2 DEF Root
  <2>4. Root(r) \o <<PageSpan(r)>> \in Seq(Spans)
        BY <2>3, ConcatProperties
  <2> QED BY <2>1, <2>3, <2>4, BodySpansSequence DEF Entered
<1> QED BY <1>1, <1>2 DEF PathInv, PollsOK

\* Requests, spans and handles are well typed.
THEOREM RequestTyped == Spec => []TypeOK
<1>1. Init => HeldOK
      BY DEF Init, HeldOK
<1>2. PathInv /\ HeldOK => TypeOK
      BY StackTyped DEF TypeOK, PathInv, PollsOK, HeldOK, Holders
<1> QED BY <1>1, <1>2, SpecPathInv, HeldOKNext, PTL DEF Spec

-----------------------------------------------------------------------------
(***************************************************************************)
(* The ids.  A request notes the client's id or a UUID that was not made   *)
(* before, its span records what it notes, and its response carries that.  *)
(***************************************************************************)
Answering == {"inner", "waiting", "page", "answered"}
Sending   == {"body", "frame"}

Noted(r) ==
  /\ pc[r] \in {"new", "oneshot"} => noted[r] = NoId
  /\ Traced(r) /\ pc[r] \in Answering \cup Sending => noted[r] # NoId
  /\ Traced(r) /\ pc[r] \in Sending => response[r] = noted[r]
  /\ noted[r] # NoId =>
       /\ marked[r] = noted[r] \/ noted[r] = OpaqueId
       /\ arrival[r].id # NoId => noted[r] = arrival[r].id
       /\ arrival[r].id = NoId => \E n \in Nat : n < uuids /\ noted[r] = <<"uuid", n>>
  /\ response[r] \in {NoId, noted[r]}

UuidsDiffer ==
  \A r, s \in Requests :
    (r # s /\ noted[r] # NoId /\ arrival[r].id = NoId /\ arrival[s].id = NoId)
      => noted[r] # noted[s]

IdsOK ==
  /\ uuids \in Nat
  /\ DOMAIN noted = Requests /\ DOMAIN marked = Requests /\ DOMAIN response = Requests
  /\ \A r \in Requests : Noted(r)
  /\ UuidsDiffer

\* A request arrives before anything is noted of it.
LEMMA ArriveKeepsIds ==
  ASSUME PathInv, IdsOK, NEW r \in Requests, Arrive(r) PROVE IdsOK'
<1>1. /\ \A s \in Requests \ {r} : arrival'[s] = arrival[s] /\ pc'[s] = pc[s]
      /\ UNCHANGED <<tracing, noted, marked, response, uuids>>
      BY DEF Arrive, PathInv, PollsOK, HoldsAll
<1>2. noted[r] = NoId /\ pc'[r] = "oneshot"
      BY DEF Arrive, IdsOK, Noted, PathInv, PollsOK
<1>3. \A s \in Requests : Noted(s)'
      BY <1>1, <1>2 DEF IdsOK, Noted, Traced, Answering, Sending
<1>4. UuidsDiffer'
      BY <1>1, <1>2 DEF IdsOK, UuidsDiffer, Noted
<1> QED BY <1>1, <1>3, <1>4 DEF IdsOK

\* The id that is noted is the client's, or a new UUID.
LEMMA TraceKeepsIds ==
  ASSUME PathInv, IdsOK, NEW r \in Requests, Trace(r) PROVE IdsOK'
<1>1. PICK id : /\ id = IF arrival[r].id = NoId THEN <<"uuid", uuids>> ELSE arrival[r].id
                /\ noted' = [noted EXCEPT ![r] = id]
                /\ marked' = [marked EXCEPT ![r] = IF id = OpaqueId THEN NoId ELSE id]
                /\ uuids' = IF arrival[r].id = NoId THEN uuids + 1 ELSE uuids
      BY DEF Trace
<1>2. /\ arrival' = arrival /\ response' = response /\ tracing' = tracing
      /\ pc[r] = "oneshot" /\ pc' = [pc EXCEPT ![r] = "inner"]
      /\ uuids' \in Nat /\ uuids <= uuids'
      BY <1>1 DEF Trace, identity, IdsOK
<1>3. Noted(r)'
  <2>1. noted'[r] = id /\ marked'[r] = IF id = OpaqueId THEN NoId ELSE id
        BY <1>1 DEF IdsOK
  <2>2. response'[r] = NoId /\ pc'[r] = "inner"
        BY <1>2 DEF IdsOK, Noted, PathInv, PollsOK
  <2>3. arrival[r].id = NoId => uuids < uuids' /\ id = <<"uuid", uuids>>
        BY <1>1 DEF IdsOK
  <2>4. arrival[r].id # NoId => id = arrival[r].id
        BY <1>1
  <2>5. id # NoId
        BY <2>3, <2>4, IdAssumption DEF IdsOK
  <2> QED BY <1>2, <2>1, <2>2, <2>3, <2>4, <2>5 DEF Noted, IdsOK, Sending
<1>4. ASSUME NEW s \in Requests \ {r}
      PROVE  /\ noted'[s] = noted[s] /\ marked'[s] = marked[s]
             /\ Noted(s)'
  <2>1. noted'[s] = noted[s] /\ marked'[s] = marked[s] /\ pc'[s] = pc[s]
        BY <1>1, <1>2 DEF IdsOK, PathInv, PollsOK
  <2>2. \A n \in Nat : n < uuids => n < uuids'
        BY <1>2 DEF IdsOK
  <2> QED BY <1>2, <2>1, <2>2 DEF IdsOK, Noted, Traced
<1>5. ASSUME NEW s \in Requests \ {r}, arrival[r].id = NoId, arrival[s].id = NoId,
             noted[s] # NoId
      PROVE  noted'[r] # noted'[s]
  <2>1. PICK n \in Nat : n < uuids /\ noted[s] = <<"uuid", n>>
        BY <1>5 DEF IdsOK, Noted
  <2>2. noted'[r] = <<"uuid", uuids>> /\ noted'[s] = noted[s] /\ uuids \in Nat
        BY <1>1, <1>4, <1>5 DEF IdsOK
  <2> QED BY <2>1, <2>2
<1>6. UuidsDiffer'
      BY <1>2, <1>4, <1>5 DEF IdsOK, UuidsDiffer
<1>7. DOMAIN noted' = Requests /\ DOMAIN marked' = Requests /\ DOMAIN response' = Requests
      BY <1>1, <1>2 DEF IdsOK
<1> QED BY <1>2, <1>3, <1>4, <1>6, <1>7 DEF IdsOK

\* A response carries what was noted.
LEMMA FinishKeepsIds ==
  ASSUME PathInv, IdsOK, NEW r \in Requests, Finish(r) PROVE IdsOK'
<1>1. /\ UNCHANGED <<tracing, arrival, noted, marked, uuids>>
      /\ pc[r] = "answered" /\ pc' = [pc EXCEPT ![r] = "body"]
      /\ response' = [response EXCEPT ![r] = noted[r]]
      BY DEF Finish, identity
<1>2. \A s \in Requests : Noted(s)'
      BY <1>1 DEF IdsOK, Noted, PathInv, PollsOK, Traced, Answering, Sending
<1> QED BY <1>1, <1>2 DEF IdsOK, UuidsDiffer

\* No other step touches an id.
LEMMA IdsOKNext == PathInv /\ IdsOK /\ [Next]_vars => IdsOK'
<1> SUFFICES ASSUME PathInv, IdsOK, [Next]_vars PROVE IdsOK'
    OBVIOUS
<1>1. ASSUME NEW r \in Requests, Poll(r) \/ Leave(r), ~ Trace(r), ~ Finish(r)
      PROVE  IdsOK'
  <2>1. UNCHANGED <<tracing, arrival, noted, marked, response, uuids>>
        BY <1>1 DEF Poll, Answer, RouteAround, RouteUntraced, Resume, InnerPending,
              AnswerPlainly, EnterHandler, ReturnPage, PollFrame, ReturnFrame, EndBody,
              Leave, identity
  <2>2. \E place \in Places \ {"new", "oneshot"} :
          /\ pc' = [pc EXCEPT ![r] = place]
          /\ Traced(r) /\ place \in Answering => pc[r] \in Answering
          /\ Traced(r) /\ place \in Sending => pc[r] \in Sending
        BY <1>1 DEF Poll, Answer, RouteAround, RouteUntraced, Resume, InnerPending,
              AnswerPlainly, EnterHandler, ReturnPage, PollFrame, ReturnFrame, EndBody,
              Leave, Places, InPoll, Traced, Answering, Sending
  <2>3. ASSUME NEW s \in Requests
        PROVE  /\ pc'[s] \in {"new", "oneshot"} => pc'[s] = pc[s]
               /\ Traced(s)' <=> Traced(s)
               /\ Traced(s) /\ pc'[s] \in Answering => pc[s] \in Answering
               /\ Traced(s) /\ pc'[s] \in Sending => pc[s] \in Sending
        BY <2>1, <2>2 DEF PathInv, PollsOK, Traced
  <2>4. \A s \in Requests : Noted(s)'
        BY <2>1, <2>3 DEF IdsOK, Noted
  <2> QED BY <2>1, <2>4 DEF IdsOK, UuidsDiffer
<1>2. CASE UNCHANGED vars
      BY <1>2 DEF vars, identity, IdsOK, Noted, UuidsDiffer, Traced
<1> QED BY <1>1, <1>2, ArriveKeepsIds, TraceKeepsIds, FinishKeepsIds DEF Next, Poll

\* What is noted leads from the response to the span.
LEMMA IdsLead == IdsOK => IdsLeadToSpans
<1>0. ASSUME IdsOK, NEW r \in Requests, Traced(r), pc[r] \in {"body", "frame"}
      PROVE  response[r] # NoId
      BY <1>0 DEF IdsOK, Noted, Sending
<1> SUFFICES ASSUME IdsOK, NEW r \in Requests, response[r] # NoId
             PROVE  /\ marked[r] = response[r] \/ response[r] = OpaqueId
                    /\ arrival[r].id # NoId => response[r] = arrival[r].id
                    /\ arrival[r].id = NoId =>
                         \A s \in Requests \ {r} :
                           response[s] # response[r] \/ arrival[s].id = response[r]
    BY <1>0 DEF IdsLeadToSpans
<1>1. Noted(r) /\ response[r] = noted[r] /\ noted[r] # NoId
      BY DEF IdsOK, Noted
<1>2. ASSUME NEW s \in Requests \ {r}, arrival[r].id = NoId, response[s] = response[r]
      PROVE  arrival[s].id = response[r]
  <2>1. Noted(s) /\ noted[s] = noted[r] /\ noted[s] # NoId
        BY <1>1, <1>2 DEF IdsOK, Noted
  <2>2. arrival[s].id # NoId
        BY <1>1, <1>2, <2>1 DEF IdsOK, UuidsDiffer
  <2> QED BY <1>1, <2>1, <2>2 DEF Noted
<1> QED BY <1>1, <1>2 DEF Noted

\* Whatever ids clients bring and whichever request finishes first, a response
\* leads to the span of its own request.
THEOREM ResponseIdsLead == Spec => []IdsLeadToSpans
<1>1. Init => IdsOK
      BY DEF Init, IdsOK, Noted, UuidsDiffer, Answering, Sending
<1> QED BY <1>1, SpecPathInv, IdsOKNext, IdsLead, PTL DEF Spec

-----------------------------------------------------------------------------
(***************************************************************************)
(* Naturals and short sequences.                                           *)
(***************************************************************************)

\* Every set of naturals but the empty one has a least element.
LEMMA HasLeast ==
  ASSUME NEW N \in SUBSET Nat, N # {}
  PROVE  \E x \in N : \A y \in N : x <= y
<1>1. PICK x \in N : \A y \in N : ~ (<<y, x>> \in OpToRel(<, Nat))
      BY NatLessThanWellFounded, WFMin
<1>2. ASSUME NEW y \in N PROVE x <= y
  <2>1. <<y, x>> \in Nat \X Nat /\ <<y, x>>[1] = y /\ <<y, x>>[2] = x
        OBVIOUS
  <2>2. ~ (y < x)
        BY <1>1, <2>1 DEF OpToRel
  <2> QED BY <2>1, <2>2
<1> QED BY <1>2

\* What holds of 0 and passes from each natural to the next holds of all.
LEMMA Inductive ==
  ASSUME NEW A \in SUBSET Nat, 0 \in A, \A n \in A : n + 1 \in A
  PROVE  A = Nat
<1> SUFFICES ASSUME Nat \ A # {} PROVE FALSE
    OBVIOUS
<1>1. PICK x \in Nat \ A : \A y \in Nat \ A : x <= y
      BY HasLeast
<1>2. x - 1 \in Nat /\ x - 1 < x
      BY <1>1
<1>3. x - 1 \in A
      BY <1>1, <1>2
<1> QED BY <1>1, <1>2, <1>3

\* A least element is the least, and a greatest one the greatest.
LEMMA MinMaxAre ==
  ASSUME NEW N \in SUBSET Nat, NEW e \in N
  PROVE  /\ (\A y \in N : e <= y) => Min(N) = e
         /\ (\A y \in N : y <= e) => Max(N) = e
<1>1. ASSUME \A y \in N : e <= y PROVE Min(N) = e
  <2>1. \A x \in N : (\A y \in N : x <= y) => x = e
        BY <1>1
  <2> QED BY <1>1, <2>1 DEF Min
<1>2. ASSUME \A y \in N : y <= e PROVE Max(N) = e
  <2>1. \A x \in N : (\A y \in N : x >= y) => x = e
        BY <1>2
  <2>2. \A y \in N : e >= y
        BY <1>2
  <2> QED BY <2>1, <2>2 DEF Max
<1> QED BY <1>1, <1>2

-----------------------------------------------------------------------------
(***************************************************************************)
(* What proxies write.  A line begins with a name when the name is all of  *)
(* it or is followed by a comma.                                           *)
(***************************************************************************)
Lines == Seq(Addresses \cup Marks)
Begins(line, name) ==
  /\ Len(name) <= Len(line) /\ \A i \in 1 .. Len(name) : line[i] = name[i]
  /\ Len(name) < Len(line) => line[Len(name) + 1] = Comma
Leads(lines, name) == lines \in Seq(Lines) /\ lines # <<>> /\ Begins(lines[1], name)

\* A name at the end of a line leaves what the line begins with.
LEMMA LineGrows ==
  ASSUME NEW line \in Lines, NEW more \in Lines, NEW name \in Lines, Begins(line, name)
  PROVE  line \o <<Comma, Space>> \o more \in Lines /\ Begins(line \o <<Comma, Space>> \o more, name)
<1> DEFINE S == Addresses \cup Marks
<1>1. PICK comma \in Seq(S) : comma = <<Comma, Space>> /\ Len(comma) = 2 /\ comma[1] = Comma
  <2>1. Comma \in S /\ Space \in S
        BY DEF Marks
  <2> HIDE DEF S
  <2>2. <<Comma, Space>> \in Seq(S) /\ Len(<<Comma, Space>>) = 2 /\ <<Comma, Space>>[1] = Comma
        BY <2>1
  <2> QED BY <2>2
<1>2. line \in Seq(S) /\ more \in Seq(S) /\ name \in Seq(S)
      BY DEF Lines
<1> HIDE DEF S
<1>3. PICK mid : mid = line \o comma
      OBVIOUS
<1>4. /\ mid \in Seq(S) /\ Len(mid) = Len(line) + 2
      /\ \A i \in 1 .. Len(line) : mid[i] = line[i]
      /\ mid[Len(line) + 1] = Comma
  <2>1. /\ mid \in Seq(S) /\ Len(mid) = Len(line) + 2
        /\ \A i \in 1 .. Len(line) + 2 :
             mid[i] = IF i <= Len(line) THEN line[i] ELSE comma[i - Len(line)]
        BY <1>1, <1>2, <1>3, ConcatProperties
  <2>2. PICK n \in Nat : n = Len(line)
        BY <1>2
  <2>3. mid[n + 1] = comma[1]
        BY <2>1, <2>2
  <2> QED BY <1>1, <2>1, <2>2, <2>3
<1>5. PICK whole : whole = mid \o more
      OBVIOUS
<1>6. /\ whole \in Seq(S) /\ Len(whole) = Len(mid) + Len(more)
      /\ \A i \in 1 .. Len(mid) : whole[i] = mid[i]
  <2>1. /\ whole \in Seq(S) /\ Len(whole) = Len(mid) + Len(more)
        /\ \A i \in 1 .. Len(mid) + Len(more) :
             whole[i] = IF i <= Len(mid) THEN mid[i] ELSE more[i - Len(mid)]
    <3>1. mid \in Seq(S) /\ more \in Seq(S)
          BY <1>2, <1>4
    <3>2. PICK u \in Seq(S), v \in Seq(S) : u = mid /\ v = more
          BY <3>1
    <3>3. /\ u \o v \in Seq(S) /\ Len(u \o v) = Len(u) + Len(v)
          /\ \A i \in 1 .. Len(u) + Len(v) :
               (u \o v)[i] = IF i <= Len(u) THEN u[i] ELSE v[i - Len(u)]
          BY ConcatProperties
    <3> QED BY <1>5, <3>2, <3>3
  <2>2. PICK p \in Nat, q \in Nat : p = Len(mid) /\ q = Len(more)
        BY <1>2, <1>4
  <2>3. \A i \in 1 .. p : i \in 1 .. p + q /\ i <= p
        BY <2>2
  <2>4. \A i \in 1 .. p : whole[i] = mid[i]
        BY <2>1, <2>2, <2>3
  <2> QED BY <2>1, <2>2, <2>4
<1>7. Begins(whole, name)
  <2>1. PICK k \in Nat : k = Len(name)
        BY <1>2
  <2>2. PICK n \in Nat : n = Len(line)
        BY <1>2
  <2>3. k <= n /\ (\A i \in 1 .. k : line[i] = name[i]) /\ (k < n => line[k + 1] = Comma)
        BY <2>1, <2>2 DEF Begins
  <2>4. Len(mid) = n + 2 /\ Len(more) \in Nat /\ k < Len(whole)
        BY <1>2, <1>4, <1>6, <2>2, <2>3
  <2>5. \A i \in 1 .. n + 1 : whole[i] = mid[i]
        BY <1>6, <2>4
  <2>6. \A i \in 1 .. k : whole[i] = name[i]
        BY <1>4, <2>2, <2>3, <2>5
  <2>7. whole[k + 1] = Comma
    <3>1. CASE k < n
          BY <1>4, <2>2, <2>3, <2>5, <3>1
    <3>2. CASE k = n
          BY <1>4, <2>2, <2>5, <3>2
    <3> QED BY <2>3, <3>1, <3>2
  <2> QED BY <2>1, <2>4, <2>6, <2>7 DEF Begins
<1> QED BY <1>1, <1>3, <1>5, <1>6, <1>7 DEF Lines, S

\* A line that begins with the name leads.
LEMMA OneLeads ==
  ASSUME NEW name \in Lines, NEW line \in Lines, Begins(line, name)
  PROVE  Leads(<<line>>, name)
<1>1. <<line>> \in Seq(Lines) /\ <<line>> # <<>> /\ <<line>>[1] = line
      OBVIOUS
<1> QED BY <1>1 DEF Leads

\* A name alone begins with itself.
LEMMA BeginsItself == ASSUME NEW name \in Lines PROVE Begins(name, name)
<1>1. Len(name) \in Nat
      BY DEF Lines
<1> QED BY <1>1 DEF Begins

\* What one proxy writes below another leaves the first line's beginning.
LEMMA LinesGrow ==
  ASSUME NEW lines, NEW more \in Lines, NEW name \in Lines, Leads(lines, name)
  PROVE  Leads(Extend(lines, more), name) /\ Leads(Append(lines, more), name)
<1>1. lines \in Seq(Lines) /\ lines # <<>> /\ Begins(lines[1], name)
      BY DEF Leads
<1>2. PICK n \in Nat \ {0} : n = Len(lines)
      BY <1>1
<1>3. Leads(Append(lines, more), name)
  <2>1. /\ Append(lines, more) \in Seq(Lines) /\ Append(lines, more) # <<>>
        /\ Append(lines, more)[1] = lines[1]
        BY <1>1, <1>2, AppendProperties
  <2> QED BY <1>1, <2>1 DEF Leads
<1>4. PICK last \in Lines : last = lines[n]
      BY <1>1, <1>2
<1>5. PICK longer : longer = last \o <<Comma, Space>> \o more
      OBVIOUS
<1>6. Extend(lines, more) = Front(lines) \o <<longer>>
  <2>1. Last(lines) = last
        BY <1>2, <1>4 DEF Last
  <2>2. last # Opaque
        BY AddressAssumption DEF Lines
  <2> QED BY <1>1, <1>5, <2>1, <2>2 DEF Extend
<1>7. ASSUME NEW b \in Lines, Begins(last, b)
      PROVE  longer \in Lines /\ Begins(longer, b)
      BY <1>5, <1>7, LineGrows
<1>8. longer \in Lines
      BY <1>7, BeginsItself
<1>9. Leads(Extend(lines, more), name)
  <2>1. CASE n = 1
    <3>1. Front(lines) = <<>>
          BY <1>2, <2>1, SubSeqEmpty DEF Front
    <3>2. <<>> \o <<longer>> = <<longer>>
          OBVIOUS
    <3>3. Begins(longer, name)
          BY <1>1, <1>4, <1>7, <2>1
    <3> QED BY <1>6, <1>8, <3>1, <3>2, <3>3, OneLeads
  <2>2. CASE n > 1
    <3>1. PICK front : front = Front(lines)
          OBVIOUS
    <3>2. /\ front \in Seq(Lines) /\ Len(front) = n - 1 /\ front[1] = lines[1]
      <4>1. front = SubSeq(lines, 1, n - 1) /\ \A i \in 1 .. n - 1 : lines[i] \in Lines
            BY <1>1, <1>2, <3>1 DEF Front
      <4>2. /\ front \in Seq(Lines) /\ Len(front) = n - 1
            /\ \A i \in 1 .. n - 1 : front[i] = lines[i]
            BY <1>2, <2>2, <4>1, SubSeqProperties
      <4> QED BY <2>2, <4>2
    <3>3. PICK one \in Seq(Lines) : one = <<longer>> /\ Len(one) = 1
      <4>1. <<longer>> \in Seq(Lines) /\ Len(<<longer>>) = 1
            BY <1>8
      <4> QED BY <4>1
    <3>4. PICK all : all = front \o one
          OBVIOUS
    <3>5. all \in Seq(Lines) /\ Len(all) = n /\ all[1] = front[1]
          BY <1>2, <2>2, <3>2, <3>3, <3>4, ConcatProperties
    <3>6. all # <<>>
          BY <1>2, <3>5
    <3> QED BY <1>1, <1>6, <3>1, <3>2, <3>3, <3>4, <3>5, <3>6 DEF Leads
  <2> QED BY <1>2, <2>1, <2>2
<1> QED BY <1>3, <1>9

\* The first proxy that writes to a header leads it, whoever writes after it.
LEMMA FirstWriterLeads ==
  ASSUME NEW len \in Nat, NEW g, NEW first \in 1 .. len, NEW name \in Lines, g[0] = <<>>,
         \A n \in 1 .. len : n < first => g[n] = g[n - 1],
         g[first - 1] = <<>> => g[first] = <<name>>,
         \A n \in 1 .. len : n > first =>
           \/ g[n] = g[n - 1]
           \/ \E more \in Lines : \/ g[n] = Extend(g[n - 1], more)
                                  \/ g[n] = Append(g[n - 1], more)
  PROVE  Leads(g[len], name)
<1> DEFINE Good(n) == /\ n < first => g[n] = <<>>
                      /\ n >= first => Leads(g[n], name)
           A == {n \in Nat : n <= len => Good(n)}
<1>1. 0 \in A
      OBVIOUS
<1>2. ASSUME NEW n \in A PROVE n + 1 \in A
  <2> SUFFICES ASSUME n + 1 <= len PROVE Good(n + 1)
      OBVIOUS
  <2>1. n \in Nat /\ n + 1 \in 1 .. len /\ n + 1 - 1 = n /\ Good(n)
        OBVIOUS
  <2> HIDE DEF A
  <2>2. CASE n + 1 < first
        BY <2>1, <2>2
  <2>3. CASE n + 1 = first
    <3>1. g[n] = <<>> /\ first - 1 = n
          BY <2>1, <2>3
    <3>2. g[first] = <<name>>
          BY <3>1
    <3>3. g[n + 1] = <<name>>
          BY <2>3, <3>2
    <3>4. Leads(<<name>>, name)
          BY BeginsItself, OneLeads
    <3> QED BY <2>3, <3>3, <3>4
  <2>4. CASE n + 1 > first
    <3>1. Leads(g[n], name)
          BY <2>1, <2>4
    <3>2. Leads(g[n + 1], name)
      <4>1. CASE g[n + 1] = g[n]
            BY <3>1, <4>1
      <4>2. ASSUME NEW more \in Lines,
                   g[n + 1] = Extend(g[n], more) \/ g[n + 1] = Append(g[n], more)
            PROVE  Leads(g[n + 1], name)
            BY <3>1, <4>2, LinesGrow
      <4> QED BY <2>1, <2>4, <4>1, <4>2
    <3> QED BY <2>1, <2>4, <3>2
  <2> QED BY <2>1, <2>2, <2>3, <2>4
<1>3. A \in SUBSET Nat
      OBVIOUS
<1> HIDE DEF A
<1>4. len \in A
      BY <1>1, <1>2, <1>3, Inductive
<1> QED BY <1>4 DEF A

\* The headers after each proxy.
Relayed(a, f) ==
  /\ f[0] = NoHeaders
  /\ \A n \in 1 .. Len(a.way) : f[n] = Relay(f[n - 1], Nodes(a)[n], a.way[n])

\* That is what HeadersOf computes: a function of that kind exists, since one
\* for the first n proxies extends to one for the first n + 1.
LEMMA HeadersAreRelayed ==
  ASSUME NEW a, Len(a.way) \in Nat
  PROVE  \E f : Relayed(a, f) /\ HeadersOf(a) = f[Len(a.way)]
<1> DEFINE F(m, g) == [n \in 0 .. m |-> IF n = 0 THEN NoHeaders
                                        ELSE Relay(g[n - 1], Nodes(a)[n], a.way[n])]
           A == {m \in Nat : \E g : g = F(m, g)}
           c == CHOOSE g : g = F(Len(a.way), g)
<1>1. 0 \in A
  <2>1. [n \in 0 .. 0 |-> NoHeaders] = F(0, [n \in 0 .. 0 |-> NoHeaders])
        OBVIOUS
  <2> QED BY <2>1
<1>2. ASSUME NEW m \in A PROVE m + 1 \in A
  <2>1. PICK g : g = F(m, g)
        OBVIOUS
  <2> DEFINE next(n, before) == Relay(before, Nodes(a)[n], a.way[n])
             h == [n \in 0 .. m + 1 |-> IF n <= m THEN g[n] ELSE next(n, g[m])]
  <2>2. m \in Nat
        OBVIOUS
  <2>3. ASSUME NEW n \in 0 .. m + 1
        PROVE  h[n] = IF n = 0 THEN NoHeaders ELSE next(n, h[n - 1])
    <3>1. CASE n = 0
      <4>1. g[0] = NoHeaders
            BY <2>1, <2>2
      <4> QED BY <2>2, <3>1, <4>1
    <3>2. CASE n \in 1 .. m
      <4>1. h[n] = g[n] /\ h[n - 1] = g[n - 1]
            BY <2>2, <3>2
      <4>2. n \in 0 .. m /\ n # 0
            BY <2>2, <3>2
      <4>3. g[n] = next(n, g[n - 1])
            BY <2>1, <4>2
      <4> QED BY <4>1, <4>2, <4>3
    <3>3. CASE n = m + 1
      <4>1. h[n] = next(n, g[m]) /\ h[n - 1] = g[m]
            BY <2>2, <3>3
      <4> QED BY <2>2, <3>3, <4>1
    <3> QED BY <2>2, <3>1, <3>2, <3>3
  <2>4. h = F(m + 1, h)
        BY <2>3
  <2> HIDE DEF h, F
  <2> QED BY <2>2, <2>4
<1>3. Len(a.way) \in A
  <2>1. A \in SUBSET Nat
        OBVIOUS
  <2> HIDE DEF A
  <2>2. A = Nat
        BY <1>1, <1>2, <2>1, Inductive
  <2> QED BY <2>2
<1>4. c = F(Len(a.way), c)
  <2> HIDE DEF F
  <2> QED BY <1>3
<1>5. HeadersOf(a) = c[Len(a.way)]
      BY DEF HeadersOf
<1> HIDE DEF c
<1>6. Relayed(a, c)
  <2>1. c[0] = NoHeaders
        BY <1>4
  <2>2. ASSUME NEW n \in 1 .. Len(a.way)
        PROVE  c[n] = Relay(c[n - 1], Nodes(a)[n], a.way[n])
    <3>1. n \in 0 .. Len(a.way) /\ n # 0
          OBVIOUS
    <3> QED BY <1>4, <3>1
  <2> QED BY <2>1, <2>2 DEF Relayed
<1> QED BY <1>5, <1>6

\* The nodes are addresses, the first of them the client's.
LEMMA NodesAre ==
  ASSUME NEW r \in Requests, NEW a \in Arrivals[r]
  PROVE  /\ a.way \in Seq(Customs) /\ Len(a.way) \in Nat /\ a.client \in Addresses
         /\ Nodes(a) \in Seq(Addresses) /\ Len(Nodes(a)) = Len(a.way) + 1
         /\ Nodes(a)[1] = a.client
<1>1. a.way \in Seq(Customs) /\ Len(a.way) <= Len(Proxies)
      BY WayAssumption
<1>2. a.client \in Addresses
      BY DEF Addresses
<1>3. PICK n \in Nat : n = Len(a.way) /\ n <= Len(Proxies)
      BY <1>1
<1>4. PICK rest : rest = SubSeq(Proxies, 1, n)
      OBVIOUS
<1>5. rest \in Seq(Addresses) /\ Len(rest) = n
  <2>1. \A i \in 1 .. n : Proxies[i] \in Addresses
        BY <1>3, AddressAssumption
  <2>2. rest \in Seq(Addresses) /\ Len(rest) = IF 1 <= n THEN n - 1 + 1 ELSE 0
        BY <1>4, <2>1, SubSeqProperties
  <2> QED BY <1>3, <2>2
<1>6. PICK one \in Seq(Addresses) : one = <<a.client>> /\ Len(one) = 1 /\ one[1] = a.client
  <2>1. <<a.client>> \in Seq(Addresses) /\ Len(<<a.client>>) = 1 /\ <<a.client>>[1] = a.client
        BY <1>2
  <2> QED BY <2>1
<1>7. /\ one \o rest \in Seq(Addresses) /\ Len(one \o rest) = Len(one) + Len(rest)
      /\ \A i \in 1 .. Len(one) + Len(rest) :
           (one \o rest)[i] = IF i <= Len(one) THEN one[i] ELSE rest[i - Len(one)]
      BY <1>5, <1>6, ConcatProperties
<1>8. Nodes(a) = one \o rest
      BY <1>3, <1>4, <1>6 DEF Nodes
<1>9. (one \o rest)[1] = a.client /\ Len(one \o rest) = n + 1
      BY <1>3, <1>5, <1>6, <1>7
<1> QED BY <1>1, <1>2, <1>3, <1>7, <1>8, <1>9

\* What one proxy does to X-Forwarded-For, by its custom.
LEMMA RelayXff ==
  ASSUME NEW headers, NEW from, NEW custom
  PROVE  /\ custom \in XffCustoms =>
              \/ Relay(headers, from, custom).xff = Extend(headers.xff, <<from>>)
              \/ Relay(headers, from, custom).xff = Append(headers.xff, <<from>>)
         /\ custom \notin XffCustoms =>
              \/ Relay(headers, from, custom).xff = headers.xff
              \/ custom = "blank" /\ Relay(headers, from, custom).xff = << <<Space>> >>
              \/ custom = "opaque" /\ Relay(headers, from, custom).xff = <<Opaque>>
BY DEF Relay, XffCustoms

\* What one proxy does to X-Real-IP.
LEMMA RelayReal ==
  ASSUME NEW headers, NEW from, NEW custom
  PROVE  Relay(headers, from, custom).real =
           IF custom \in RealCustoms THEN << <<from>> >> ELSE headers.real
BY DEF Relay, RealCustoms

\* How a node is named in Forwarded, by the custom of the proxy that names it.
Element(from, custom) ==
  IF custom = "forwarded" THEN <<ForEq, from>>
  ELSE <<ByEq, Semicolon, Space, ForEq, Quote, from, Quote>>

\* What one proxy does to Forwarded.
LEMMA RelayForwarded ==
  ASSUME NEW headers, NEW from, NEW custom
  PROVE  /\ custom \in ForwardedCustoms =>
              LET lines == Relay(headers, from, custom).forwarded
              IN  \/ lines = Extend(headers.forwarded, Element(from, custom))
                  \/ lines = Append(headers.forwarded, Element(from, custom))
         /\ custom \notin ForwardedCustoms =>
              Relay(headers, from, custom).forwarded = headers.forwarded
BY DEF Relay, ForwardedCustoms, Element

\* The names are lines.
LEMMA NamesAreLines ==
  ASSUME NEW from \in Addresses
  PROVE  <<from>> \in Lines /\ \A custom : Element(from, custom) \in Lines
<1> DEFINE S == Addresses \cup Marks
<1>1. {from, Semicolon, Space, Quote, ForEq, ByEq} \subseteq S
      BY DEF Marks
<1> HIDE DEF S
<1>2. /\ <<from>> \in Seq(S) /\ <<ForEq, from>> \in Seq(S)
      /\ <<ByEq, Semicolon, Space, ForEq, Quote, from, Quote>> \in Seq(S)
      BY <1>1
<1> QED BY <1>2 DEF Lines, Element, S

\* A line of its own is what is written to an empty header.
LEMMA WrittenFirst ==
  ASSUME NEW name
  PROVE  Extend(<<>>, name) = <<name>> /\ Append(<<>>, name) = <<name>>
BY DEF Extend

\* The first proxy that names a node in X-Forwarded-For leads it, unless
\* there is a proxy that mutes it.
LEMMA XffWritten ==
  ASSUME NEW r \in Requests, NEW a \in Arrivals[r], NEW f, Relayed(a, f),
         Hops(a, {"blank", "opaque"}) = {},
         NEW first \in Hops(a, XffCustoms), \A n \in Hops(a, XffCustoms) : first <= n
  PROVE  Leads(f[Len(a.way)].xff, <<Nodes(a)[first]>>)
<1>1. PICK len \in Nat : len = Len(a.way) /\ DOMAIN a.way = 1 .. len
      BY NodesAre
<1>2. PICK g : g = [n \in 0 .. len |-> f[n].xff]
      OBVIOUS
<1>3. \A n \in 1 .. len : g[n] = f[n].xff /\ g[n - 1] = f[n - 1].xff
      BY <1>2
<1>4. \A n \in 1 .. len : Nodes(a)[n] \in Addresses
  <2>1. Nodes(a) \in Seq(Addresses) /\ Len(Nodes(a)) = len + 1
        BY <1>1, NodesAre
  <2> QED BY <1>1, <2>1
<1>5. ASSUME NEW n \in 1 .. len
      PROVE  /\ n \in Hops(a, XffCustoms) =>
                  \/ g[n] = Extend(g[n - 1], <<Nodes(a)[n]>>)
                  \/ g[n] = Append(g[n - 1], <<Nodes(a)[n]>>)
             /\ n \notin Hops(a, XffCustoms) => g[n] = g[n - 1]
  <2>1. f[n] = Relay(f[n - 1], Nodes(a)[n], a.way[n])
        BY <1>1 DEF Relayed
  <2>2. n \in Hops(a, XffCustoms) <=> a.way[n] \in XffCustoms
        BY <1>1 DEF Hops
  <2>3. a.way[n] \notin {"blank", "opaque"}
        BY <1>1 DEF Hops
  <2>4. PICK h, node, custom : h = f[n - 1] /\ node = Nodes(a)[n] /\ custom = a.way[n]
        OBVIOUS
  <2>5. PICK lines : lines = Relay(h, node, custom).xff
        OBVIOUS
  <2>6. /\ custom \in XffCustoms => \/ lines = Extend(h.xff, <<node>>)
                                   \/ lines = Append(h.xff, <<node>>)
        /\ custom \notin XffCustoms => lines = h.xff \/ custom \in {"blank", "opaque"}
        BY <2>5, RelayXff
  <2>7. lines = g[n] /\ h.xff = g[n - 1]
        BY <1>3, <2>1, <2>4, <2>5
  <2> QED BY <2>2, <2>3, <2>4, <2>6, <2>7
<1>6. first \in 1 .. len /\ \A n \in 1 .. len : n < first => n \notin Hops(a, XffCustoms)
      BY <1>1 DEF Hops
<1>7. PICK name \in Lines : name = <<Nodes(a)[first]>>
      BY <1>4, <1>6, NamesAreLines
<1>8. g[0] = <<>>
      BY <1>1, <1>2 DEF Relayed, NoHeaders
<1>9. \A n \in 1 .. len : n < first => g[n] = g[n - 1]
      BY <1>5, <1>6
<1>10. g[first - 1] = <<>> => g[first] = <<name>>
       BY <1>5, <1>6, <1>7, WrittenFirst
<1>11. ASSUME NEW n \in 1 .. len
       PROVE  \/ g[n] = g[n - 1]
              \/ \E more \in Lines : \/ g[n] = Extend(g[n - 1], more)
                                     \/ g[n] = Append(g[n - 1], more)
  <2>1. <<Nodes(a)[n]>> \in Lines
        BY <1>4, NamesAreLines
  <2> QED BY <1>5, <2>1
<1>12. Leads(g[len], name)
       BY <1>6, <1>8, <1>9, <1>10, <1>11, FirstWriterLeads
<1> QED BY <1>1, <1>2, <1>7, <1>12

\* The first proxy that names a node in Forwarded leads it.
LEMMA ForwardedWritten ==
  ASSUME NEW r \in Requests, NEW a \in Arrivals[r], NEW f, Relayed(a, f),
         NEW first \in Hops(a, ForwardedCustoms),
         \A n \in Hops(a, ForwardedCustoms) : first <= n
  PROVE  Leads(f[Len(a.way)].forwarded, Element(Nodes(a)[first], a.way[first]))
<1>1. PICK len \in Nat : len = Len(a.way) /\ DOMAIN a.way = 1 .. len
      BY NodesAre
<1>2. PICK g : g = [n \in 0 .. len |-> f[n].forwarded]
      OBVIOUS
<1>3. \A n \in 1 .. len : g[n] = f[n].forwarded /\ g[n - 1] = f[n - 1].forwarded
      BY <1>2
<1>4. \A n \in 1 .. len : Element(Nodes(a)[n], a.way[n]) \in Lines
  <2>1. Nodes(a) \in Seq(Addresses) /\ Len(Nodes(a)) = len + 1
        BY <1>1, NodesAre
  <2>2. \A n \in 1 .. len : Nodes(a)[n] \in Addresses
        BY <1>1, <2>1
  <2> QED BY <2>2, NamesAreLines
<1>5. ASSUME NEW n \in 1 .. len
      PROVE  /\ n \in Hops(a, ForwardedCustoms) =>
                  \/ g[n] = Extend(g[n - 1], Element(Nodes(a)[n], a.way[n]))
                  \/ g[n] = Append(g[n - 1], Element(Nodes(a)[n], a.way[n]))
             /\ n \notin Hops(a, ForwardedCustoms) => g[n] = g[n - 1]
  <2>1. f[n] = Relay(f[n - 1], Nodes(a)[n], a.way[n])
        BY <1>1 DEF Relayed
  <2>2. n \in Hops(a, ForwardedCustoms) <=> a.way[n] \in ForwardedCustoms
        BY <1>1 DEF Hops
  <2>3. PICK h, node, custom : h = f[n - 1] /\ node = Nodes(a)[n] /\ custom = a.way[n]
        OBVIOUS
  <2>4. PICK lines : lines = Relay(h, node, custom).forwarded
        OBVIOUS
  <2>5. /\ custom \in ForwardedCustoms => \/ lines = Extend(h.forwarded, Element(node, custom))
                                         \/ lines = Append(h.forwarded, Element(node, custom))
        /\ custom \notin ForwardedCustoms => lines = h.forwarded
        BY <2>4, RelayForwarded
  <2>6. lines = g[n] /\ h.forwarded = g[n - 1]
        BY <1>3, <2>1, <2>3, <2>4
  <2> QED BY <2>2, <2>3, <2>5, <2>6
<1>6. first \in 1 .. len /\ \A n \in 1 .. len : n < first => n \notin Hops(a, ForwardedCustoms)
      BY <1>1 DEF Hops
<1>7. PICK name \in Lines : name = Element(Nodes(a)[first], a.way[first])
      BY <1>4, <1>6
<1>8. g[0] = <<>>
      BY <1>1, <1>2 DEF Relayed, NoHeaders
<1>9. \A n \in 1 .. len : n < first => g[n] = g[n - 1]
      BY <1>5, <1>6
<1>10. g[first - 1] = <<>> => g[first] = <<name>>
       BY <1>5, <1>6, <1>7, WrittenFirst
<1>11. ASSUME NEW n \in 1 .. len
       PROVE  \/ g[n] = g[n - 1]
              \/ \E more \in Lines : \/ g[n] = Extend(g[n - 1], more)
                                     \/ g[n] = Append(g[n - 1], more)
       BY <1>4, <1>5
<1>12. Leads(g[len], name)
       BY <1>6, <1>8, <1>9, <1>10, <1>11, FirstWriterLeads
<1> QED BY <1>1, <1>2, <1>7, <1>12

\* The headers nobody named a node in, or only the last of them in X-Real-IP.
LEMMA LastAndUnwritten ==
  ASSUME NEW r \in Requests, NEW a \in Arrivals[r], NEW f, Relayed(a, f)
  PROVE  /\ Hops(a, XffCustoms) = {} =>
              f[Len(a.way)].xff \in {<<>>, << <<Space>> >>, <<Opaque>>}
         /\ Hops(a, ForwardedCustoms) = {} => f[Len(a.way)].forwarded = <<>>
         /\ Hops(a, RealCustoms) = {} => f[Len(a.way)].real = <<>>
         /\ \A last \in Hops(a, RealCustoms) :
              (\A n \in Hops(a, RealCustoms) : n <= last) =>
                f[Len(a.way)].real = << <<Nodes(a)[last]>> >>
<1>1. PICK len \in Nat : len = Len(a.way) /\ DOMAIN a.way = 1 .. len
      BY NodesAre
<1> DEFINE Mutes == {<<>>, << <<Space>> >>, <<Opaque>>}
           Latest(n, m) == m <= n /\ \A k \in Hops(a, RealCustoms) : k <= n => k <= m
           Good(n) ==
             /\ Hops(a, XffCustoms) = {} => f[n].xff \in Mutes
             /\ Hops(a, ForwardedCustoms) = {} => f[n].forwarded = <<>>
             /\ Hops(a, RealCustoms) = {} => f[n].real = <<>>
             /\ \A m \in Hops(a, RealCustoms) : Latest(n, m) => f[n].real = << <<Nodes(a)[m]>> >>
           A == {n \in Nat : n <= len => Good(n)}
<1>2. Hops(a, RealCustoms) \subseteq 1 .. len
      BY <1>1 DEF Hops
<1>3. 0 \in A
  <2>1. f[0].xff = <<>> /\ f[0].forwarded = <<>> /\ f[0].real = <<>>
        BY DEF Relayed, NoHeaders
  <2>2. \A m \in Hops(a, RealCustoms) : ~ (m <= 0)
        BY <1>2
  <2> QED BY <2>1, <2>2
<1>4. ASSUME NEW n \in A PROVE n + 1 \in A
  <2> SUFFICES ASSUME n + 1 <= len PROVE Good(n + 1)
      OBVIOUS
  <2>1. n \in Nat /\ n + 1 \in 1 .. len /\ n + 1 - 1 = n /\ Good(n)
        OBVIOUS
  <2> HIDE DEF A
  <2>2. PICK k \in 1 .. len : k = n + 1 /\ f[k] = Relay(f[n], Nodes(a)[k], a.way[k])
        BY <1>1, <2>1 DEF Relayed
  <2>3. \A customs : k \in Hops(a, customs) <=> a.way[k] \in customs
        BY <1>1 DEF Hops
  <2> DEFINE relayed == Relay(f[n], Nodes(a)[k], a.way[k])
  <2>4. /\ a.way[k] \notin XffCustoms =>
             relayed.xff \in {f[n].xff, << <<Space>> >>, <<Opaque>>}
        /\ a.way[k] \notin ForwardedCustoms => relayed.forwarded = f[n].forwarded
        /\ relayed.real = IF a.way[k] \in RealCustoms THEN << <<Nodes(a)[k]>> >> ELSE f[n].real
    <3>1. PICK h, node, custom : h = f[n] /\ node = Nodes(a)[k] /\ custom = a.way[k]
          OBVIOUS
    <3>2. /\ custom \notin XffCustoms =>
               Relay(h, node, custom).xff \in {h.xff, << <<Space>> >>, <<Opaque>>}
          /\ custom \notin ForwardedCustoms => Relay(h, node, custom).forwarded = h.forwarded
          /\ Relay(h, node, custom).real =
               IF custom \in RealCustoms THEN << <<node>> >> ELSE h.real
          BY RelayXff, RelayForwarded, RelayReal
    <3> QED BY <3>1, <3>2
  <2> HIDE DEF relayed
  <2>5. Hops(a, XffCustoms) = {} => f[k].xff \in Mutes
    <3>1. SUFFICES ASSUME Hops(a, XffCustoms) = {} PROVE f[k].xff \in Mutes
          OBVIOUS
    <3>2. f[n].xff \in Mutes /\ a.way[k] \notin XffCustoms
          BY <2>1, <2>3, <3>1
    <3> QED BY <2>2, <2>4, <3>2 DEF relayed
  <2>6. Hops(a, ForwardedCustoms) = {} => f[k].forwarded = <<>>
        BY <2>1, <2>2, <2>3, <2>4 DEF relayed
  <2>7. f[k].real = IF k \in Hops(a, RealCustoms) THEN << <<Nodes(a)[k]>> >> ELSE f[n].real
        BY <2>2, <2>3, <2>4 DEF relayed
  <2>8. Hops(a, RealCustoms) = {} => f[k].real = <<>>
        BY <2>1, <2>7
  <2>9. ASSUME NEW m \in Hops(a, RealCustoms), Latest(k, m)
        PROVE  f[k].real = << <<Nodes(a)[m]>> >>
    <3>1. CASE k \in Hops(a, RealCustoms)
      <4>1. m = k
            BY <1>2, <2>9, <3>1
      <4> QED BY <2>7, <3>1, <4>1
    <3>2. CASE k \notin Hops(a, RealCustoms)
      <4>1. Latest(n, m)
            BY <1>2, <2>1, <2>2, <2>9, <3>2
      <4> QED BY <2>1, <2>7, <3>2, <4>1
    <3> QED BY <3>1, <3>2
  <2> QED BY <2>2, <2>5, <2>6, <2>8, <2>9
<1>5. A \in SUBSET Nat
      OBVIOUS
<1> HIDE DEF A
<1>6. len \in A
      BY <1>3, <1>4, <1>5, Inductive
<1>7. Good(len)
      BY <1>6 DEF A
<1> QED BY <1>1, <1>2, <1>7

-----------------------------------------------------------------------------
(***************************************************************************)
(* What is read of it.                                                     *)
(***************************************************************************)

\* Addresses and keywords are no separators, and none is another.
LEMMA SymbolsDiffer ==
  /\ \A x \in Addresses : x \notin {Comma, Semicolon, Space, Quote}
  /\ Comma # Semicolon /\ Comma # Space /\ Semicolon # Space
  /\ ForEq \notin {Comma, Semicolon, Space, Quote} /\ ByEq \notin {Comma, Semicolon, Space, ForEq}
  /\ Quote \notin {Comma, Semicolon, Space}
<1>1. \A x \in Addresses : x \notin {Comma, Semicolon, Space, Quote}
      BY AddressAssumption DEF Marks
<1>2. Comma # Semicolon /\ Comma # Space /\ Semicolon # Space
      BY Zenon DEF Comma, Semicolon, Space
<1>3. ForEq # Comma /\ ForEq # Semicolon /\ ForEq # Space /\ ForEq # Quote
      BY Zenon DEF ForEq, Comma, Semicolon, Space, Quote
<1>4. ByEq # Comma /\ ByEq # Semicolon /\ ByEq # Space /\ ByEq # ForEq
      BY Zenon DEF ByEq, Comma, Semicolon, Space, ForEq
<1>5. Quote # Comma /\ Quote # Semicolon /\ Quote # Space
      BY Zenon DEF Quote, Comma, Semicolon, Space
<1> QED BY <1>1, <1>2, <1>3, <1>4, <1>5

\* A part ends before the first separator, or with the line.
LEMMA PartIs ==
  ASSUME NEW line \in Lines, NEW separators, NEW start \in Nat \ {0},
         NEW end \in Nat, start <= end, end <= Len(line) + 1,
         \A i \in start .. end - 1 : line[i] \notin separators,
         end = Len(line) + 1 \/ line[end] \in separators
  PROVE  Part(line, separators, start) = Trim(SubSeq(line, start, end - 1))
<1> DEFINE ends == {i \in start .. Len(line) : line[i] \in separators} \cup {Len(line) + 1}
<1>1. Len(line) \in Nat
      BY DEF Lines
<1>2. ends \in SUBSET Nat /\ end \in ends
      BY <1>1
<1>3. \A y \in ends : end <= y
      BY <1>1
<1>4. Part(line, separators, start) = Trim(SubSeq(line, start, Min(ends) - 1))
      BY DEF Part
<1> HIDE DEF ends
<1>5. Min(ends) = end
      BY <1>2, <1>3, MinMaxAre
<1> QED BY <1>4, <1>5

\* What has no white space at its ends is what is left of what has some.
LEMMA TrimIs ==
  ASSUME NEW part \in Lines, NEW s \in 1 .. Len(part), NEW e \in 1 .. Len(part),
         part[s] # Space, part[e] # Space,
         \A i \in 1 .. Len(part) : part[i] # Space => s <= i /\ i <= e
  PROVE  Trim(part) = SubSeq(part, s, e)
<1> DEFINE ink == {i \in DOMAIN part : part[i] # Space}
<1>1. Len(part) \in Nat /\ DOMAIN part = 1 .. Len(part)
      BY DEF Lines
<1>2. ink \in SUBSET Nat /\ s \in ink /\ e \in ink
      BY <1>1
<1>3. \A y \in ink : s <= y /\ y <= e
      BY <1>1
<1>4. ink # {} => Trim(part) = SubSeq(part, Min(ink), Max(ink))
      BY DEF Trim
<1> HIDE DEF ink
<1>5. Min(ink) = s /\ Max(ink) = e
      BY <1>2, <1>3, MinMaxAre
<1> QED BY <1>2, <1>4, <1>5

\* A slice of a line is a line.
LEMMA SliceOfLine ==
  ASSUME NEW line \in Lines, NEW m \in 1 .. Len(line), NEW n \in m .. Len(line)
  PROVE  /\ SubSeq(line, m, n) \in Lines /\ Len(SubSeq(line, m, n)) = n - m + 1
         /\ \A i \in 1 .. n - m + 1 : SubSeq(line, m, n)[i] = line[m + i - 1]
<1> DEFINE S == Addresses \cup Marks
<1>1. line \in Seq(S) /\ Len(line) \in Nat
      BY DEF Lines
<1> HIDE DEF S
<1>2. m \in Int /\ n \in Int /\ m <= n /\ \A i \in m .. n : line[i] \in S
      BY <1>1
<1>3. PICK slice : slice = SubSeq(line, m, n)
      OBVIOUS
<1>4. /\ slice \in Seq(S) /\ Len(slice) = IF m <= n THEN n - m + 1 ELSE 0
      /\ \A i \in 1 .. n - m + 1 : slice[i] = line[m + i - 1]
      BY <1>2, <1>3, SubSeqProperties
<1>5. slice \in Lines
      BY <1>4 DEF Lines, S
<1> QED BY <1>2, <1>3, <1>4, <1>5

\* So is what a line begins with.
LEMMA StartOfLine ==
  ASSUME NEW line \in Lines, NEW n \in 1 .. Len(line)
  PROVE  /\ SubSeq(line, 1, n) \in Lines /\ Len(SubSeq(line, 1, n)) = n
         /\ \A i \in 1 .. n : SubSeq(line, 1, n)[i] = line[i]
<1>1. Len(line) \in Nat
      BY DEF Lines
<1>2. PICK m \in 1 .. Len(line) : m = 1 /\ n \in m .. Len(line) /\ n - m + 1 = n
      BY <1>1
<1>3. /\ SubSeq(line, m, n) \in Lines /\ Len(SubSeq(line, m, n)) = n - m + 1
      /\ \A i \in 1 .. n - m + 1 : SubSeq(line, m, n)[i] = line[m + i - 1]
      BY <1>2, SliceOfLine
<1>4. \A i \in 1 .. n : m + i - 1 = i
      BY <1>2
<1> QED BY <1>2, <1>3, <1>4

\* Lines that agree place by place are the same.
LEMMA SameLine ==
  ASSUME NEW line \in Lines, NEW other \in Lines, Len(line) = Len(other),
         \A i \in 1 .. Len(line) : line[i] = other[i]
  PROVE  line = other
BY SeqEqual DEF Lines

\* A part that is not blank at either end stays as it is.
LEMMA TrimmedIs ==
  ASSUME NEW part \in Lines, Len(part) >= 1, part[1] # Space, part[Len(part)] # Space
  PROVE  Trim(part) = part
<1>1. PICK n \in Nat : n = Len(part) /\ n >= 1
      BY DEF Lines
<1>2. PICK s, e \in 1 .. Len(part) : s = 1 /\ e = n
      BY <1>1
<1>3. Trim(part) = SubSeq(part, s, e)
  <2>1. part[s] # Space /\ part[e] # Space
        BY <1>1, <1>2
  <2>2. \A i \in 1 .. Len(part) : part[i] # Space => s <= i /\ i <= e
        BY <1>1, <1>2
  <2> QED BY <2>1, <2>2, TrimIs
<1>4. /\ SubSeq(part, 1, e) \in Lines /\ Len(SubSeq(part, 1, e)) = e
      /\ \A i \in 1 .. e : SubSeq(part, 1, e)[i] = part[i]
      BY StartOfLine
<1>5. SubSeq(part, 1, e) = part
      BY <1>1, <1>2, <1>4, SameLine
<1> QED BY <1>2, <1>3, <1>5

\* A part of what a line begins with, where that has no other separator, is the
\* first part of the line.
LEMMA FirstPart ==
  ASSUME NEW line \in Lines, NEW name \in Lines, Begins(line, name), Len(name) >= 1,
         NEW separators, Comma \in separators,
         \A i \in 1 .. Len(name) : name[i] \notin separators,
         name[1] # Space, name[Len(name)] # Space
  PROVE  Part(line, separators, 1) = name
<1>1. PICK n \in Nat : n = Len(name) /\ n >= 1
      BY DEF Lines
<1>2. PICK len \in Nat : len = Len(line)
      BY DEF Lines
<1>3. /\ n <= len /\ \A i \in 1 .. n : line[i] = name[i]
      /\ n < len => line[n + 1] = Comma
      BY <1>1, <1>2 DEF Begins
<1>4. Part(line, separators, 1) = Trim(SubSeq(line, 1, n))
  <2>1. \A i \in 1 .. n + 1 - 1 : line[i] \notin separators
        BY <1>1, <1>3
  <2>2. n + 1 = len + 1 \/ line[n + 1] \in separators
        BY <1>3
  <2>3. PICK end \in Nat : end = n + 1
        OBVIOUS
  <2>4. Part(line, separators, 1) = Trim(SubSeq(line, 1, end - 1))
        BY <1>2, <1>3, <2>1, <2>2, <2>3, PartIs
  <2> QED BY <2>3, <2>4
<1>5. PICK slice \in Lines : /\ slice = SubSeq(line, 1, n) /\ Len(slice) = n
                             /\ \A i \in 1 .. n : slice[i] = line[i]
  <2>1. n \in 1 .. Len(line)
        BY <1>1, <1>2, <1>3
  <2> QED BY <2>1, StartOfLine
<1>6. slice = name
  <2>1. Len(slice) = Len(name) /\ \A i \in 1 .. Len(slice) : slice[i] = name[i]
        BY <1>1, <1>3, <1>5
  <2> QED BY <2>1, SameLine
<1> QED BY <1>4, <1>5, <1>6, TrimmedIs

\* The name X-Forwarded-For begins with is read.
LEMMA XffRead ==
  ASSUME NEW lines, NEW x \in Addresses, Leads(lines, <<x>>)
  PROVE  XForwardedFor(lines) = << <<x>> >>
<1>1. PICK name \in Lines : name = <<x>> /\ Len(name) = 1 /\ name[1] = x
  <2>1. <<x>> \in Lines /\ Len(<<x>>) = 1 /\ <<x>>[1] = x
        BY NamesAreLines
  <2> QED BY <2>1
<1>2. PICK line \in Lines : line = lines[1] /\ Begins(line, name)
  <2>1. lines[1] \in Lines
        BY DEF Leads
  <2> QED BY <1>1, <2>1 DEF Leads
<1>3. Readable(lines)
  <2>1. line # Opaque
        BY AddressAssumption DEF Lines
  <2> QED BY <1>2, <2>1 DEF Readable, Leads
<1>4. Part(line, {Comma}, 1) = name
  <2>1. x # Comma /\ x # Space
        BY SymbolsDiffer
  <2>2. PICK separators : separators = {Comma}
        OBVIOUS
  <2>3. Comma \in separators /\ \A i \in 1 .. Len(name) : name[i] \notin separators
        BY <1>1, <2>1, <2>2
  <2>4. Len(name) >= 1 /\ name[1] # Space /\ name[Len(name)] # Space
        BY <1>1, <2>1
  <2>5. Part(line, separators, 1) = name
        BY <1>2, <2>3, <2>4, FirstPart
  <2> QED BY <2>2, <2>5
<1>5. PICK N : N = NamesAt(line)
      OBVIOUS
<1>6. N \in SUBSET Nat /\ 1 \in N /\ \A y \in N : 1 <= y
  <2>1. Len(line) \in Nat /\ DOMAIN line = 1 .. Len(line)
        BY DEF Lines
  <2>2. Starts(line, {Comma}) \in SUBSET (Nat \ {0}) /\ 1 \in Starts(line, {Comma})
        BY <2>1 DEF Starts
  <2>3. name # <<>>
        BY <1>1
  <2>4. N \subseteq Starts(line, {Comma})
        BY <1>5 DEF NamesAt
  <2>5. 1 \in N
        BY <1>4, <1>5, <2>2, <2>3 DEF NamesAt
  <2> QED BY <2>2, <2>4, <2>5
<1>7. Min(N) = 1
      BY <1>6, MinMaxAre
<1>8. XForwardedFor(lines) = << Part(line, {Comma}, Min(N)) >>
      BY <1>2, <1>3, <1>5, <1>6 DEF XForwardedFor
<1> QED BY <1>1, <1>4, <1>7, <1>8

\* A header that is missing, blank or unreadable yields no name.
LEMMA NothingRead ==
  ASSUME NEW lines \in {<<>>, << <<Space>> >>, <<Opaque>>}
  PROVE  XForwardedFor(lines) = <<>> /\ (lines = <<>> => XRealIp(lines) = <<>>)
<1>1. CASE lines = <<>>
      BY <1>1 DEF XForwardedFor, XRealIp, Readable
<1>2. CASE lines = <<Opaque>>
  <2>1. lines[1] = Opaque /\ lines # <<>>
        BY <1>2
  <2> QED BY <2>1 DEF XForwardedFor, Readable
<1>3. CASE lines = << <<Space>> >>
  <2>1. PICK line \in Lines : line = <<Space>> /\ Len(line) = 1 /\ line[1] = Space
    <3>1. Space \in Addresses \cup Marks
          BY DEF Marks
    <3>2. <<Space>> \in Lines /\ Len(<<Space>>) = 1 /\ <<Space>>[1] = Space
          BY <3>1 DEF Lines
    <3> QED BY <3>2
  <2>2. lines[1] = line /\ lines # <<>>
        BY <1>3, <2>1
  <2>3. Starts(line, {Comma}) = {1}
    <3>1. DOMAIN line = {1} /\ line[1] # Comma
          BY <2>1, SymbolsDiffer DEF Lines
    <3> QED BY <3>1 DEF Starts
  <2>4. Part(line, {Comma}, 1) = <<>>
    <3>1. PICK separators : separators = {Comma}
          OBVIOUS
    <3>2. PICK end \in Nat : end = 2 /\ end - 1 = 1
          OBVIOUS
    <3>3. \A i \in 1 .. end - 1 : line[i] \notin separators
          BY <2>1, <3>1, <3>2, SymbolsDiffer
    <3>4. Part(line, separators, 1) = Trim(SubSeq(line, 1, end - 1))
          BY <2>1, <3>1, <3>3, <3>2, PartIs
    <3>5. PICK slice \in Lines : slice = SubSeq(line, 1, 1) /\ Len(slice) = 1 /\ slice[1] = line[1]
          BY <2>1, SliceOfLine
    <3>6. {i \in DOMAIN slice : slice[i] # Space} = {}
          BY <2>1, <3>5 DEF Lines
    <3>7. Trim(slice) = <<>>
          BY <3>6 DEF Trim
    <3> QED BY <3>1, <3>4, <3>5, <3>7, <3>2
  <2>5. NamesAt(line) = {}
        BY <2>3, <2>4 DEF NamesAt
  <2> QED BY <2>2, <2>5, <1>3 DEF XForwardedFor
<1> QED BY <1>1, <1>2, <1>3

\* The address a proxy put into X-Real-IP is read.
LEMMA RealRead ==
  ASSUME NEW x \in Addresses
  PROVE  XRealIp(<< <<x>> >>) = << <<x>> >>
<1>1. PICK name \in Lines : name = <<x>> /\ Len(name) = 1 /\ name[1] = x
  <2>1. <<x>> \in Lines /\ Len(<<x>>) = 1 /\ <<x>>[1] = x
        BY NamesAreLines
  <2> QED BY <2>1
<1>2. Trim(name) = name
      BY <1>1, SymbolsDiffer, TrimmedIs
<1>3. PICK lines : lines = <<name>>
      OBVIOUS
<1>4. lines[1] = name /\ lines # <<>> /\ name # Opaque
      BY <1>3, AddressAssumption DEF Lines
<1> QED BY <1>1, <1>2, <1>3, <1>4 DEF XRealIp, Readable
\* The element that is read is the first of the line that is a `for=`.
LEMMA ForElementIs ==
  ASSUME NEW line \in Lines, NEW start \in Starts(line, Elements),
         NEW part, Part(line, Elements, start) = part, part # <<>>, part[1] = ForEq,
         \A i \in Starts(line, Elements) :
           i < start => Part(line, Elements, i) = <<>> \/ Part(line, Elements, i)[1] # ForEq
  PROVE  ForElement(line) = << Identifier(Tail(part)) >>
<1> DEFINE found == {i \in Starts(line, Elements) : /\ Part(line, Elements, i) # <<>>
                                                    /\ Part(line, Elements, i)[1] = ForEq}
<1>1. DOMAIN line \subseteq Nat
      BY DEF Lines
<1>2. Starts(line, Elements) \in SUBSET Nat
      BY <1>1 DEF Starts
<1>3. found \in SUBSET Nat /\ start \in found /\ \A i \in found : start <= i
      BY <1>2
<1>4. found # {} => ForElement(line) = << Identifier(Tail(Part(line, Elements, Min(found)))) >>
      BY DEF ForElement
<1> HIDE DEF found
<1>5. Min(found) = start
      BY <1>3, MinMaxAre
<1> QED BY <1>3, <1>4, <1>5

\* The places a line has, and the values in them.
LEMMA NamePlaces ==
  ASSUME NEW line \in Lines, NEW name \in Lines, Begins(line, name)
  PROVE  /\ Len(name) \in Nat /\ Len(line) \in Nat /\ Len(name) <= Len(line)
         /\ DOMAIN line = 1 .. Len(line) /\ \A i \in 1 .. Len(name) : line[i] = name[i]
         /\ Len(name) < Len(line) => line[Len(name) + 1] = Comma
BY DEF Lines, Begins

\* A node that is named by a `for=` alone.
LEMMA PlainElementRead ==
  ASSUME NEW line \in Lines, NEW x \in Addresses, Begins(line, <<ForEq, x>>)
  PROVE  ForElement(line) = << <<x>> >>
<1>1. PICK name \in Lines : /\ name = <<ForEq, x>> /\ Len(name) = 2
                            /\ name[1] = ForEq /\ name[2] = x
  <2>1. Element(x, "forwarded") \in Lines
        BY NamesAreLines
  <2>2. <<ForEq, x>> \in Lines /\ Len(<<ForEq, x>>) = 2
        BY <2>1 DEF Element
  <2> QED BY <2>2
<1>2. Part(line, Elements, 1) = name
  <2>1. PICK separators : separators = Elements
        OBVIOUS
  <2>2. Comma \in separators /\ ForEq \notin separators /\ x \notin separators
        BY <2>1, SymbolsDiffer DEF Elements
  <2>3. \A i \in 1 .. Len(name) : name[i] \notin separators
        BY <1>1, <2>2
  <2>4. name[1] # Space /\ name[Len(name)] # Space
        BY <1>1, SymbolsDiffer
  <2>5. Part(line, separators, 1) = name
        BY <1>1, <2>2, <2>3, <2>4, FirstPart
  <2> QED BY <2>1, <2>5
<1>3. 1 \in Starts(line, Elements) /\ \A i \in Starts(line, Elements) : ~ (i < 1)
  <2>1. DOMAIN line \subseteq Nat
        BY DEF Lines
  <2> QED BY <2>1 DEF Starts
<1>4. name # <<>>
      BY <1>1
<1>5. ForElement(line) = << Identifier(Tail(name)) >>
      BY <1>1, <1>2, <1>3, <1>4, ForElementIs
<1>6. Tail(name) = <<x>>
      BY <1>1
<1>7. Identifier(<<x>>) = <<x>>
      BY SymbolsDiffer DEF Identifier
<1> QED BY <1>5, <1>6, <1>7

\* A node that is named in quotes, after the proxy's own name.
Quoted(line, x) ==
  /\ line[1] = ByEq /\ line[2] = Semicolon /\ line[3] = Space /\ line[4] = ForEq
  /\ line[5] = Quote /\ line[6] = x /\ line[7] = Quote
  /\ 7 <= Len(line) /\ (7 < Len(line) => line[8] = Comma)

\* It is the node that is read.
LEMMA QuotedElementRead ==
  ASSUME NEW line \in Lines, NEW x \in Addresses, Quoted(line, x)
  PROVE  ForElement(line) = << <<x>> >>
<1>1. /\ Len(line) \in Nat /\ DOMAIN line = 1 .. Len(line)
      /\ 7 <= Len(line) /\ (7 < Len(line) => line[8] = Comma)
      BY DEF Lines, Quoted
<1>2. /\ line[1] = ByEq /\ line[2] = Semicolon /\ line[3] = Space /\ line[4] = ForEq
      /\ line[5] = Quote /\ line[6] = x /\ line[7] = Quote
      BY DEF Quoted
<1>3. /\ Semicolon \in Elements /\ Comma \in Elements
      /\ \A symbol \in {ByEq, Space, ForEq, Quote, x} : symbol \notin Elements
      BY SymbolsDiffer DEF Elements
<1>4. /\ 1 \in Starts(line, Elements) /\ 3 \in Starts(line, Elements)
      /\ \A i \in Starts(line, Elements) : i < 3 => i = 1
      BY <1>1, <1>2, <1>3 DEF Starts
<1>5. Part(line, Elements, 1)[1] # ForEq
  <2>1. PICK n \in 1 .. Len(line) : n = 1
        BY <1>1
  <2>2. PICK end \in Nat : end = 2 /\ end - 1 = n
        BY <2>1
  <2>3. Part(line, Elements, 1) = Trim(SubSeq(line, 1, end - 1))
        BY <1>1, <1>2, <1>3, <2>1, <2>2, PartIs
  <2>4. PICK slice : slice = SubSeq(line, 1, n)
        OBVIOUS
  <2>5. slice \in Lines /\ Len(slice) = n /\ \A i \in 1 .. n : slice[i] = line[i]
        BY <2>4, StartOfLine
  <2>6. Len(slice) = 1 /\ slice[1] = ByEq
        BY <1>2, <2>1, <2>5
  <2>7. Trim(slice) = slice
    <3>1. Len(slice) >= 1 /\ slice[1] # Space /\ slice[Len(slice)] # Space
          BY <2>6, SymbolsDiffer
    <3> QED BY <2>5, <3>1, TrimmedIs
  <2> QED BY <2>2, <2>3, <2>4, <2>6, <2>7, SymbolsDiffer
<1>6. PICK slice : slice = SubSeq(line, 3, 7)
      OBVIOUS
<1>7. /\ slice \in Lines /\ Len(slice) = 5 /\ slice[1] = Space /\ slice[2] = ForEq
      /\ slice[3] = Quote /\ slice[4] = x /\ slice[5] = Quote
  <2>1. PICK m \in 1 .. Len(line), n \in 3 .. Len(line) : m = 3 /\ n = 7
        BY <1>1
  <2>2. /\ slice \in Lines /\ Len(slice) = n - m + 1
        /\ \A i \in 1 .. n - m + 1 : slice[i] = line[m + i - 1]
        BY <1>6, <2>1, SliceOfLine
  <2>3. /\ Len(slice) = 5 /\ slice[1] = line[3] /\ slice[2] = line[4] /\ slice[3] = line[5]
        /\ slice[4] = line[6] /\ slice[5] = line[7]
        BY <2>1, <2>2
  <2> QED BY <1>2, <2>2, <2>3
<1>8. PICK part : part = Trim(slice)
      OBVIOUS
<1>9. /\ part \in Lines /\ Len(part) = 4 /\ part[1] = ForEq /\ part[2] = Quote
      /\ part[3] = x /\ part[4] = Quote
  <2>1. PICK s \in 1 .. Len(slice), e \in 2 .. Len(slice) : s = 2 /\ e = 5
        BY <1>7
  <2>2. part = SubSeq(slice, s, e)
    <3>1. slice[s] # Space /\ slice[e] # Space
          BY <1>7, <2>1, SymbolsDiffer
    <3>2. \A i \in 1 .. Len(slice) : slice[i] # Space => s <= i /\ i <= e
          BY <1>7, <2>1
    <3>3. e \in 1 .. Len(slice)
          BY <2>1
    <3> QED BY <1>7, <1>8, <3>1, <3>2, <3>3, TrimIs
  <2>3. /\ part \in Lines /\ Len(part) = e - s + 1
        /\ \A i \in 1 .. e - s + 1 : part[i] = slice[s + i - 1]
        BY <1>7, <2>1, <2>2, SliceOfLine
  <2>4. /\ Len(part) = 4 /\ part[1] = slice[2] /\ part[2] = slice[3] /\ part[3] = slice[4]
        /\ part[4] = slice[5]
        BY <2>1, <2>3
  <2> QED BY <1>7, <2>3, <2>4
<1>10. Part(line, Elements, 3) = part
  <2>1. PICK start \in Nat \ {0}, end \in Nat : start = 3 /\ end = 8 /\ end - 1 = 7
        OBVIOUS
  <2>2. \A i \in start .. end - 1 : line[i] \notin Elements
    <3>1. \A i \in start .. end - 1 : i = 3 \/ i = 4 \/ i = 5 \/ i = 6 \/ i = 7
          BY <2>1
    <3> QED BY <1>2, <1>3, <3>1
  <2>3. start <= end /\ end <= Len(line) + 1 /\ (end = Len(line) + 1 \/ line[end] \in Elements)
        BY <1>1, <1>3, <2>1
  <2>4. Part(line, Elements, start) = Trim(SubSeq(line, start, end - 1))
        BY <2>2, <2>3, PartIs
  <2> QED BY <1>6, <1>8, <2>1, <2>4
<1>11. ForElement(line) = << Identifier(Tail(part)) >>
  <2>1. part # <<>>
        BY <1>9
  <2>2. PICK start \in Starts(line, Elements) : start = 3
        BY <1>4
  <2>3. \A i \in Starts(line, Elements) :
          i < start => Part(line, Elements, i) = <<>> \/ Part(line, Elements, i)[1] # ForEq
        BY <1>4, <1>5, <2>2
  <2> QED BY <1>9, <1>10, <2>1, <2>2, <2>3, ForElementIs
<1>12. PICK value : value = Tail(part)
       OBVIOUS
<1>13. /\ value \in Lines /\ Len(value) = 3 /\ value[1] = Quote
       /\ value[2] = x /\ value[3] = Quote
  <2> DEFINE S == Addresses \cup Marks
  <2>1. part \in Seq(S)
        BY <1>9 DEF Lines
  <2> HIDE DEF S
  <2>2. part # <<>>
        BY <1>9
  <2>3. value \in Seq(S) /\ Len(value) = Len(part) - 1 /\ \A i \in 1 .. Len(value) : value[i] = part[i + 1]
        BY <1>12, <2>1, <2>2, HeadTailProperties
  <2>4. Len(value) = 3 /\ value[1] = part[2] /\ value[2] = part[3] /\ value[3] = part[4]
        BY <1>9, <2>3
  <2>5. value \in Lines
        BY <2>3 DEF Lines, S
  <2> QED BY <1>9, <2>4, <2>5
<1>14. Identifier(value) = <<x>>
  <2> DEFINE closing == {i \in 2 .. Len(value) : value[i] = Quote}
  <2>1. closing = {3}
    <3>1. \A i \in 2 .. Len(value) : i = 2 \/ i = 3
          BY <1>13
    <3>2. x # Quote
          BY SymbolsDiffer
    <3> QED BY <1>13, <3>1, <3>2
  <2>2. value # <<>>
    <3>1. Len(value) # 0
          BY <1>13
    <3> QED BY <3>1
  <2>3. closing # {} => Identifier(value) = SubSeq(value, 2, Min(closing) - 1)
        BY <1>13, <2>2 DEF Identifier
  <2>4. Min(closing) = 3
    <3>1. closing \in SUBSET Nat /\ 3 \in closing /\ \A y \in closing : 3 <= y
          BY <2>1
    <3> QED BY <3>1, MinMaxAre
  <2> HIDE DEF closing
  <2>5. PICK s \in 1 .. Len(value), e \in 2 .. Len(value) : s = 2 /\ e = 2
        BY <1>13
  <2>6. PICK p : p = SubSeq(value, s, e)
        OBVIOUS
  <2>7. Identifier(value) = p
        BY <2>1, <2>3, <2>4, <2>5, <2>6
  <2>8. p \in Lines /\ Len(p) = e - s + 1 /\ \A i \in 1 .. e - s + 1 : p[i] = value[s + i - 1]
        BY <1>13, <2>5, <2>6, SliceOfLine
  <2>9. Len(p) = 1 /\ p[1] = x
        BY <1>13, <2>5, <2>8
  <2>10. PICK n : n = <<x>>
         OBVIOUS
  <2>11. n \in Lines /\ Len(n) = 1 /\ n[1] = x
         BY <2>10, NamesAreLines
  <2>12. p = n
         BY <2>8, <2>9, <2>11, SameLine
  <2> QED BY <2>7, <2>10, <2>12
<1> QED BY <1>11, <1>12, <1>14

\* The element Forwarded begins with is read.
LEMMA ForwardedRead ==
  ASSUME NEW lines, NEW x \in Addresses, NEW custom, Leads(lines, Element(x, custom))
  PROVE  Forwarded(lines) = << <<x>> >>
<1> DEFINE found == {k \in DOMAIN lines : lines[k] # Opaque /\ ForElement(lines[k]) # <<>>}
<1>1. PICK line \in Lines : line = lines[1] /\ Begins(line, Element(x, custom))
  <2>1. lines[1] \in Lines
        BY DEF Leads
  <2> QED BY <2>1 DEF Leads
<1>2. ForElement(line) = << <<x>> >>
  <2>1. PICK name \in Lines : name = Element(x, custom) /\ Begins(line, name)
        BY <1>1, NamesAreLines
  <2>2. CASE custom = "forwarded"
        BY <2>1, <2>2, PlainElementRead DEF Element
  <2>3. CASE custom # "forwarded"
    <3>1. name = <<ByEq, Semicolon, Space, ForEq, Quote, x, Quote>>
          BY <2>1, <2>3 DEF Element
    <3>2. Len(name) = 7 /\ Quoted(name, x)
      <4>1. /\ Len(name) = 7 /\ name[1] = ByEq /\ name[2] = Semicolon /\ name[3] = Space
            /\ name[4] = ForEq
            BY <3>1
      <4>2. name[5] = Quote /\ name[6] = x /\ name[7] = Quote
            BY <3>1
      <4>3. 7 <= Len(name) /\ ~ (7 < Len(name))
            BY <4>1
      <4> QED BY <4>1, <4>2, <4>3, Zenon DEF Quoted
    <3> DEFINE n == Len(name)
    <3>3. /\ \A i \in 1 .. n : line[i] = name[i]
          /\ n <= Len(line) /\ (n < Len(line) => line[n + 1] = Comma)
          BY <2>1, NamePlaces
    <3> HIDE DEF n
    <3>4. n = 7
          BY <3>2 DEF n
    <3>5. 7 <= Len(line) /\ (7 < Len(line) => line[8] = Comma)
          BY <3>3, <3>4
    <3>6. Quoted(line, x)
          BY <3>2, <3>3, <3>4, <3>5 DEF Quoted
    <3> QED BY <3>6, QuotedElementRead
  <2> QED BY <2>2, <2>3
<1>3. line # Opaque
      BY AddressAssumption DEF Lines
<1>4. found \in SUBSET Nat /\ 1 \in found /\ \A k \in found : 1 <= k
  <2>1. DOMAIN lines \in SUBSET (Nat \ {0}) /\ 1 \in DOMAIN lines
        BY DEF Leads
  <2>2. << <<x>> >> # <<>>
        OBVIOUS
  <2>3. 1 \in found
        BY <1>1, <1>2, <1>3, <2>1, <2>2
  <2> QED BY <2>1, <2>3
<1>5. Min(found) = 1
      BY <1>4, MinMaxAre
<1>6. Forwarded(lines) = ForElement(lines[Min(found)])
      BY <1>4 DEF Forwarded
<1> QED BY <1>1, <1>2, <1>5, <1>6

\* A missing Forwarded names nobody.
LEMMA NotForwarded == Forwarded(<<>>) = <<>>
BY DEF Forwarded

-----------------------------------------------------------------------------
(***************************************************************************)
(* Whatever X-Forwarded-For says, a name in it is made of what is written  *)
(* there, and so it is no socket's.                                        *)
(***************************************************************************)
AnyLines == Lines \cup {Opaque}

\* What one proxy writes is a line, whether or not it is below another.
LEMMA StaysLines ==
  ASSUME NEW lines \in Seq(AnyLines), NEW more \in Lines
  PROVE  Extend(lines, more) \in Seq(AnyLines) /\ Append(lines, more) \in Seq(AnyLines)
<1>1. more \in AnyLines
      BY DEF AnyLines
<1>2. Append(lines, more) \in Seq(AnyLines)
      BY <1>1
<1>3. <<more>> \in Seq(AnyLines)
      BY <1>1
<1>4. CASE lines = <<>>
      BY <1>2, <1>3, <1>4 DEF Extend
<1>5. CASE lines # <<>> /\ Last(lines) = Opaque
  <2>1. Extend(lines, more) = lines
        BY <1>5 DEF Extend
  <2> QED BY <1>2, <2>1
<1>6. CASE lines # <<>> /\ Last(lines) # Opaque
  <2>1. PICK n \in Nat \ {0} : n = Len(lines)
        BY <1>6
  <2>2. PICK last \in Lines : last = Last(lines)
        BY <1>6, <2>1 DEF Last, AnyLines
  <2>3. PICK longer : longer = last \o <<Comma, Space>> \o more
        OBVIOUS
  <2>4. longer \in AnyLines
        BY <2>3, BeginsItself, LineGrows DEF AnyLines
  <2>5. Extend(lines, more) = Front(lines) \o <<longer>>
        BY <1>6, <2>2, <2>3 DEF Extend
  <2>6. PICK front \in Seq(AnyLines) : front = Front(lines)
    <3>1. PICK front : front = SubSeq(lines, 1, n - 1)
          OBVIOUS
    <3>2. \A i \in 1 .. n - 1 : lines[i] \in AnyLines
          BY <2>1
    <3>3. front \in Seq(AnyLines)
          BY <2>1, <3>1, <3>2, SubSeqProperties
    <3> QED BY <2>1, <3>1, <3>3 DEF Front
  <2>7. PICK one \in Seq(AnyLines) : one = <<longer>>
    <3>1. <<longer>> \in Seq(AnyLines)
          BY <2>4
    <3> QED BY <3>1
  <2>8. front \o one \in Seq(AnyLines)
        BY ConcatProperties
  <2>9. Extend(lines, more) = front \o one
        BY <2>5, <2>6, <2>7
  <2> QED BY <1>2, <2>8, <2>9
<1> QED BY <1>2, <1>4, <1>5, <1>6

\* What proxies make of X-Forwarded-For are lines.
LEMMA XffLines ==
  ASSUME NEW r \in Requests, NEW a \in Arrivals[r], NEW f, Relayed(a, f)
  PROVE  f[Len(a.way)].xff \in Seq(AnyLines)
<1>1. PICK len \in Nat : len = Len(a.way)
      BY NodesAre
<1> DEFINE A == {n \in Nat : n <= len => f[n].xff \in Seq(AnyLines)}
<1>2. 0 \in A
  <2>1. f[0].xff = <<>>
        BY DEF Relayed, NoHeaders
  <2>2. <<>> \in Seq(AnyLines)
        OBVIOUS
  <2> QED BY <2>1, <2>2
<1>3. ASSUME NEW n \in A PROVE n + 1 \in A
  <2> SUFFICES ASSUME n + 1 <= len PROVE f[n + 1].xff \in Seq(AnyLines)
      OBVIOUS
  <2>1. n \in Nat /\ f[n].xff \in Seq(AnyLines)
        OBVIOUS
  <2>2. PICK k \in 1 .. len : k = n + 1 /\ k - 1 = n
        BY <2>1
  <2>3. PICK node \in Addresses : node = Nodes(a)[k]
    <3>1. Nodes(a) \in Seq(Addresses) /\ Len(Nodes(a)) = len + 1
          BY <1>1, NodesAre
    <3> QED BY <3>1
  <2>4. PICK h, custom : h = f[n] /\ custom = a.way[k]
        OBVIOUS
  <2>5. f[k] = Relay(h, node, custom)
        BY <1>1, <2>2, <2>3, <2>4 DEF Relayed
  <2>6. Relay(h, node, custom).xff \in Seq(AnyLines)
    <3>1. h.xff \in Seq(AnyLines)
          BY <2>1, <2>4
    <3>2. /\ Extend(h.xff, <<node>>) \in Seq(AnyLines)
          /\ Append(h.xff, <<node>>) \in Seq(AnyLines)
          BY <3>1, NamesAreLines, StaysLines
    <3>3. << <<Space>> >> \in Seq(AnyLines) /\ <<Opaque>> \in Seq(AnyLines)
      <4>1. <<Space>> \in Lines
            BY DEF Lines, Marks
      <4>2. <<Space>> \in AnyLines /\ Opaque \in AnyLines
            BY <4>1 DEF AnyLines
      <4> QED BY <4>2
    <3> QED BY <3>1, <3>2, <3>3, RelayXff
  <2> HIDE DEF A
  <2> QED BY <2>2, <2>5, <2>6
<1>4. A \in SUBSET Nat
      OBVIOUS
<1> HIDE DEF A
<1>5. len \in A
      BY <1>2, <1>3, <1>4, Inductive
<1> QED BY <1>1, <1>5 DEF A

\* A bounded set of naturals has a greatest element.
LEMMA HasGreatest ==
  ASSUME NEW bound \in Nat, NEW N \in SUBSET (0 .. bound), N # {}
  PROVE  \E x \in N : \A y \in N : y <= x
<1> DEFINE D == {d \in Nat : bound - d \in N}
<1>1. \A y \in N : bound - y \in D
      OBVIOUS
<1>2. D \in SUBSET Nat /\ D # {}
      BY <1>1
<1>3. PICK least \in D : \A d \in D : least <= d
  <2> HIDE DEF D
  <2> QED BY <1>2, HasLeast
<1>4. bound - least \in N /\ \A y \in N : y <= bound - least
      BY <1>1, <1>3
<1> QED BY <1>4

\* What is left of a line when it is trimmed is a line.
LEMMA TrimmedLine == ASSUME NEW part \in Lines PROVE Trim(part) \in Lines
<1> DEFINE ink == {i \in DOMAIN part : part[i] # Space}
<1>1. Len(part) \in Nat /\ DOMAIN part = 1 .. Len(part) /\ <<>> \in Lines
      BY DEF Lines
<1>2. CASE ink = {}
      BY <1>1, <1>2 DEF Trim
<1>3. CASE ink # {}
  <2>1. ink \in SUBSET Nat /\ ink \in SUBSET (0 .. Len(part)) /\ ink \subseteq 1 .. Len(part)
        BY <1>1
  <2>2. \A i \in 1 .. Len(part) : part[i] # Space => i \in ink
        BY <1>1
  <2>3. \A i \in ink : part[i] # Space
        OBVIOUS
  <2> HIDE DEF ink
  <2>4. PICK s \in ink : \A y \in ink : s <= y
        BY <1>3, <2>1, HasLeast
  <2>5. PICK e \in ink : \A y \in ink : y <= e
        BY <1>1, <1>3, <2>1, HasGreatest
  <2>6. s \in 1 .. Len(part) /\ e \in s .. Len(part) /\ e \in 1 .. Len(part)
        BY <1>1, <2>1, <2>4, <2>5
  <2>7. Trim(part) = SubSeq(part, s, e)
        BY <2>2, <2>3, <2>4, <2>5, <2>6, TrimIs
  <2> QED BY <2>6, <2>7, SliceOfLine
<1> QED BY <1>2, <1>3

\* A part of a line is a line.
LEMMA PartOfLine ==
  ASSUME NEW line \in Lines, NEW separators, NEW start \in Nat \ {0}
  PROVE  Part(line, separators, start) \in Lines
<1> DEFINE ends == {i \in start .. Len(line) : line[i] \in separators} \cup {Len(line) + 1}
<1>1. Len(line) \in Nat
      BY DEF Lines
<1>2. ends \in SUBSET Nat /\ ends # {} /\ \A y \in ends : y <= Len(line) + 1
      BY <1>1
<1>3. Part(line, separators, start) = Trim(SubSeq(line, start, Min(ends) - 1))
      BY DEF Part
<1> HIDE DEF ends
<1>4. PICK end \in ends : \A y \in ends : end <= y
      BY <1>2, HasLeast
<1>5. Min(ends) = end /\ end \in Nat /\ end <= Len(line) + 1
      BY <1>2, <1>4, MinMaxAre
<1>6. SubSeq(line, start, end - 1) \in Lines
  <2>1. CASE start <= end - 1
    <3>1. PICK m \in 1 .. Len(line), n \in start .. Len(line) : m = start /\ n = end - 1
          BY <1>1, <1>5, <2>1
    <3> QED BY <3>1, SliceOfLine
  <2>2. CASE ~ (start <= end - 1)
    <3>1. SubSeq(line, start, end - 1) = <<>>
          BY <1>5, <2>2, SubSeqEmpty
    <3>2. <<>> \in Lines
          BY DEF Lines
    <3> QED BY <3>1, <3>2
  <2> QED BY <2>1, <2>2
<1> QED BY <1>3, <1>5, <1>6, TrimmedLine

\* So the name in X-Forwarded-For is a line.
LEMMA XffName ==
  ASSUME NEW lines \in Seq(AnyLines)
  PROVE  XForwardedFor(lines) = <<>> \/ \E name \in Lines : XForwardedFor(lines) = <<name>>
<1> SUFFICES ASSUME Readable(lines), NamesAt(lines[1]) # {}
             PROVE  \E name \in Lines : XForwardedFor(lines) = <<name>>
    BY DEF XForwardedFor
<1>1. PICK line \in Lines : line = lines[1]
      BY DEF Readable, AnyLines
<1>2. PICK N : N = NamesAt(line)
      OBVIOUS
<1>3. N \in SUBSET Nat /\ N # {} /\ 0 \notin N
  <2>1. Len(line) \in Nat /\ DOMAIN line = 1 .. Len(line)
        BY DEF Lines
  <2>2. Starts(line, {Comma}) \in SUBSET (Nat \ {0})
        BY <2>1 DEF Starts
  <2>3. N \subseteq Starts(line, {Comma})
        BY <1>2 DEF NamesAt
  <2> QED BY <1>1, <1>2, <2>2, <2>3
<1>4. PICK first \in N : \A y \in N : first <= y
      BY <1>3, HasLeast
<1>5. Min(N) = first /\ first \in Nat \ {0}
      BY <1>3, <1>4, MinMaxAre
<1>6. Part(line, {Comma}, first) \in Lines
      BY <1>5, PartOfLine
<1>7. XForwardedFor(lines) = << Part(line, {Comma}, first) >>
      BY <1>1, <1>2, <1>5 DEF XForwardedFor
<1> QED BY <1>6, <1>7

-----------------------------------------------------------------------------
(***************************************************************************)
(* Who the peer is.                                                        *)
(***************************************************************************)

\* The headers are asked in turn.
LEMMA Asking ==
  ASSUME NEW headers, NEW socket
  PROVE  Extract(headers, socket) =
           IF XForwardedFor(headers.xff) # <<>> THEN XForwardedFor(headers.xff)[1]
           ELSE IF XRealIp(headers.real) # <<>> THEN XRealIp(headers.real)[1]
           ELSE IF Forwarded(headers.forwarded) # <<>> THEN Forwarded(headers.forwarded)[1]
           ELSE socket
<1>1. <<socket>> # <<>> /\ <<socket>>[1] = socket
      OBVIOUS
<1> QED BY <1>1 DEF Extract, OrElse

\* The hops of some customs, and the first and the last of them.
LEMMA HopsAre ==
  ASSUME NEW r \in Requests, NEW a \in Arrivals[r], NEW customs, Hops(a, customs) # {}
  PROVE  /\ \E first \in Hops(a, customs) :
              /\ \A n \in Hops(a, customs) : first <= n
              /\ Min(Hops(a, customs)) = first /\ Nodes(a)[first] \in Addresses
         /\ \E last \in Hops(a, customs) :
              /\ \A n \in Hops(a, customs) : n <= last
              /\ Max(Hops(a, customs)) = last /\ Nodes(a)[last] \in Addresses
<1>1. PICK len \in Nat : /\ len = Len(a.way) /\ DOMAIN a.way = 1 .. len
                         /\ Nodes(a) \in Seq(Addresses) /\ Len(Nodes(a)) = len + 1
      BY NodesAre
<1>2. PICK N : N = Hops(a, customs)
      OBVIOUS
<1>3. N \in SUBSET Nat /\ N \in SUBSET (0 .. len) /\ N \subseteq 1 .. len
      BY <1>1, <1>2 DEF Hops
<1>4. \A n \in N : Nodes(a)[n] \in Addresses
      BY <1>1, <1>3
<1>5. PICK first \in N : \A n \in N : first <= n
      BY <1>2, <1>3, HasLeast
<1>6. PICK last \in N : \A n \in N : n <= last
      BY <1>2, <1>3, HasGreatest
<1>7. Min(N) = first /\ Max(N) = last
      BY <1>3, <1>5, <1>6, MinMaxAre
<1> QED BY <1>2, <1>4, <1>5, <1>6, <1>7

\* The remotest node that is named, if X-Forwarded-For is not muted.
NamedPeer(r, a) ==
  IF Hops(a, XffCustoms) # {} THEN << Nodes(a)[Min(Hops(a, XffCustoms))] >>
  ELSE IF Hops(a, RealCustoms) # {} THEN << Nodes(a)[Max(Hops(a, RealCustoms))] >>
  ELSE IF Hops(a, ForwardedCustoms) # {} THEN << Nodes(a)[Min(Hops(a, ForwardedCustoms))] >>
  ELSE SocketOf(r, a)

\* That is who the headers name.
LEMMA ExtractNames ==
  ASSUME NEW r \in Requests, NEW a \in Arrivals[r],
         Hops(a, XffCustoms) = {} \/ Hops(a, {"blank", "opaque"}) = {}
  PROVE  Extract(HeadersOf(a), SocketOf(r, a)) = NamedPeer(r, a)
<1>1. PICK f : Relayed(a, f) /\ HeadersOf(a) = f[Len(a.way)]
      BY NodesAre, HeadersAreRelayed
<1>2. PICK h : h = f[Len(a.way)]
      OBVIOUS
<1>3. PICK socket : socket = SocketOf(r, a)
      OBVIOUS
<1>4. Extract(h, socket) = NamedPeer(r, a)
  <2>1. CASE Hops(a, XffCustoms) # {}
    <3>1. PICK first \in Hops(a, XffCustoms) :
               /\ \A n \in Hops(a, XffCustoms) : first <= n
               /\ Min(Hops(a, XffCustoms)) = first /\ Nodes(a)[first] \in Addresses
          BY <2>1, HopsAre
    <3>2. PICK x \in Addresses : x = Nodes(a)[first]
          BY <3>1
    <3>3. Leads(h.xff, <<x>>)
          BY <1>1, <1>2, <2>1, <3>1, <3>2, XffWritten
    <3>4. XForwardedFor(h.xff) = << <<x>> >>
          BY <3>3, XffRead
    <3>5. << <<x>> >> # <<>> /\ << <<x>> >>[1] = <<x>>
          OBVIOUS
    <3>6. Extract(h, socket) = <<x>>
          BY <3>4, <3>5, Asking
    <3> QED BY <2>1, <3>1, <3>2, <3>6 DEF NamedPeer
  <2>2. CASE Hops(a, XffCustoms) = {}
    <3>1. XForwardedFor(h.xff) = <<>>
      <4>1. h.xff \in {<<>>, << <<Space>> >>, <<Opaque>>}
            BY <1>1, <1>2, <2>2, LastAndUnwritten
      <4> QED BY <4>1, NothingRead
    <3>2. CASE Hops(a, RealCustoms) # {}
      <4>1. PICK last \in Hops(a, RealCustoms) :
                 /\ \A n \in Hops(a, RealCustoms) : n <= last
                 /\ Max(Hops(a, RealCustoms)) = last /\ Nodes(a)[last] \in Addresses
            BY <3>2, HopsAre
      <4>2. PICK x \in Addresses : x = Nodes(a)[last]
            BY <4>1
      <4>3. h.real = << <<x>> >>
            BY <1>1, <1>2, <4>1, <4>2, LastAndUnwritten
      <4>4. XRealIp(h.real) = << <<x>> >>
            BY <4>3, RealRead
      <4>5. << <<x>> >> # <<>> /\ << <<x>> >>[1] = <<x>>
            OBVIOUS
      <4>6. Extract(h, socket) = <<x>>
            BY <3>1, <4>4, <4>5, Asking
      <4> QED BY <2>2, <3>2, <4>1, <4>2, <4>6 DEF NamedPeer
    <3>3. CASE Hops(a, RealCustoms) = {}
      <4>1. XRealIp(h.real) = <<>>
        <5>1. h.real = <<>>
              BY <1>1, <1>2, <3>3, LastAndUnwritten
        <5> QED BY <5>1 DEF XRealIp, Readable
      <4>2. CASE Hops(a, ForwardedCustoms) # {}
        <5>1. PICK first \in Hops(a, ForwardedCustoms) :
                   /\ \A n \in Hops(a, ForwardedCustoms) : first <= n
                   /\ Min(Hops(a, ForwardedCustoms)) = first /\ Nodes(a)[first] \in Addresses
              BY <4>2, HopsAre
        <5>2. PICK x \in Addresses : x = Nodes(a)[first]
              BY <5>1
        <5>3. PICK custom : custom = a.way[first]
              OBVIOUS
        <5>4. Leads(h.forwarded, Element(x, custom))
              BY <1>1, <1>2, <4>2, <5>1, <5>2, <5>3, ForwardedWritten
        <5>5. Forwarded(h.forwarded) = << <<x>> >>
              BY <5>4, ForwardedRead
        <5>6. << <<x>> >> # <<>> /\ << <<x>> >>[1] = <<x>>
              OBVIOUS
        <5>7. Extract(h, socket) = <<x>>
              BY <3>1, <4>1, <5>5, <5>6, Asking
        <5> QED BY <2>2, <3>3, <4>2, <5>1, <5>2, <5>7 DEF NamedPeer
      <4>3. CASE Hops(a, ForwardedCustoms) = {}
        <5>1. Forwarded(h.forwarded) = <<>>
              BY <1>1, <1>2, <4>3, LastAndUnwritten, NotForwarded
        <5>2. Extract(h, socket) = socket
              BY <3>1, <4>1, <5>1, Asking
        <5> QED BY <1>3, <2>2, <3>3, <4>3, <5>2 DEF NamedPeer
      <4> QED BY <4>2, <4>3
    <3> QED BY <3>2, <3>3
  <2> QED BY <2>1, <2>2
<1> QED BY <1>1, <1>2, <1>3, <1>4

\* Proxies of one custom name the client.
LEMMA UniformNames ==
  ASSUME NEW r \in Requests, NEW a \in Arrivals[r], Uniform(a)
  PROVE  Extract(HeadersOf(a), SocketOf(r, a)) = <<a.client>>
<1>1. PICK len \in Nat : /\ len = Len(a.way) /\ DOMAIN a.way = 1 .. len
                         /\ a.way \in Seq(Customs) /\ Nodes(a)[1] = a.client
      BY NodesAre
<1>2. len # 0
      BY <1>1 DEF Uniform
<1>3. PICK customs \in {XffCustoms, ForwardedCustoms} : \A n \in 1 .. len : a.way[n] \in customs
      BY <1>1 DEF Uniform
<1>4. Hops(a, customs) = 1 .. len
      BY <1>1, <1>3 DEF Hops
<1>5. Min(1 .. len) = 1 /\ 1 .. len # {}
  <2>1. (1 .. len) \in SUBSET Nat /\ 1 \in 1 .. len /\ \A y \in 1 .. len : 1 <= y
        BY <1>2
  <2> QED BY <2>1, MinMaxAre
<1>6. CASE customs = XffCustoms
  <2>1. \A n \in 1 .. len : a.way[n] \notin {"blank", "opaque"}
        BY <1>3, <1>6 DEF XffCustoms
  <2>2. Hops(a, {"blank", "opaque"}) = {}
        BY <1>1, <2>1 DEF Hops
  <2>3. NamedPeer(r, a) = << Nodes(a)[1] >>
        BY <1>4, <1>5, <1>6 DEF NamedPeer
  <2> QED BY <1>1, <2>2, <2>3, ExtractNames
<1>7. CASE customs = ForwardedCustoms
  <2>1. \A n \in 1 .. len : a.way[n] \notin XffCustoms /\ a.way[n] \notin RealCustoms
        BY <1>3, <1>7 DEF ForwardedCustoms, XffCustoms, RealCustoms
  <2>2. Hops(a, XffCustoms) = {} /\ Hops(a, RealCustoms) = {}
        BY <1>1, <2>1 DEF Hops
  <2>3. NamedPeer(r, a) = << Nodes(a)[1] >>
        BY <1>4, <1>5, <1>7, <2>2 DEF NamedPeer
  <2> QED BY <1>1, <2>2, <2>3, ExtractNames
<1> QED BY <1>6, <1>7

\* Without a proxy nothing is named.
LEMMA DirectNames ==
  ASSUME NEW r \in Requests, NEW a \in Arrivals[r], a.way = <<>>
  PROVE  Extract(HeadersOf(a), SocketOf(r, a)) = SocketOf(r, a)
<1>1. \A customs : Hops(a, customs) = {}
      BY DEF Hops
<1> QED BY <1>1, ExtractNames DEF NamedPeer

\* A socket's text is no line, and names its own connection.
LEMMA SocketsDiffer ==
  ASSUME NEW r, NEW a
  PROVE  /\ SocketOf(r, a) \notin Lines
         /\ \A s, b : s # r => SocketOf(s, b) # SocketOf(r, a)
<1>1. Colon \notin Addresses
      BY AddressAssumption
<1>2. Colon \notin Marks
      BY Zenon DEF Marks, Colon, Comma, Semicolon, Space, Quote, ForEq, ByEq
<1>3. SocketOf(r, a)[2] = Colon /\ Len(SocketOf(r, a)) = 3 /\ SocketOf(r, a)[3] = r
      BY DEF SocketOf
<1>4. SocketOf(r, a) \notin Lines
  <2>1. SUFFICES ASSUME SocketOf(r, a) \in Lines PROVE FALSE
        OBVIOUS
  <2>2. SocketOf(r, a)[2] \in Addresses \cup Marks
        BY <1>3, <2>1 DEF Lines
  <2> QED BY <1>1, <1>2, <1>3, <2>2
<1>5. \A s, b : SocketOf(s, b)[3] = s
      BY DEF SocketOf
<1> QED BY <1>3, <1>4, <1>5

\* A peer is a line, or its own socket.
LEMMA PeerIsLineOrSocket ==
  ASSUME NEW r \in Requests, NEW a \in Arrivals[r]
  PROVE  LET named == Extract(HeadersOf(a), SocketOf(r, a))
         IN  named \in Lines \/ named = SocketOf(r, a)
<1>1. PICK f : Relayed(a, f) /\ HeadersOf(a) = f[Len(a.way)]
      BY NodesAre, HeadersAreRelayed
<1>2. PICK h : h = f[Len(a.way)]
      OBVIOUS
<1>3. PICK socket : socket = SocketOf(r, a)
      OBVIOUS
<1>4. CASE Hops(a, XffCustoms) = {}
  <2>1. \A x \in Addresses : <<x>> \in Lines
        BY NamesAreLines
  <2>2. NamedPeer(r, a) \in Lines \/ NamedPeer(r, a) = SocketOf(r, a)
        BY <1>4, <2>1, HopsAre DEF NamedPeer
  <2> QED BY <1>4, <2>2, ExtractNames
<1>5. CASE Hops(a, XffCustoms) # {}
  <2>1. CASE XForwardedFor(h.xff) # <<>>
    <3>1. PICK name \in Lines : XForwardedFor(h.xff) = <<name>>
          BY <1>1, <1>2, <2>1, XffLines, XffName
    <3>2. <<name>>[1] = name
          OBVIOUS
    <3>3. Extract(h, socket) = name
          BY <2>1, <3>1, <3>2, Asking
    <3> QED BY <1>1, <1>2, <1>3, <3>3
  <2>2. CASE XForwardedFor(h.xff) = <<>>
    <3>1. XRealIp(h.real) = <<>> \/ \E name \in Lines : XRealIp(h.real) = <<name>>
      <4>1. CASE Hops(a, RealCustoms) = {}
        <5>1. h.real = <<>>
              BY <1>1, <1>2, <4>1, LastAndUnwritten
        <5> QED BY <5>1, NothingRead
      <4>2. CASE Hops(a, RealCustoms) # {}
        <5>1. PICK last \in Hops(a, RealCustoms) :
                   /\ \A n \in Hops(a, RealCustoms) : n <= last
                   /\ Nodes(a)[last] \in Addresses
              BY <4>2, HopsAre
        <5>2. PICK x \in Addresses : x = Nodes(a)[last]
              BY <5>1
        <5>3. h.real = << <<x>> >>
              BY <1>1, <1>2, <5>1, <5>2, LastAndUnwritten
        <5> QED BY <5>3, RealRead, NamesAreLines
      <4> QED BY <4>1, <4>2
    <3>2. Forwarded(h.forwarded) = <<>> \/ \E name \in Lines : Forwarded(h.forwarded) = <<name>>
      <4>1. CASE Hops(a, ForwardedCustoms) = {}
            BY <1>1, <1>2, <4>1, LastAndUnwritten, NotForwarded
      <4>2. CASE Hops(a, ForwardedCustoms) # {}
        <5>1. PICK first \in Hops(a, ForwardedCustoms) :
                   /\ \A n \in Hops(a, ForwardedCustoms) : first <= n
                   /\ Nodes(a)[first] \in Addresses
              BY <4>2, HopsAre
        <5>2. PICK x \in Addresses : x = Nodes(a)[first]
              BY <5>1
        <5>3. PICK custom : custom = a.way[first]
              OBVIOUS
        <5>4. Leads(h.forwarded, Element(x, custom))
              BY <1>1, <1>2, <5>1, <5>2, <5>3, ForwardedWritten
        <5> QED BY <5>4, ForwardedRead, NamesAreLines
      <4> QED BY <4>1, <4>2
    <3>3. \A name : <<name>>[1] = name
          OBVIOUS
    <3>4. Extract(h, socket) \in Lines \/ Extract(h, socket) = socket
          BY <2>2, <3>1, <3>2, <3>3, Asking
    <3> QED BY <1>1, <1>2, <1>3, <3>4
  <2> QED BY <2>1, <2>2
<1> QED BY <1>4, <1>5

\* The extension a request carries is what its headers said when it arrived.
PeerKnown ==
  /\ DOMAIN arrival = Requests /\ DOMAIN peer = Requests /\ DOMAIN pc = Requests
  /\ \A r \in Requests :
       pc[r] # "new" =>
         /\ arrival[r] \in Arrivals[r]
         /\ peer[r] = Extract(HeadersOf(arrival[r]), SocketOf(r, arrival[r]))

\* A request's headers are read once, when it arrives.
LEMMA PeerKnownNext == PeerKnown /\ [Next]_vars => PeerKnown'
<1> SUFFICES ASSUME PeerKnown, [Next]_vars PROVE PeerKnown'
    OBVIOUS
<1>1. ASSUME NEW r \in Requests, Arrive(r) PROVE PeerKnown'
  <2>1. PICK a \in Arrivals[r] :
             /\ arrival' = [arrival EXCEPT ![r] = a]
             /\ peer' = [peer EXCEPT ![r] = Extract(HeadersOf(a), SocketOf(r, a))]
        BY <1>1 DEF Arrive
  <2>2. PICK named : named = Extract(HeadersOf(a), SocketOf(r, a))
        OBVIOUS
  <2>3. arrival'[r] = a /\ peer'[r] = named
        BY <2>1, <2>2 DEF PeerKnown
  <2>4. \A s \in Requests \ {r} : arrival'[s] = arrival[s] /\ peer'[s] = peer[s] /\ pc'[s] = pc[s]
        BY <1>1, <2>1 DEF Arrive, PeerKnown
  <2>5. DOMAIN arrival' = Requests /\ DOMAIN peer' = Requests /\ DOMAIN pc' = Requests
        BY <1>1, <2>1 DEF Arrive, PeerKnown
  <2> QED BY <2>2, <2>3, <2>4, <2>5 DEF PeerKnown
<1>2. ASSUME NEW r \in Requests, Poll(r) \/ Leave(r) PROVE PeerKnown'
  <2>1. /\ arrival' = arrival /\ peer' = peer /\ pc[r] # "new"
        /\ \A s \in Requests \ {r} : pc'[s] = pc[s]
        /\ DOMAIN pc' = Requests
        BY <1>2 DEF PeerKnown, Poll, Answer, RouteAround, RouteUntraced, Trace,
              Resume, InnerPending, AnswerPlainly, EnterHandler, ReturnPage, Finish,
              PollFrame, ReturnFrame, EndBody, Leave, identity
  <2> QED BY <2>1 DEF PeerKnown
<1>3. CASE UNCHANGED vars
      BY <1>3 DEF PeerKnown, vars, identity
<1> QED BY <1>1, <1>2, <1>3 DEF Next

\* So every request's peer is known from its headers.
LEMMA PeerIsKnown == Spec => []PeerKnown
<1>1. Init => PeerKnown
      BY DEF Init, PeerKnown
<1> QED BY <1>1, PeerKnownNext, PTL DEF Spec

\* Whatever proxies a request came by, its peer is the remotest node that was
\* named to this server.
LEMMA KnownIsRemotest == PeerKnown => PeerIsRemotestNamed
<1> SUFFICES ASSUME PeerKnown, NEW r \in Requests, pc[r] # "new",
                    \/ Hops(arrival[r], XffCustoms) = {}
                    \/ Hops(arrival[r], {"blank", "opaque"}) = {}
             PROVE  peer[r] = NamedPeer(r, arrival[r])
    BY DEF PeerIsRemotestNamed, Arrived, NamedPeer
<1>1. PICK a \in Arrivals[r] : a = arrival[r]
      BY DEF PeerKnown
<1>2. peer[r] = Extract(HeadersOf(a), SocketOf(r, a))
      BY <1>1 DEF PeerKnown
<1> QED BY <1>1, <1>2, ExtractNames

\* So it is for any number of requests and proxies, unless one of these wipes
\* out an X-Forwarded-For that others have written to.
THEOREM PeerIsAlwaysRemotestNamed == Spec => []PeerIsRemotestNamed
BY PeerIsKnown, KnownIsRemotest, PTL

\* Behind proxies of one custom each client is one peer, and without proxies
\* each connection is.
LEMMA KnownIsOnePeer == PeerKnown => ClientIsOnePeer
<1> SUFFICES ASSUME PeerKnown, NEW r \in Requests, NEW s \in Requests,
                    pc[r] # "new", pc[s] # "new"
             PROVE  /\ Uniform(arrival[r]) /\ Uniform(arrival[s]) =>
                         (peer[r] = peer[s] <=> arrival[r].client = arrival[s].client)
                    /\ arrival[r].way = <<>> /\ r # s => peer[r] # peer[s]
    BY DEF ClientIsOnePeer, Arrived
<1>1. PICK a \in Arrivals[r] : a = arrival[r]
      BY DEF PeerKnown
<1>2. PICK b \in Arrivals[s] : b = arrival[s]
      BY DEF PeerKnown
<1>3. /\ peer[r] = Extract(HeadersOf(a), SocketOf(r, a))
      /\ peer[s] = Extract(HeadersOf(b), SocketOf(s, b))
      BY <1>1, <1>2 DEF PeerKnown
<1>4. ASSUME Uniform(a), Uniform(b) PROVE peer[r] = peer[s] <=> a.client = b.client
  <2>1. peer[r] = <<a.client>> /\ peer[s] = <<b.client>>
        BY <1>3, <1>4, UniformNames
  <2>2. \A x, y : <<x>> = <<y>> <=> x = y
        OBVIOUS
  <2> QED BY <2>1, <2>2
<1>5. ASSUME a.way = <<>>, r # s PROVE peer[r] # peer[s]
  <2>1. peer[r] = SocketOf(r, a)
        BY <1>3, <1>5, DirectNames
  <2>2. peer[s] \in Lines \/ peer[s] = SocketOf(s, b)
        BY <1>3, PeerIsLineOrSocket
  <2> QED BY <1>5, <2>1, <2>2, SocketsDiffer
<1> QED BY <1>1, <1>2, <1>4, <1>5

\* So the rate limiter counts a client's requests together wherever they came
\* in, and never those of two clients.
THEOREM ClientIsAlwaysOnePeer == Spec => []ClientIsOnePeer
BY PeerIsKnown, KnownIsOnePeer, PTL

=============================================================================
