---------------------------- MODULE EdgeRouterProofs ----------------------------
(***************************************************************************)
(* Proofs about the edge router, for any visitors, hosts and deployments,  *)
(* lists of backends of any length, and any lifetime of the cache.         *)
(***************************************************************************)
EXTENDS EdgeRouter, SequenceTheorems, TLAPS

(***************************************************************************)
(* Arcs: the indices selected most recently                                *)
(***************************************************************************)

\* i is one of the indices from a, going round, to before e.
InArc(a, e, i) == IF a <= e THEN a <= i /\ i < e ELSE a <= i \/ i < e

\* The index after e in a list of length n.
After(e, n) == IF e + 1 = n THEN 0 ELSE e + 1

\* With a counter that selects e next, the backends were selected q times each,
\* and those of one arc that ends before e once more.
OneRound(turns, n, e, q, a) ==
    \A i \in 0..n-1 : turns[i + 1] = q + (IF InArc(a, e, i) THEN 1 ELSE 0)

RoundRobin(turns, n, e) == \E q \in Nat, a \in 0..n-1 : OneRound(turns, n, e, q, a)

\* Counting on by one leads to the next index (the worker takes the counter modulo
\* the length of the list).
LEMMA IndexAfter ==
    ASSUME NEW c \in Nat, NEW n \in Nat \ {0}
    PROVE  c % n \in 0..n-1 /\ (c + 1) % n = After(c % n, n)
<1>1. /\ c % n \in 0..n-1 /\ c \div n \in Int
      /\ c = n * (c \div n) + (c % n)
  OBVIOUS
<1>2. /\ (c + 1) % n \in 0..n-1 /\ (c + 1) \div n \in Int
      /\ c + 1 = n * ((c + 1) \div n) + ((c + 1) % n)
  OBVIOUS
<1> DEFINE d == (c + 1) \div n - c \div n
<1>3. d \in Int /\ n * d = (c % n) + 1 - ((c + 1) % n)
  BY <1>1, <1>2
<1> HIDE DEF d
<1>4. (c % n) + 1 - ((c + 1) % n) \in (2 - n)..n
  BY <1>1, <1>2
<1>5. d = 0 \/ d = 1
  BY <1>3, <1>4
<1>6. CASE d = 0
  BY <1>1, <1>2, <1>3, <1>6 DEF After
<1>7. CASE d = 1
  BY <1>1, <1>2, <1>3, <1>7 DEF After
<1>. QED
  BY <1>1, <1>5, <1>6, <1>7

\* The arc grows by the index it ends before, unless that closes the circle.
LEMMA ArcGrows ==
    ASSUME NEW n \in Nat \ {0}, NEW a \in 0..n-1, NEW e \in 0..n-1, NEW i \in 0..n-1
    PROVE  /\ After(e, n) # a => (InArc(a, After(e, n), i) <=> InArc(a, e, i) \/ i = e)
           /\ After(e, n) = a => (InArc(a, e, i) <=> i # e)
           /\ ~InArc(a, e, e) /\ ~InArc(a, a, i)
<1>1. CASE e + 1 = n
  BY <1>1 DEF After, InArc
<1>2. CASE e + 1 # n
  BY <1>2 DEF After, InArc
<1>. QED
  BY <1>1, <1>2

\* One selection keeps the shape.
LEMMA RoundRobinGoesOn ==
    ASSUME NEW n \in Nat \ {0}, NEW e \in 0..n-1, NEW turns, NEW turned,
           RoundRobin(turns, n, e),
           \A i \in 0..n-1 : turned[i + 1] = IF i = e THEN turns[i + 1] + 1 ELSE turns[i + 1]
    PROVE  RoundRobin(turned, n, After(e, n))
<1>1. PICK q \in Nat, a \in 0..n-1 : OneRound(turns, n, e, q, a)
  BY DEF RoundRobin
<1>2. \A i \in 0..n-1 :
        turned[i + 1] = q + (IF InArc(a, e, i) \/ i = e THEN 1 ELSE 0)
  BY <1>1, ArcGrows DEF OneRound
<1>3. CASE After(e, n) # a
  <2>1. OneRound(turned, n, After(e, n), q, a)
    BY <1>2, <1>3, ArcGrows DEF OneRound
  <2>. QED
    BY <2>1 DEF RoundRobin
<1>4. CASE After(e, n) = a
  <2>1. \A i \in 0..n-1 : turned[i + 1] = (q + 1) + (IF InArc(a, a, i) THEN 1 ELSE 0)
    BY <1>2, <1>4, ArcGrows
  <2>2. OneRound(turned, n, After(e, n), q + 1, a)
    BY <1>4, <2>1 DEF OneRound
  <2>3. q + 1 \in Nat
    OBVIOUS
  <2>. QED
    BY <2>2, <2>3 DEF RoundRobin
<1>. QED
  BY <1>3, <1>4

\* A list that was not selected from yet has that shape, wherever the counter is.
LEMMA RoundRobinStarts ==
    ASSUME NEW n \in Nat \ {0}, NEW e \in 0..n-1, NEW turns,
           \A i \in 0..n-1 : turns[i + 1] = 0
    PROVE  RoundRobin(turns, n, e)
<1>1. OneRound(turns, n, e, 0, e)
  BY ArcGrows DEF OneRound
<1>. QED
  BY <1>1 DEF RoundRobin
--------------------------------------------------------------------------------
(***************************************************************************)
(* Types                                                                   *)
(***************************************************************************)

\* Only a tab at rest has no host.
HostIsKnown == \A r \in Requests : request[r].pc # "rest" => request[r].host \in Hosts

Shape == TypeOK /\ HostIsKnown

LEMMA ValuesTyped ==
    /\ \A code \in {404, 500} : NoBody(code) \in Answer
    /\ NoRequest \in Request
    /\ Expired \in [answer: Answer, age: 0..CACHE_TTL]
    /\ NoSpread \in [list: BackendLists \cup {<<>>}, turns: Seq(Nat)]
    /\ Len(NoSpread.turns) = Len(NoSpread.list)
<1>1. \A code \in {404, 500} : NoBody(code) \in Answer
  BY DEF NoBody, Answer
<1>2. NoRequest \in Request
  BY <1>1 DEF NoRequest, Request
<1>3. Expired \in [answer: Answer, age: 0..CACHE_TTL]
  BY <1>1, EdgeAssumption DEF Expired
<1>4. /\ NoSpread \in [list: BackendLists \cup {<<>>}, turns: Seq(Nat)]
      /\ Len(NoSpread.turns) = Len(NoSpread.list)
  BY EmptySeq DEF NoSpread
<1>. QED
  BY <1>1, <1>2, <1>3, <1>4

LEMMA ShapeInit == Init => Shape
<1>1. ASSUME Init PROVE TypeOK
  BY <1>1, ValuesTyped, EdgeAssumption DEF Init, TypeOK
<1>2. ASSUME Init PROVE HostIsKnown
  BY <1>2 DEF Init, HostIsKnown, NoRequest
<1>. QED
  BY <1>1, <1>2 DEF Shape

\* What the orchestrator answers is an answer.
LEMMA AnswersTyped ==
    ASSUME TypeOK, NEW h \in Hosts
    PROVE  Answers(h) \subseteq Answer
<1>1. DeploymentOf[h] # NoDeployment => DeploymentOf[h] \in Deployments
  BY EdgeAssumption
<1>2. \A d \in Deployments : view[d] \in View
  BY DEF TypeOK
<1>3. \A d \in Deployments : [code |-> 200, deploymentId |-> d, view |-> view[d]] \in Answer
  BY <1>2 DEF Answer
<1>4. \A d \in Deployments :
        [code |-> 503, deploymentId |-> Named(h), view |-> view[d]] \in Answer
  BY <1>1, <1>2 DEF Answer, Named
<1>5. NoBody(500) \in Answer /\ NoBody(404) \in Answer
  BY ValuesTyped
<1>6. CASE DeploymentOf[h] = NoDeployment
  BY <1>5, <1>6 DEF Answers
<1>7. CASE DeploymentOf[h] # NoDeployment
  <2>1. PICK d \in Deployments : d = DeploymentOf[h]
    BY <1>1, <1>7
  <2>2. CASE view[d].status \in ServedStatuses
    <3> DEFINE answer == [code |-> 200, deploymentId |-> d, view |-> view[d]]
    <3>1. answer \in Answer
      BY <1>3
    <3>2. Answers(h) = {NoBody(500)} \cup {answer}
      BY <1>7, <2>1, <2>2 DEF Answers
    <3> HIDE DEF answer
    <3>. QED
      BY <1>5, <3>1, <3>2
  <2>3. CASE view[d].status \notin ServedStatuses
    <3> DEFINE answer == [code |-> 503, deploymentId |-> Named(h), view |-> view[d]]
    <3>1. answer \in Answer
      BY <1>4
    <3>2. Answers(h) = {NoBody(500)} \cup {answer}
      BY <1>7, <2>1, <2>3 DEF Answers
    <3> HIDE DEF answer
    <3>. QED
      BY <1>5, <3>1, <3>2
  <2>. QED
    BY <2>2, <2>3
<1>. QED
  BY <1>6, <1>7

\* A tab that ends, moves on or starts is a tab of the type, with its host.
LEMMA RequestTyped ==
    ASSUME Shape, NEW r \in Requests
    PROVE  /\ \A req \in Request :
                /\ req.pc # "rest" => req.host \in Hosts
                /\ request' = [request EXCEPT ![r] = req]
                => request' \in [Requests -> Request] /\ HostIsKnown'
           /\ request[r] \in Request
           /\ request[r].pc # "rest" => request[r].host \in Hosts
  BY DEF Shape, TypeOK, HostIsKnown

\* No response that is a last page, and no loading page, disturbs the types.
LEMMA ResponseTyped ==
    ASSUME Shape, NEW r \in Requests, request[r].pc # "rest",
           Ends(r) \/ ShowsLoadingPage(r)
    PROVE  request' \in [Requests -> Request] /\ HostIsKnown'
<1>1. CASE Ends(r)
  <2>1. NoRequest \in Request /\ NoRequest.pc = "rest"
    BY ValuesTyped DEF NoRequest
  <2>2. request' = [request EXCEPT ![r] = NoRequest]
    BY <1>1 DEF Ends
  <2>. QED
    BY <2>1, <2>2, RequestTyped
<1>2. CASE ShowsLoadingPage(r)
  <2> DEFINE req == [request[r] EXCEPT !.pc = "loading", !.loading = TRUE,
                                       !.answer = NoBody(404)]
  <2>1. req \in Request /\ req.host \in Hosts
    <3>1. request[r] \in Request /\ request[r].host \in Hosts
      BY RequestTyped
    <3>2. NoBody(404) \in Answer
      BY ValuesTyped
    <3>. QED
      BY <3>1, <3>2, ZenonT(60) DEF Request
  <2>2. request' = [request EXCEPT ![r] = req]
    BY <1>2 DEF ShowsLoadingPage
  <2>. QED
    BY <2>1, <2>2, RequestTyped
<1>. QED
  BY <1>1, <1>2

\* The list a backend is selected from, and its index.
LEMMA SelectionTyped ==
    ASSUME TypeOK, NEW list \in BackendLists, list # <<>>, NEW c \in Nat
    PROVE  /\ list \in Seq(Nat) /\ Len(list) \in Nat \ {0}
           /\ Index(c, Len(list)) \in 0..Len(list)-1
<1>1. list \in Seq(Nat) /\ Len(list) \in Nat \ {0}
  BY EdgeAssumption, EmptySeq
<1>. QED
  BY <1>1, IndexAfter DEF Index

\* A selection keeps the history typed, counts the backend selected and no other,
\* and starts from nothing with another list.
LEMMA SelectionRecorded ==
    ASSUME NEW s \in [list: BackendLists \cup {<<>>}, turns: Seq(Nat)],
           Len(s.turns) = Len(s.list),
           NEW list \in Seq(Nat), list \in BackendLists,
           NEW i \in 0..Len(list)-1
    PROVE  LET after == AfterSelection(s, list, i)
           IN  /\ after \in [list: BackendLists \cup {<<>>}, turns: Seq(Nat)]
               /\ after.list = list /\ Len(after.turns) = Len(list)
               /\ \A k \in 0..Len(list)-1 :
                    LET before == IF s.list = list THEN s.turns[k + 1] ELSE 0
                    IN  after.turns[k + 1] = IF k = i THEN before + 1 ELSE before
<1> DEFINE turns == IF s.list = list THEN s.turns ELSE [k \in DOMAIN list |-> 0]
           after == AfterSelection(s, list, i)
<1>1. turns \in Seq(Nat) /\ Len(turns) = Len(list)
  <2>1. DOMAIN list = 1..Len(list) /\ Len(list) \in Nat
    OBVIOUS
  <2>2. CASE s.list = list
    BY <2>2
  <2>3. CASE s.list # list
    BY <2>1, <2>3
  <2>. QED
    BY <2>2, <2>3
<1>2. \A k \in 0..Len(list)-1 : turns[k + 1] = IF s.list = list THEN s.turns[k + 1] ELSE 0
  OBVIOUS
<1>3. after = [list |-> list, turns |-> [turns EXCEPT ![i + 1] = turns[i + 1] + 1]]
  BY DEF AfterSelection
<1> HIDE DEF turns, after
<1>4. i + 1 \in 1..Len(turns) /\ turns[i + 1] + 1 \in Nat
  BY <1>1
<1>5. /\ after.turns \in Seq(Nat) /\ Len(after.turns) = Len(list) /\ after.list = list
      /\ \A j \in 1..Len(list) :
           after.turns[j] = IF j = i + 1 THEN turns[i + 1] + 1 ELSE turns[j]
  BY <1>1, <1>3, <1>4, ExceptSeq
<1>6. \A k \in 0..Len(list)-1 :
        after.turns[k + 1] = IF k = i THEN turns[k + 1] + 1 ELSE turns[k + 1]
  BY <1>5
<1>. QED
  BY <1>2, <1>3, <1>5, <1>6 DEF after

\* What a step may do to the state besides the tabs and the history.
Rest == /\ view \in [Deployments -> View]
        /\ changes \in 0..MaxChanges
        /\ cache \in [Hosts -> [answer: Answer, age: 0..CACHE_TTL]]
        /\ wakes \subseteq Deployments

Counts == /\ rrCounters \in [Deployments -> Nat]
          /\ spread \in [Deployments -> [list: BackendLists \cup {<<>>}, turns: Seq(Nat)]]
          /\ \A d \in Deployments : Len(spread[d].turns) = Len(spread[d].list)

Tabs == request \in [Requests -> Request] /\ HostIsKnown

LEMMA ShapeParts == Shape <=> Rest /\ Counts /\ Tabs
  BY DEF Shape, TypeOK, Rest, Counts, Tabs

LEMMA VisitTyped ==
    ASSUME Shape, NEW r \in Requests
    PROVE  /\ \A h \in Hosts : Visit(r, h) => Tabs'
           /\ Refresh(r) => Tabs'
<1>1. ASSUME NEW h \in Hosts, Visit(r, h) PROVE Tabs'
  <2> DEFINE req == [NoRequest EXCEPT !.pc = "lookup", !.host = h]
  <2>1. req \in Request /\ req.host \in Hosts
    BY ValuesTyped DEF Request
  <2>. QED
    BY <1>1, <2>1, RequestTyped DEF Visit, Tabs
<1>2. ASSUME Refresh(r) PROVE Tabs'
  <2> DEFINE req == [request[r] EXCEPT !.pc = "lookup"]
  <2>1. request[r] \in Request /\ request[r].host \in Hosts
    BY <1>2, RequestTyped DEF Refresh
  <2>2. req \in Request /\ req.host \in Hosts
    BY <2>1 DEF Request
  <2>3. request' = [request EXCEPT ![r] = req]
    BY <1>2 DEF Refresh, Shape, TypeOK
  <2>. QED
    BY <2>2, <2>3, RequestTyped DEF Tabs
<1>. QED
  BY <1>1, <1>2

\* An answer is put into the tab, and may be put into the cache.
LEMMA LookupTyped ==
    ASSUME Shape, NEW r \in Requests,
           LookupInCache(r) \/ LookupAtOrchestrator(r) \/ LookupFails(r)
    PROVE  Tabs' /\ Rest'
<1>1. /\ request[r] \in Request /\ request[r].host \in Hosts
      /\ cache[request[r].host] \in [answer: Answer, age: 0..CACHE_TTL]
  BY RequestTyped DEF LookupInCache, LookupAtOrchestrator, LookupFails, Shape, TypeOK
<1>2. ASSUME NEW answer \in Answer,
             request' = [request EXCEPT ![r].pc = "answered", ![r].answer = answer]
      PROVE  Tabs'
  <2> DEFINE req == [request[r] EXCEPT !.pc = "answered", !.answer = answer]
  <2>1. req \in Request /\ req.host \in Hosts
    BY <1>1 DEF Request
  <2>2. request' = [request EXCEPT ![r] = req]
    BY <1>2 DEF Shape, TypeOK
  <2>. QED
    BY <2>1, <2>2, RequestTyped DEF Tabs
<1>3. CASE LookupInCache(r)
  BY <1>1, <1>2, <1>3 DEF LookupInCache, Rest, Shape, TypeOK
<1>4. CASE LookupAtOrchestrator(r)
  <2>1. PICK answer \in Answers(request[r].host) :
          /\ request' = [request EXCEPT ![r].pc = "answered", ![r].answer = answer]
          /\ \/ cache' = [cache EXCEPT ![request[r].host] =
                           IF CACHE_TTL > 0 THEN [answer |-> answer, age |-> 0] ELSE @]
             \/ UNCHANGED cache
    BY <1>4 DEF LookupAtOrchestrator
  <2>2. answer \in Answer
    BY <1>1, <2>1, AnswersTyped DEF Shape
  <2>3. cache' \in [Hosts -> [answer: Answer, age: 0..CACHE_TTL]]
    <3> DEFINE Entry == [answer: Answer, age: 0..CACHE_TTL]
    <3>1. cache \in [Hosts -> Entry]
      BY DEF Shape, TypeOK
    <3>2. [answer |-> answer, age |-> 0] \in Entry
      BY <2>2, EdgeAssumption
    <3> HIDE DEF Entry
    <3>3. cache' \in [Hosts -> Entry]
      BY <1>1, <2>1, <3>1, <3>2
    <3>. QED
      BY <3>3 DEF Entry
  <2>. QED
    BY <1>2, <1>4, <2>1, <2>2, <2>3 DEF LookupAtOrchestrator, Rest, Shape, TypeOK
<1>5. CASE LookupFails(r)
  <2>1. request' \in [Requests -> Request] /\ HostIsKnown'
    BY <1>5, ResponseTyped DEF LookupFails
  <2>. QED
    BY <1>5, <2>1 DEF LookupFails, Tabs, Rest, Shape, TypeOK
<1>. QED
  BY <1>3, <1>4, <1>5

\* What is selected, shown or answered after the lookup.
LEMMA ResponsesTyped ==
    ASSUME Shape, NEW r \in Requests, HandleUnavailable(r) \/ NotServed(r)
    PROVE  Tabs' /\ Rest'
<1>1. Tabs'
  BY ResponseTyped DEF HandleUnavailable, NotServed, Tabs
<1>2. request[r].answer.deploymentId \in Deployments \cup {NoDeployment}
  BY RequestTyped DEF Request, Answer
<1>3. wakes' \subseteq Deployments
  BY <1>2 DEF HandleUnavailable, NotServed, AsksForWake, Shape, TypeOK
<1>. QED
  BY <1>1, <1>3 DEF HandleUnavailable, NotServed, Rest, Shape, TypeOK

\* A proxied request selects from the list of its answer.
LEMMA ProxySelects ==
    ASSUME Shape, NEW r \in Requests, Proxy(r)
    PROVE  /\ Tabs' /\ Rest'
           /\ \E d \in Deployments \cup {NoDeployment}, list \in BackendLists :
                list # <<>> /\ SelectBackend(d, list)
<1>1. Tabs'
  BY ResponseTyped DEF Proxy, Tabs
<1>2. request[r].answer \in Answer
  BY RequestTyped DEF Request
<1>3. /\ request[r].answer.deploymentId \in Deployments \cup {NoDeployment}
      /\ request[r].answer.view \in View \cup {NoView}
  BY <1>2 DEF Answer
<1>4. request[r].answer.view.backends # <<>>
        => request[r].answer.view.backends \in BackendLists
  BY <1>3 DEF View, NoView
<1>5. Rest'
  BY DEF Proxy, Rest, Shape, TypeOK
<1>6. /\ request[r].answer.view.backends # <<>>
      /\ SelectBackend(request[r].answer.deploymentId, request[r].answer.view.backends)
  BY DEF Proxy
<1>. QED
  BY <1>1, <1>3, <1>4, <1>5, <1>6

\* The orchestrator, the network and time leave the tabs alone.
LEMMA WorldTyped ==
    ASSUME Shape
    PROVE  /\ \A d \in Deployments : Change(d) \/ WakeArrives(d) \/ WakeLost(d) \/ ComesUp(d)
                 => Rest'
           /\ Tick => Rest'
<1>1. view \in [Deployments -> View] /\ changes \in 0..MaxChanges /\ wakes \subseteq Deployments
  BY DEF Shape, TypeOK
<1>2. ASSUME NEW d \in Deployments, Change(d) PROVE Rest'
  BY <1>1, <1>2, EdgeAssumption DEF Change, Becomes, Rest, Shape, TypeOK
<1>3. ASSUME NEW d \in Deployments, WakeArrives(d) PROVE Rest'
  <2>1. view[d].status = "sleeping" => [status |-> "waking", backends |-> <<>>] \in View
    <3>1. view[d].status \in Statuses
      BY <1>1 DEF View
    <3>. QED
      BY <3>1, EdgeAssumption DEF View, ServedStatuses
  <2>. QED
    BY <1>1, <1>3, <2>1 DEF WakeArrives, Becomes, Rest, Shape, TypeOK
<1>4. ASSUME NEW d \in Deployments, WakeLost(d) PROVE Rest'
  BY <1>1, <1>4 DEF WakeLost, Rest, Shape, TypeOK
<1>5. ASSUME NEW d \in Deployments, ComesUp(d) PROVE Rest'
  BY <1>1, <1>5 DEF ComesUp, Becomes, Rest, Shape, TypeOK
<1>6. ASSUME Tick PROVE Rest'
  <2>1. ASSUME NEW h \in Hosts
        PROVE  (IF cache[h].age + 1 >= CACHE_TTL THEN Expired ELSE [cache[h] EXCEPT !.age = @ + 1])
                 \in [answer: Answer, age: 0..CACHE_TTL]
    <3>1. cache[h] \in [answer: Answer, age: 0..CACHE_TTL]
      BY DEF Shape, TypeOK
    <3>2. CASE cache[h].age + 1 >= CACHE_TTL
      BY <3>2, ValuesTyped
    <3>3. CASE ~(cache[h].age + 1 >= CACHE_TTL)
      <4>1. cache[h].age + 1 \in 0..CACHE_TTL
        BY <3>1, <3>3, EdgeAssumption
      <4>. QED
        BY <3>1, <3>3, <4>1
    <3>. QED
      BY <3>2, <3>3
  <2>. QED
    BY <1>1, <1>6, <2>1 DEF Tick, Rest
<1>. QED
  BY <1>2, <1>3, <1>4, <1>5, <1>6
--------------------------------------------------------------------------------
(***************************************************************************)
(* The counters, and the invariant                                         *)
(***************************************************************************)

\* The selections of a deployment by its list are those of a round robin that ends
\* before the index its counter leads to next.
SpreadOf(d) ==
    LET n == Len(spread[d].list)
    IN  n > 0 => RoundRobin(spread[d].turns, n, rrCounters[d] % n)

SpreadInv == \A d \in Deployments : SpreadOf(d)

\* A selection goes on with the round robin, or starts one for another list.
LEMMA SelectionGoesOn ==
    ASSUME Shape, SpreadInv, NEW d \in Deployments \cup {NoDeployment},
           NEW list \in BackendLists, list # <<>>, SelectBackend(d, list)
    PROVE  Counts' /\ SpreadInv'
<1> DEFINE Spread == [list: BackendLists \cup {<<>>}, turns: Seq(Nat)]
           n == Len(list)
           e == Index(rrCounters[d], n)
           after == AfterSelection(spread[d], list, e)
<1>1. /\ rrCounters \in [Deployments -> Nat] /\ spread \in [Deployments -> Spread]
      /\ \A x \in Deployments : Len(spread[x].turns) = Len(spread[x].list)
  BY DEF Shape, TypeOK
<1>2. CASE d = NoDeployment
  <2>1. rrCounters' = rrCounters /\ spread' = spread
    BY <1>1, <1>2, EdgeAssumption DEF SelectBackend
  <2>. QED
    BY <1>1, <2>1 DEF Counts, SpreadInv, SpreadOf
<1>3. CASE d \in Deployments
  <2>1. list \in Seq(Nat) /\ n \in Nat \ {0} /\ e \in 0..n-1
    BY <1>1, <1>3, SelectionTyped DEF Shape
  <2>2. /\ after \in Spread /\ after.list = list /\ Len(after.turns) = n
        /\ \A k \in 0..n-1 :
             LET before == IF spread[d].list = list THEN spread[d].turns[k + 1] ELSE 0
             IN  after.turns[k + 1] = IF k = e THEN before + 1 ELSE before
    BY <1>1, <1>3, <2>1, SelectionRecorded
  <2>3. /\ rrCounters' = [rrCounters EXCEPT ![d] = rrCounters[d] + 1]
        /\ spread' = [spread EXCEPT ![d] = after]
    BY DEF SelectBackend, Counter
  <2>4. e = rrCounters[d] % n
    BY DEF Index
  <2> HIDE DEF after, n, e, Spread
  <2>5. Counts'
    <3>1. rrCounters' \in [Deployments -> Nat]
      BY <1>1, <1>3, <2>3
    <3>2. spread' \in [Deployments -> Spread]
      BY <1>1, <1>3, <2>2, <2>3
    <3>3. \A x \in Deployments : Len(spread'[x].turns) = Len(spread'[x].list)
      BY <1>1, <1>3, <2>2, <2>3 DEF n
    <3>. QED
      BY <3>1, <3>2, <3>3 DEF Counts, Spread
  <2>6. RoundRobin(after.turns, n, After(e, n))
    <3>1. CASE spread[d].list = list
      <4>1. RoundRobin(spread[d].turns, n, e)
        BY <1>3, <2>1, <2>4, <3>1 DEF SpreadInv, SpreadOf, n
      <4>2. \A k \in 0..n-1 : after.turns[k + 1] =
               IF k = e THEN spread[d].turns[k + 1] + 1 ELSE spread[d].turns[k + 1]
        BY <2>2, <3>1
      <4>. QED
        BY <2>1, <4>1, <4>2, RoundRobinGoesOn
    <3>2. CASE spread[d].list # list
      <4> DEFINE zero == [k \in 1..n |-> 0]
      <4>1. \A k \in 0..n-1 : zero[k + 1] = 0
        BY <2>1
      <4>2. \A k \in 0..n-1 : after.turns[k + 1] = IF k = e THEN zero[k + 1] + 1 ELSE zero[k + 1]
        BY <2>2, <3>2, <4>1
      <4> HIDE DEF zero
      <4>3. RoundRobin(zero, n, e)
        BY <2>1, <4>1, RoundRobinStarts
      <4>. QED
        BY <2>1, <4>2, <4>3, RoundRobinGoesOn
    <3>. QED
      BY <3>1, <3>2
  <2>7. SpreadOf(d)'
    <3>1. (rrCounters[d] + 1) % n = After(e, n)
      BY <1>1, <1>3, <2>1, <2>4, IndexAfter
    <3>2. spread'[d] = after /\ rrCounters'[d] = rrCounters[d] + 1
      BY <1>1, <1>3, <2>3
    <3>. QED
      BY <2>2, <2>6, <3>1, <3>2 DEF SpreadOf, n
  <2>8. ASSUME NEW x \in Deployments, x # d PROVE SpreadOf(x)'
    <3>1. spread'[x] = spread[x] /\ rrCounters'[x] = rrCounters[x]
      BY <1>1, <1>3, <2>3, <2>8
    <3>. QED
      BY <3>1 DEF SpreadInv, SpreadOf
  <2>. QED
    BY <2>5, <2>7, <2>8 DEF SpreadInv
<1>. QED
  BY <1>2, <1>3

LEMMA CountsKept ==
    ASSUME Shape, SpreadInv, UNCHANGED <<rrCounters, spread>>
    PROVE  Counts' /\ SpreadInv'
  BY DEF Shape, TypeOK, Counts, SpreadInv, SpreadOf

LEMMA ColdStartTyped ==
    ASSUME Shape, ColdStart
    PROVE  Rest' /\ Tabs' /\ Counts' /\ SpreadInv'
<1>1. Rest' /\ Tabs'
  BY DEF ColdStart, Shape, TypeOK, Rest, Tabs, HostIsKnown
<1>2. Counts'
  BY ValuesTyped DEF ColdStart, Counts
<1>3. SpreadInv'
  <2>1. \A d \in Deployments : Len(spread'[d].list) = 0
    BY EmptySeq DEF ColdStart, NoSpread
  <2>. QED
    BY <2>1 DEF SpreadInv, SpreadOf
<1>. QED
  BY <1>1, <1>2, <1>3

EdgeInv == Shape /\ SpreadInv

LEMMA EdgeInit == Init => EdgeInv
<1>1. ASSUME Init PROVE SpreadInv
  <2>1. \A d \in Deployments : Len(spread[d].list) = 0
    BY <1>1, EmptySeq DEF Init, NoSpread
  <2>. QED
    BY <2>1 DEF SpreadInv, SpreadOf
<1>. QED
  BY <1>1, ShapeInit DEF EdgeInv

LEMMA EdgeStep ==
    ASSUME EdgeInv, [Next]_vars
    PROVE  EdgeInv'
<1>. USE DEF EdgeInv
<1>0. (Rest' /\ Tabs' /\ Counts') => Shape'
  BY DEF Shape, TypeOK, Rest, Counts, Tabs
<1>1. ASSUME NEW r \in Requests, NEW h \in Hosts, Visit(r, h) PROVE EdgeInv'
  <2>1. Tabs'
    BY <1>1, VisitTyped
  <2>2. Rest' /\ UNCHANGED <<rrCounters, spread>>
    BY <1>1 DEF Visit, Rest, Shape, TypeOK
  <2>. QED
    BY <1>0, <2>1, <2>2, CountsKept
<1>2. ASSUME NEW r \in Requests, Refresh(r) PROVE EdgeInv'
  <2>1. Tabs'
    BY <1>2, VisitTyped
  <2>2. Rest' /\ UNCHANGED <<rrCounters, spread>>
    BY <1>2 DEF Refresh, Rest, Shape, TypeOK
  <2>. QED
    BY <1>0, <2>1, <2>2, CountsKept
<1>3. ASSUME NEW r \in Requests, LookupInCache(r) \/ LookupAtOrchestrator(r) \/ LookupFails(r)
      PROVE  EdgeInv'
  <2>1. UNCHANGED <<rrCounters, spread>>
    BY <1>3 DEF LookupInCache, LookupAtOrchestrator, LookupFails
  <2>. QED
    BY <1>0, <1>3, <2>1, LookupTyped, CountsKept
<1>4. ASSUME NEW r \in Requests, HandleUnavailable(r) \/ NotServed(r) PROVE EdgeInv'
  <2>1. UNCHANGED <<rrCounters, spread>>
    BY <1>4 DEF HandleUnavailable, NotServed
  <2>. QED
    BY <1>0, <1>4, <2>1, ResponsesTyped, CountsKept
<1>5. ASSUME NEW r \in Requests, Proxy(r) PROVE EdgeInv'
  BY <1>0, <1>5, ProxySelects, SelectionGoesOn
<1>6. ASSUME NEW d \in Deployments, Change(d) \/ WakeArrives(d) \/ WakeLost(d) \/ ComesUp(d)
      PROVE  EdgeInv'
  <2>1. UNCHANGED <<rrCounters, request, spread>>
    BY <1>6 DEF Change, WakeArrives, WakeLost, ComesUp
  <2>2. Tabs'
    BY <2>1 DEF Shape, TypeOK, Tabs, HostIsKnown
  <2>. QED
    BY <1>0, <1>6, <2>1, <2>2, WorldTyped, CountsKept
<1>7. CASE ColdStart
  BY <1>0, <1>7, ColdStartTyped
<1>8. CASE Tick
  <2>1. UNCHANGED <<rrCounters, request, spread>>
    BY <1>8 DEF Tick
  <2>2. Tabs'
    BY <2>1 DEF Shape, TypeOK, Tabs, HostIsKnown
  <2>. QED
    BY <1>0, <1>8, <2>1, <2>2, WorldTyped, CountsKept
<1>9. CASE UNCHANGED vars
  BY <1>9 DEF vars, Shape, TypeOK, HostIsKnown, SpreadInv, SpreadOf
<1>. QED
  BY <1>1, <1>2, <1>3, <1>4, <1>5, <1>6, <1>7, <1>8, <1>9 DEF Next, Handler

LEMMA EdgeInvariant == Spec => []EdgeInv
<1>1. EdgeInv /\ [Next]_vars => EdgeInv'
  BY EdgeStep
<1>. QED
  BY EdgeInit, <1>1, PTL DEF Spec
--------------------------------------------------------------------------------
\* The state of the worker, its cache and its visitors keeps its type; whatever the
\* orchestrator answers, only a deployment is ever asked to wake up.
THEOREM TypeCorrect == Spec => []TypeOK
<1>1. EdgeInv => TypeOK
  BY DEF EdgeInv, Shape
<1>. QED
  BY EdgeInvariant, <1>1, PTL

\* The backends of a list are selected evenly, for lists of any length and however
\* they replace one another under the counter that goes on.
THEOREM SpreadIsEven == Spec => []EvenSpread
<1>1. EdgeInv => EvenSpread
  <2> SUFFICES ASSUME EdgeInv, NEW d \in Deployments,
                      NEW i \in DOMAIN spread[d].turns, NEW j \in DOMAIN spread[d].turns
               PROVE  spread[d].turns[i] <= spread[d].turns[j] + 1
    BY DEF EvenSpread
  <2> DEFINE n == Len(spread[d].list)
             turns == spread[d].turns
  <2>1. turns \in Seq(Nat) /\ Len(turns) = n
    BY DEF EdgeInv, Shape, TypeOK
  <2>2. n \in Nat /\ i \in 1..n /\ j \in 1..n
    <3>1. \A l \in Seq(Nat) : Len(l) \in Nat /\ DOMAIN l = 1..Len(l)
      OBVIOUS
    <3>2. i \in DOMAIN turns /\ j \in DOMAIN turns
      OBVIOUS
    <3> HIDE DEF n, turns
    <3>. QED
      BY <2>1, <3>1, <3>2
  <2>3. PICK q \in Nat, a \in 0..n-1 : OneRound(turns, n, rrCounters[d] % n, q, a)
    BY <2>2 DEF EdgeInv, SpreadInv, SpreadOf, RoundRobin
  <2> HIDE DEF n, turns
  <2>4. \A k \in 1..n : turns[k] = q \/ turns[k] = q + 1
    <3> SUFFICES ASSUME NEW k \in 1..n PROVE turns[k] = q \/ turns[k] = q + 1
      OBVIOUS
    <3>1. k - 1 \in 0..n-1 /\ (k - 1) + 1 = k
      BY <2>2
    <3>. QED
      BY <2>2, <2>3, <3>1 DEF OneRound
  <2>. QED
    BY <2>2, <2>4 DEF turns
<1>. QED
  BY EdgeInvariant, <1>1, PTL

--------------------------------------------------------------------------------
(***************************************************************************)
(* Whose answer it is.  Answers come from a cache by host, interleaved     *)
(* with those of other visitors; the worker acts by the deployment id of   *)
(* the answer.  What VisitorIsServed rests on besides fairness.            *)
(***************************************************************************)

\* An answer that names a deployment names the one behind the host, and one that
\* says it is unavailable leaves it out for some hosts only.
NamesTheHosts(answer, h) ==
    answer.code \in {200, 503} =>
      /\ DeploymentOf[h] \in Deployments
      /\ \/ answer.deploymentId = DeploymentOf[h]
         \/ /\ answer.code = 503 /\ h \in UnnamedHosts
            /\ answer.deploymentId = NoDeployment

AnswersKnow ==
    /\ \A h \in Hosts : NamesTheHosts(cache[h].answer, h)
    /\ \A r \in Requests :
         request[r].pc = "answered" => NamesTheHosts(request[r].answer, request[r].host)

\* A tab that says the app is waking up is waiting for a response or will ask
\* again, and there is an app to wake.
LoadingGoesOn ==
    \A r \in Requests :
      request[r].loading => /\ request[r].pc # "rest"
                            /\ DeploymentOf[request[r].host] \in Deployments

\* A backend is selected, or a wake posted, for a visitor of that deployment.
ActsForItsVisitor ==
    [][\A d \in Deployments :
         rrCounters'[d] > rrCounters[d] \/ d \in wakes' \ wakes
           => \E r \in Requests : /\ request[r].pc = "answered"
                                  /\ DeploymentOf[request[r].host] = d
                                  /\ request'[r].pc # "answered"]_vars

\* A visitor of a sleeping app is told that it is waking up.
ToldToWait(r) ==
    /\ request[r].pc = "answered" /\ request[r].answer.view.status = "sleeping"
    /\ request'[r].pc = "loading"

\* Who is told so has the wake on its way, except at a host whose answers do not say
\* which deployment that is.
SleepersAreWoken ==
    [][\A r \in Requests :
         ToldToWait(r) => \/ DeploymentOf[request[r].host] \in wakes'
                          \/ request[r].host \in UnnamedHosts]_vars

VisitInv == EdgeInv /\ AnswersKnow /\ LoadingGoesOn

LEMMA VisitInvInit == Init => VisitInv
  BY EdgeInit DEF Init, VisitInv, AnswersKnow, LoadingGoesOn, NamesTheHosts, NoRequest,
                  Expired, NoBody

LEMMA AnswersNameTheHosts ==
    ASSUME NEW h \in Hosts, NEW answer \in Answers(h)
    PROVE  NamesTheHosts(answer, h)
<1>1. DeploymentOf[h] # NoDeployment => DeploymentOf[h] \in Deployments
  BY EdgeAssumption
<1>. QED
  BY <1>1 DEF Answers, Named, NamesTheHosts, NoBody

\* A step of one tab, by what becomes of that tab.
LEMMA TabChange ==
    ASSUME VisitInv, NEW r \in Requests, NEW tab,
           request' = [request EXCEPT ![r] = tab],
           \A h \in Hosts : NamesTheHosts(cache'[h].answer, h),
           tab.pc = "answered" => NamesTheHosts(tab.answer, tab.host),
           tab.loading => /\ tab.pc # "rest"
                          /\ DeploymentOf[tab.host] \in Deployments
    PROVE  AnswersKnow' /\ LoadingGoesOn'
<1>1. request'[r] = tab /\ \A q \in Requests \ {r} : request'[q] = request[q]
  BY DEF VisitInv, EdgeInv, Shape, TypeOK
<1>. QED
  BY <1>1 DEF VisitInv, AnswersKnow, LoadingGoesOn

LEMMA VisitInvStep ==
    ASSUME VisitInv, [Next]_vars
    PROVE  VisitInv'
<1>1. /\ request \in [Requests -> Request]
      /\ \A r \in Requests : request[r].pc # "rest" => request[r].host \in Hosts
      /\ \A h \in Hosts : NamesTheHosts(cache[h].answer, h)
  BY DEF VisitInv, EdgeInv, Shape, TypeOK, HostIsKnown, AnswersKnow
<1>2. EdgeInv'
  BY EdgeStep DEF VisitInv
<1> DEFINE Goal == AnswersKnow' /\ LoadingGoesOn'
<1>3. ASSUME NEW r \in Requests, Ends(r), cache' = cache
      PROVE  Goal
  <2>1. ~NoRequest.loading /\ NoRequest.pc # "answered"
    BY DEF NoRequest
  <2>. QED
    BY <1>1, <1>3, <2>1, TabChange DEF Ends
<1>4. ASSUME NEW r \in Requests, NEW h \in Hosts, Visit(r, h)
      PROVE  Goal
  <2> DEFINE tab == [NoRequest EXCEPT !.pc = "lookup", !.host = h]
  <2>1. ~tab.loading /\ tab.pc # "answered"
    BY DEF NoRequest
  <2>2. request' = [request EXCEPT ![r] = tab] /\ cache' = cache
    BY <1>4 DEF Visit
  <2> HIDE DEF tab
  <2>. QED
    BY <1>1, <2>1, <2>2, TabChange
<1>5. ASSUME NEW r \in Requests, Refresh(r)
      PROVE  Goal
  <2> DEFINE tab == [request[r] EXCEPT !.pc = "lookup"]
  <2>1. /\ tab.pc = "lookup" /\ tab.host = request[r].host
        /\ tab.loading = request[r].loading
    BY <1>1 DEF Request
  <2>2. request' = [request EXCEPT ![r] = tab] /\ cache' = cache
    BY <1>1, <1>5 DEF Refresh
  <2> HIDE DEF tab
  <2>. QED
    BY <1>1, <2>1, <2>2, TabChange DEF VisitInv, LoadingGoesOn
<1>6. ASSUME NEW r \in Requests, request[r].pc = "lookup",
             NEW answer, NamesTheHosts(answer, request[r].host),
             request' = [request EXCEPT ![r].pc = "answered", ![r].answer = answer],
             \A h \in Hosts : NamesTheHosts(cache'[h].answer, h)
      PROVE  Goal
  <2> DEFINE tab == [request[r] EXCEPT !.pc = "answered", !.answer = answer]
  <2>1. /\ tab.pc = "answered" /\ tab.host = request[r].host
        /\ tab.loading = request[r].loading /\ tab.answer = answer
    BY <1>1 DEF Request
  <2>2. request' = [request EXCEPT ![r] = tab]
    BY <1>1, <1>6
  <2> HIDE DEF tab
  <2>. QED
    BY <1>6, <2>1, <2>2, TabChange DEF VisitInv, LoadingGoesOn
<1>7. ASSUME NEW r \in Requests, LookupInCache(r)
      PROVE  Goal
  BY <1>1, <1>6, <1>7 DEF LookupInCache
<1>8. ASSUME NEW r \in Requests, LookupAtOrchestrator(r)
      PROVE  Goal
  <2>1. request[r].pc = "lookup" /\ request[r].host \in Hosts
    BY <1>1, <1>8 DEF LookupAtOrchestrator
  <2>2. PICK answer \in Answers(request[r].host) :
          /\ request' = [request EXCEPT ![r].pc = "answered", ![r].answer = answer]
          /\ \/ cache' = [cache EXCEPT ![request[r].host] =
                           IF CACHE_TTL > 0 THEN [answer |-> answer, age |-> 0] ELSE @]
             \/ UNCHANGED cache
    BY <1>8 DEF LookupAtOrchestrator
  <2>3. NamesTheHosts(answer, request[r].host)
    BY <2>1, <2>2, AnswersNameTheHosts
  <2>4. \A h \in Hosts : cache'[h].answer = cache[h].answer
                          \/ (h = request[r].host /\ cache'[h].answer = answer)
    BY <2>2 DEF VisitInv, EdgeInv, Shape, TypeOK
  <2>5. \A h \in Hosts : NamesTheHosts(cache'[h].answer, h)
    BY <1>1, <2>3, <2>4
  <2>. QED
    BY <1>6, <2>1, <2>2, <2>3, <2>5
<1>9. ASSUME NEW r \in Requests, LookupFails(r) \/ Proxy(r) \/ NotServed(r)
      PROVE  Goal
  BY <1>3, <1>9 DEF LookupFails, Proxy, NotServed
<1>10. ASSUME NEW r \in Requests, HandleUnavailable(r)
       PROVE  Goal
  <2>1. CASE ShowsLoadingPage(r)
    <3> DEFINE tab == [request[r] EXCEPT !.pc = "loading", !.loading = TRUE,
                                         !.answer = NoBody(404)]
    <3>1. tab.pc = "loading" /\ tab.host = request[r].host
      BY <1>1 DEF Request
    <3>2. request' = [request EXCEPT ![r] = tab] /\ cache' = cache
      BY <1>10, <2>1 DEF ShowsLoadingPage, HandleUnavailable
    <3>3. DeploymentOf[request[r].host] \in Deployments
      BY <1>10 DEF HandleUnavailable, VisitInv, AnswersKnow, NamesTheHosts
    <3> HIDE DEF tab
    <3>. QED
      BY <1>1, <3>1, <3>2, <3>3, TabChange
  <2>. QED
    BY <1>3, <1>10, <2>1 DEF HandleUnavailable
<1>11. ASSUME request' = request, cache' = cache
       PROVE  Goal
  BY <1>11 DEF VisitInv, AnswersKnow, LoadingGoesOn
<1>12. ASSUME Tick
       PROVE  Goal
  <2>1. \A h \in Hosts : cache'[h].answer = cache[h].answer \/ cache'[h].answer = NoBody(404)
    BY <1>12 DEF Tick, Expired, VisitInv, EdgeInv, Shape, TypeOK
  <2>2. \A h \in Hosts : NamesTheHosts(NoBody(404), h)
    BY DEF NamesTheHosts, NoBody
  <2>3. \A h \in Hosts : NamesTheHosts(cache'[h].answer, h)
    BY <1>1, <2>1, <2>2
  <2>4. request' = request
    BY <1>12 DEF Tick
  <2>. QED
    BY <2>3, <2>4 DEF VisitInv, AnswersKnow, LoadingGoesOn
<1> HIDE DEF Goal
<1>13. Goal
  BY <1>4, <1>5, <1>7, <1>8, <1>9, <1>10, <1>11, <1>12
     DEF Next, Handler, Change, WakeArrives, WakeLost, ComesUp, ColdStart, vars
<1>. QED
  BY <1>2, <1>13 DEF VisitInv, Goal

\* For any hosts, custom domains included, and any cache: a tab that shows a loading
\* page is never at rest, so that a handler or its refresh can always go on, and the
\* page is only shown where there is a deployment.
THEOREM LoadingTabsGoOn == Spec => []LoadingGoesOn
<1>1. VisitInv => LoadingGoesOn
  BY DEF VisitInv
<1>. QED
  BY <1>1, VisitInvInit, VisitInvStep, PTL DEF Spec

\* Whatever hosts share a deployment and however their requests interleave, a
\* deployment is selected from or woken for one of its own visitors only, cached
\* answers included.
THEOREM WorkerActsForVisitors == Spec => ActsForItsVisitor
<1> DEFINE Acts(d) == rrCounters'[d] > rrCounters[d] \/ d \in wakes' \ wakes
           Visited(d) == \E r \in Requests : /\ request[r].pc = "answered"
                                             /\ DeploymentOf[request[r].host] = d
                                             /\ request'[r].pc # "answered"
<1>1. VisitInv /\ [Next]_vars => [\A d \in Deployments : Acts(d) => Visited(d)]_vars
  <2> SUFFICES ASSUME VisitInv, Next, NEW d \in Deployments, Acts(d)
               PROVE  Visited(d)
    BY DEF vars
  <2>1. /\ request \in [Requests -> Request] /\ rrCounters \in [Deployments -> Nat]
    BY DEF VisitInv, EdgeInv, Shape, TypeOK
  <2>2. ~(rrCounters' = rrCounters /\ wakes' \subseteq wakes)
    BY <2>1
  <2>3. ASSUME NEW r \in Requests, Proxy(r)
        PROVE  Visited(d)
    <3>1. rrCounters'[d] # rrCounters[d] /\ wakes' = wakes
      BY <2>1, <2>3 DEF Proxy
    <3>2. d = request[r].answer.deploymentId
      BY <2>1, <2>3, <3>1 DEF Proxy, SelectBackend
    <3>3. request[r].pc = "answered" /\ request[r].answer.code = 200
          /\ request'[r].pc # "answered"
      BY <2>1, <2>3 DEF Proxy, Ends, NoRequest
    <3>. QED
      BY <3>2, <3>3 DEF VisitInv, AnswersKnow, NamesTheHosts
  <2>4. ASSUME NEW r \in Requests, HandleUnavailable(r)
        PROVE  Visited(d)
    <3>1. d = request[r].answer.deploymentId
      BY <2>1, <2>4 DEF HandleUnavailable
    <3>2. request[r].pc = "answered" /\ request[r].answer.code = 503
      BY <2>4 DEF HandleUnavailable
    <3>3. request'[r].pc # "answered"
      <4>1. CASE Ends(r)
        BY <2>1, <4>1 DEF Ends, NoRequest
      <4>2. CASE ShowsLoadingPage(r)
        <5> DEFINE tab == [request[r] EXCEPT !.pc = "loading", !.loading = TRUE,
                                             !.answer = NoBody(404)]
        <5>1. tab.pc = "loading"
          BY <2>1 DEF Request
        <5>2. request'[r] = tab
          BY <2>1, <4>2 DEF ShowsLoadingPage
        <5>. QED
          BY <5>1, <5>2
      <4>. QED
        BY <2>4, <4>1, <4>2 DEF HandleUnavailable
    <3>4. d # NoDeployment
      BY EdgeAssumption
    <3>. QED
      BY <3>1, <3>2, <3>3, <3>4 DEF VisitInv, AnswersKnow, NamesTheHosts
  <2>5. ASSUME ColdStart
        PROVE  FALSE
    <3>1. wakes' = wakes /\ rrCounters'[d] = 0
      BY <2>5 DEF ColdStart
    <3>2. rrCounters[d] \in Nat
      BY <2>1
    <3>. QED
      BY <3>1, <3>2
  <2> HIDE DEF Acts, Visited
  <2>. QED
    BY <2>2, <2>3, <2>4, <2>5
       DEF Next, Handler, Visit, Refresh, LookupInCache, LookupAtOrchestrator, LookupFails,
           NotServed, Change, WakeArrives, WakeLost, ComesUp, Tick
<1>. QED
  BY <1>1, VisitInvInit, VisitInvStep, PTL DEF Spec, ActsForItsVisitor

\* Whoever is told, from the cache or not, that a sleeping deployment is waking up
\* has its wake on the way then, to the deployment behind the host, unless that is a
\* host whose answers leave the deployment out.
THEOREM SleepersAreAlwaysWoken == Spec => SleepersAreWoken
<1> DEFINE Woken(r) == \/ DeploymentOf[request[r].host] \in wakes'
                       \/ request[r].host \in UnnamedHosts
<1>1. VisitInv /\ [Next]_vars => [\A r \in Requests : ToldToWait(r) => Woken(r)]_vars
  <2> SUFFICES ASSUME VisitInv, Next, NEW r \in Requests, ToldToWait(r)
               PROVE  Woken(r)
    BY DEF vars
  <2>1. request \in [Requests -> Request]
    BY DEF VisitInv, EdgeInv, Shape, TypeOK
  <2>2. ~(request' = request)
    BY DEF ToldToWait
  <2>3. ASSUME NEW q \in Requests, NEW tab, request' = [request EXCEPT ![q] = tab]
        PROVE  q = r /\ tab.pc = "loading"
    BY <2>1, <2>3 DEF ToldToWait
  <2>4. ASSUME NEW q \in Requests, HandleUnavailable(q)
        PROVE  Woken(r)
    <3>1. q = r
      BY <2>3, <2>4 DEF HandleUnavailable, ShowsLoadingPage, Ends
    <3>2. NamesTheHosts(request[r].answer, request[r].host) /\ request[r].answer.code = 503
      BY <2>4, <3>1 DEF HandleUnavailable, VisitInv, AnswersKnow
    <3>3. \/ request[r].host \in UnnamedHosts
          \/ /\ request[r].answer.deploymentId = DeploymentOf[request[r].host]
             /\ request[r].answer.deploymentId # NoDeployment
      BY <3>2, EdgeAssumption DEF NamesTheHosts
    <3>. QED
      BY <2>4, <3>1, <3>3 DEF HandleUnavailable, AsksForWake, ToldToWait
  <2>5. ASSUME NEW q \in Requests, Ends(q)
        PROVE  FALSE
    <3>1. request' = [request EXCEPT ![q] = NoRequest] /\ NoRequest.pc # "loading"
      BY <2>5 DEF Ends, NoRequest
    <3>. QED
      BY <2>3, <3>1
  <2>6. ASSUME NEW q \in Requests, NEW h \in Hosts, Visit(q, h)
        PROVE  FALSE
    <3> DEFINE tab == [NoRequest EXCEPT !.pc = "lookup", !.host = h]
    <3>1. request' = [request EXCEPT ![q] = tab] /\ tab.pc # "loading"
      BY <2>6 DEF Visit, NoRequest
    <3> HIDE DEF tab
    <3>. QED
      BY <2>3, <3>1
  <2>7. ASSUME NEW q \in Requests, Refresh(q) \/ LookupInCache(q) \/ LookupAtOrchestrator(q)
        PROVE  FALSE
    <3>1. request[q].pc # "answered" /\ request'[q].pc # "loading"
      BY <2>1, <2>7 DEF Refresh, LookupInCache, LookupAtOrchestrator, Request
    <3>2. \A t \in Requests \ {q} : request'[t] = request[t]
      BY <2>1, <2>7 DEF Refresh, LookupInCache, LookupAtOrchestrator
    <3>. QED
      BY <3>1, <3>2 DEF ToldToWait
  <2> HIDE DEF Woken
  <2>. QED
    BY <2>2, <2>4, <2>5, <2>6, <2>7
       DEF Next, Handler, LookupFails, Proxy, NotServed, Change, WakeArrives, WakeLost, ComesUp,
           ColdStart, Tick
<1>. QED
  BY <1>1, VisitInvInit, VisitInvStep, PTL DEF Spec, SleepersAreWoken
===============================================================================
