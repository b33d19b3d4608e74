------------------------- MODULE ComputePagesProofs -------------------------
(***************************************************************************)
(* What holds of the dashboard's pages for every set of deployments and    *)
(* every number of commands, changes and logins: the state has its type,   *)
(* the viewer says Live exactly while its socket is open, and no answer    *)
(* from before an acknowledged restart is put on the open page.            *)
(*                                                                         *)
(* The type bounds the restarts by the clicks, so it needs to know that    *)
(* every restart used up a command of its own.  The action property needs  *)
(* what an answer on its way can be: no older than the last                *)
(* acknowledgement, because that one sent the query of the page again.     *)
(***************************************************************************)
EXTENDS ComputePages, FiniteSetTheorems, TLAPS

\* The commands that are still to be carried out.
Pending == {post \in posts : post.at = "sent"}

\* Every restart of a deployment, and every command that may still become one, is
\* a click of its own.
ClicksAccount ==
    /\ IsFiniteSet(posts)
    /\ \A d \in Deployments : restarts[d] + Cardinality(Pending) <= clicks

\* A command knows of no restart that was not carried out, a stop of none at all.
PostsKnow ==
    \A post \in posts : /\ post.restarts <= restarts[post.id]
                        /\ post.kind = "stop" => post.restarts = 0

\* An answer on its way is one, and on the open page it is no older than what was
\* acknowledged there.
AnswersKnow ==
    /\ \A k \in Keys : query[k].fetch = "answered" => query[k].answer # NoData
    /\ \A d \in Deployments :
         page = d => /\ acknowledged <= restarts[d]
                     /\ query[d].fetch = "answered"
                          => query[d].answer[d].restarts >= acknowledged

QueriesInv == QueriesTypeOK /\ ClicksAccount /\ PostsKnow /\ AnswersKnow

PagesInv == PagesInvariant /\ QueriesInv

\* What a step of the tab is for the pages and their queries.
QueriesNext ==
    \/ \E p \in Pages : Open(p)
    \/ \E k \in Keys : Poll(k) \/ Served(k) \/ Arrives(k) \/ FetchFails(k)
    \/ \E kind \in {"restart", "stop"}, d \in Deployments : Click(kind, d)
    \/ \E post \in posts : Execute(post) \/ PostFails(post) \/ Acknowledge(post)
    \/ \E d \in Deployments : Restarted(d) \/ Change(d)

--------------------------------------------------------------------------------
(***************************************************************************)
(* Keys and readings                                                       *)
(***************************************************************************)

LEMMA KeyFacts ==
    /\ List \in Keys /\ List \notin Deployments /\ Elsewhere \notin Deployments
    /\ Deployments \subseteq Keys /\ Keys \subseteq Pages
    /\ \A k \in Keys : Of(k) # {} /\ Of(k) \subseteq Deployments
    /\ \A d \in Deployments : Of(d) = {d} /\ d # List
    /\ MaxCommands \in Nat
  BY QueriesAssumption DEF Keys, List, Elsewhere, Pages, Of

\* What the orchestrator answers is a reading, and tells how often a deployment was
\* restarted when it is asked for that one.
LEMMA ReadFacts ==
    ASSUME QueriesTypeOK, NEW k \in Keys
    PROVE  /\ Read(k) \in [Of(k) -> Reading]
           /\ k \in Deployments => Read(k)[k].restarts = restarts[k]
<1>1. \A d \in Of(k) :
        [status |-> status[d], restarts |-> IF k = List THEN 0 ELSE restarts[d]] \in Reading
  BY KeyFacts DEF QueriesTypeOK, Reading
<1>. QED
  BY <1>1, KeyFacts DEF Read

LEMMA ReadingIsData ==
    ASSUME NEW k \in Keys, NEW r \in [Of(k) -> Reading]
    PROVE  r # NoData
<1>1. DOMAIN NoData = {} /\ DOMAIN r = Of(k)
  BY DEF NoData
<1>. QED
  BY <1>1, KeyFacts

\* A query may be given any value that is one, if the answer it holds is as new as
\* the open page needs.
LEMMA QueryChange ==
    ASSUME QueriesTypeOK, AnswersKnow, NEW k \in Keys, NEW q \in Query(k),
           query' = [query EXCEPT ![k] = q],
           page' = page, acknowledged' = acknowledged, restarts' = restarts,
           q.fetch = "answered" => q.answer # NoData,
           k \in Deployments /\ page = k /\ q.fetch = "answered"
             => q.answer[k].restarts >= acknowledged
    PROVE  /\ DOMAIN query' = Keys /\ \A j \in Keys : query'[j] \in Query(j)
           /\ AnswersKnow'
<1>1. DOMAIN query = Keys /\ \A j \in Keys : query[j] \in Query(j)
  BY DEF QueriesTypeOK
<1>2. DOMAIN query' = Keys /\ \A j \in Keys : query'[j] = IF j = k THEN q ELSE query[j]
  BY <1>1
<1>3. \A j \in Keys : query'[j].fetch = "answered" => query'[j].answer # NoData
  BY <1>2 DEF AnswersKnow
<1>4. ASSUME NEW d \in Deployments, page = d
      PROVE  /\ acknowledged <= restarts[d]
             /\ query'[d].fetch = "answered"
                  => query'[d].answer[d].restarts >= acknowledged
  BY <1>2, <1>4, KeyFacts DEF AnswersKnow
<1>. QED
  BY <1>1, <1>2, <1>3, <1>4 DEF AnswersKnow

\* Sending a query again is such a change.
LEMMA SentFacts ==
    ASSUME NEW k \in Keys, NEW q \in Query(k)
    PROVE  Sent(q) \in Query(k) /\ Sent(q).fetch = "sent"
  BY DEF Sent, Query

--------------------------------------------------------------------------------
(***************************************************************************)
(* The steps of the queries                                                *)
(***************************************************************************)

\* A fetch is sent, served, answered or given up.
LEMMA FetchStep ==
    ASSUME QueriesInv, NEW k \in Keys,
           Poll(k) \/ Served(k) \/ Arrives(k) \/ FetchFails(k)
    PROVE  QueriesInv'
<1>1. /\ UNCHANGED <<status, restarts, changes, page, posts, clicks, acknowledged>>
      /\ query[k] \in Query(k)
  BY DEF Poll, Served, Arrives, FetchFails, QueriesInv, QueriesTypeOK
<1>2. QueriesTypeOK /\ AnswersKnow
  BY DEF QueriesInv
<1>3. ASSUME NEW q \in Query(k), query' = [query EXCEPT ![k] = q],
             q.fetch = "answered" => q.answer # NoData,
             k \in Deployments /\ page = k /\ q.fetch = "answered"
               => q.answer[k].restarts >= acknowledged
      PROVE  QueriesInv'
  <2>1. /\ DOMAIN query' = Keys /\ \A j \in Keys : query'[j] \in Query(j)
        /\ AnswersKnow'
    BY <1>1, <1>2, <1>3, QueryChange
  <2>. QED
    BY <1>1, <2>1 DEF QueriesInv, QueriesTypeOK, ClicksAccount, PostsKnow, Pending
<1>4. CASE Poll(k)
  <2>1. query' = [query EXCEPT ![k] = Sent(query[k])]
    BY <1>4 DEF Poll
  <2>. QED
    BY <1>1, <1>3, <2>1, SentFacts
<1>5. CASE Served(k)
  <2> DEFINE q == [query[k] EXCEPT !.fetch = "answered", !.answer = Read(k)]
  <2>1. query' = [query EXCEPT ![k] = q]
    BY <1>5 DEF Served
  <2>2. /\ Read(k) \in [Of(k) -> Reading] /\ Read(k) # NoData
        /\ k \in Deployments => Read(k)[k].restarts = restarts[k]
    BY <1>2, ReadFacts, ReadingIsData
  <2>3. q \in Query(k) /\ q.answer = Read(k)
    BY <1>1, <2>2 DEF Query
  <2>4. k \in Deployments /\ page = k => /\ acknowledged <= restarts[k]
                                         /\ acknowledged \in Nat /\ restarts[k] \in Nat
    BY <1>2 DEF AnswersKnow, QueriesTypeOK
  <2> HIDE DEF q
  <2>. QED
    BY <1>3, <2>1, <2>2, <2>3, <2>4
<1>6. CASE Arrives(k)
  <2> DEFINE q == [data |-> query[k].answer, fetch |-> "idle", answer |-> NoData]
  <2>1. query' = [query EXCEPT ![k] = q]
    BY <1>6 DEF Arrives
  <2>2. q \in Query(k) /\ q.fetch = "idle"
    BY <1>1 DEF Query
  <2> HIDE DEF q
  <2>. QED
    BY <1>3, <2>1, <2>2
<1>7. CASE FetchFails(k)
  <2> DEFINE q == [query[k] EXCEPT !.fetch = "idle", !.answer = NoData]
  <2>1. query' = [query EXCEPT ![k] = q]
    BY <1>7 DEF FetchFails
  <2>2. q \in Query(k) /\ q.fetch = "idle"
    BY <1>1 DEF Query
  <2> HIDE DEF q
  <2>. QED
    BY <1>3, <2>1, <2>2
<1>. QED
  BY <1>4, <1>5, <1>6, <1>7

\* A page that was just opened is owed no restart.
LEMMA OpenStep ==
    ASSUME QueriesInv, NEW p \in Pages, Open(p)
    PROVE  QueriesInv'
<1>1. /\ UNCHANGED <<status, restarts, changes, posts, clicks>>
      /\ page' = p /\ acknowledged' = 0
      /\ query' = [k \in Keys |-> IF k = p /\ query[k].fetch = "idle"
                                    THEN Sent(query[k]) ELSE query[k]]
  BY DEF Open
<1>2. \A k \in Keys : query[k] \in Query(k) /\ Sent(query[k]) \in Query(k)
                      /\ Sent(query[k]).fetch = "sent"
  BY SentFacts DEF QueriesInv, QueriesTypeOK
<1>3. DOMAIN query' = Keys /\ \A k \in Keys : query'[k] \in Query(k)
  BY <1>1, <1>2
<1>4. \A k \in Keys : query'[k].fetch = "answered"
                        => query'[k] = query[k] /\ query[k].answer # NoData
  BY <1>1, <1>2 DEF QueriesInv, AnswersKnow
<1>5. ASSUME NEW d \in Deployments, query'[d].fetch = "answered"
      PROVE  query'[d].answer[d].restarts >= 0
  <2>1. d \in Keys /\ Of(d) = {d}
    BY KeyFacts
  <2>2. query'[d].answer \in [{d} -> Reading]
    BY <1>2, <1>4, <1>5, <2>1 DEF Query
  <2>. QED
    BY <2>2 DEF Reading
<1>6. AnswersKnow'
  <2>1. \A d \in Deployments : 0 <= restarts[d]
    BY DEF QueriesInv, QueriesTypeOK
  <2>. QED
    BY <1>1, <1>4, <1>5, <2>1 DEF AnswersKnow
<1>. QED
  BY <1>1, <1>3, <1>6, KeyFacts
     DEF QueriesInv, QueriesTypeOK, ClicksAccount, PostsKnow, Pending

\* A click adds a command and is one more click.
LEMMA ClickStep ==
    ASSUME QueriesInv, NEW kind \in {"restart", "stop"}, NEW d \in Deployments,
           Click(kind, d)
    PROVE  QueriesInv'
<1> DEFINE new == [click |-> clicks + 1, kind |-> kind, id |-> d,
                   at |-> "sent", restarts |-> 0]
<1>1. /\ UNCHANGED <<status, restarts, changes, page, query, acknowledged>>
      /\ clicks < MaxCommands /\ clicks' = clicks + 1
      /\ posts' = posts \cup {new}
  BY DEF Click
<1>2. clicks \in 0..MaxCommands /\ clicks' \in 1..MaxCommands /\ MaxCommands \in Nat
  BY <1>1, KeyFacts DEF QueriesInv, QueriesTypeOK
<1>3. new \in Command
  BY <1>1, <1>2 DEF Command
<1>4. QueriesTypeOK'
  BY <1>1, <1>2, <1>3 DEF QueriesInv, QueriesTypeOK
<1>5. ClicksAccount'
  <2>1. Pending' = Pending \cup {new}
    BY <1>1 DEF Pending
  <2>2. IsFiniteSet(posts) /\ IsFiniteSet(Pending)
    BY FS_Subset DEF QueriesInv, ClicksAccount, Pending
  <2>3. Cardinality(Pending) \in Nat
    BY <2>2, FS_CardinalityType
  <2>4. /\ IsFiniteSet(posts')
        /\ Cardinality(Pending') \in {Cardinality(Pending), Cardinality(Pending) + 1}
    BY <1>1, <2>1, <2>2, FS_AddElement
  <2>5. \A e \in Deployments : /\ restarts[e] + Cardinality(Pending) <= clicks
                               /\ restarts[e] \in Nat
    BY DEF QueriesInv, ClicksAccount, QueriesTypeOK
  <2>. QED
    BY <1>1, <1>2, <2>3, <2>4, <2>5 DEF ClicksAccount
<1>6. PostsKnow'
  BY <1>1 DEF QueriesInv, QueriesTypeOK, PostsKnow
<1>7. AnswersKnow'
  BY <1>1 DEF QueriesInv, AnswersKnow
<1>. QED
  BY <1>4, <1>5, <1>6, <1>7 DEF QueriesInv

\* Without a command, there is less to account for.
LEMMA PostGone ==
    ASSUME QueriesInv, NEW post \in posts, posts' = posts \ {post},
           UNCHANGED <<restarts, clicks>>
    PROVE  ClicksAccount' /\ PostsKnow' /\ posts' \subseteq Command
<1>1. IsFiniteSet(posts) /\ IsFiniteSet(posts') /\ Pending' \subseteq Pending
  BY FS_Subset DEF QueriesInv, ClicksAccount, Pending
<1>2. IsFiniteSet(Pending)
  BY <1>1, FS_Subset DEF Pending
<1>3. /\ Cardinality(Pending') <= Cardinality(Pending)
      /\ Cardinality(Pending') \in Nat /\ Cardinality(Pending) \in Nat
  BY <1>1, <1>2, FS_Subset, FS_CardinalityType
<1>4. \A d \in Deployments : /\ restarts[d] + Cardinality(Pending) <= clicks
                             /\ restarts[d] \in Nat /\ clicks \in Nat
  BY DEF QueriesInv, ClicksAccount, QueriesTypeOK
<1>5. ClicksAccount'
  BY <1>1, <1>3, <1>4 DEF ClicksAccount
<1>. QED
  BY <1>5 DEF QueriesInv, PostsKnow, QueriesTypeOK

LEMMA PostFailsStep ==
    ASSUME QueriesInv, NEW post \in posts, PostFails(post)
    PROVE  QueriesInv'
<1>1. /\ UNCHANGED <<status, restarts, changes, page, query, clicks, acknowledged>>
      /\ posts' = posts \ {post}
  BY DEF PostFails
<1>2. ClicksAccount' /\ PostsKnow' /\ posts' \subseteq Command
  BY <1>1, PostGone
<1>. QED
  BY <1>1, <1>2 DEF QueriesInv, QueriesTypeOK, AnswersKnow

\* The acknowledgement of a restart sends the query of its page again, so that an
\* answer read before is never put there.
LEMMA AcknowledgeStep ==
    ASSUME QueriesInv, NEW post \in posts, Acknowledge(post)
    PROVE  QueriesInv'
<1> DEFINE k == InvalidatedBy(post)
<1>1. /\ UNCHANGED <<status, restarts, changes, page, clicks>>
      /\ posts' = posts \ {post}
      /\ query' = IF k = page THEN [query EXCEPT ![k] = Sent(query[k])] ELSE query
      /\ acknowledged' = IF page = post.id /\ post.restarts > acknowledged
                           THEN post.restarts ELSE acknowledged
  BY DEF Acknowledge
<1>2. ClicksAccount' /\ PostsKnow' /\ posts' \subseteq Command
  BY <1>1, PostGone
<1>3. /\ post \in Command /\ post.restarts \in 0..MaxCommands /\ post.id \in Deployments
      /\ post.restarts <= restarts[post.id]
      /\ post.kind = "stop" => post.restarts = 0
      /\ post.kind \in {"restart", "stop"}
      /\ acknowledged \in 0..MaxCommands
      /\ DOMAIN query = Keys /\ \A j \in Keys : query[j] \in Query(j)
  BY DEF QueriesInv, QueriesTypeOK, PostsKnow, Command
<1>4. k \in Keys /\ (post.kind = "restart" => k = post.id)
  BY <1>3, KeyFacts DEF InvalidatedBy
<1> HIDE DEF k
<1>5. /\ DOMAIN query' = Keys
      /\ \A j \in Keys : query'[j] = IF j = k /\ k = page THEN Sent(query[j]) ELSE query[j]
  BY <1>1, <1>3
<1>6. \A j \in Keys : Sent(query[j]) \in Query(j) /\ Sent(query[j]).fetch = "sent"
  BY <1>3, SentFacts
<1>7. acknowledged' # acknowledged
        => /\ page = post.id /\ k = page /\ post.kind = "restart"
           /\ acknowledged' = post.restarts
  BY <1>1, <1>3, <1>4
<1>8. \A j \in Keys : query'[j].fetch = "answered"
                        => query'[j] = query[j] /\ ~(j = k /\ k = page)
  BY <1>5, <1>6
<1>9. AnswersKnow'
  <2>1. \A j \in Keys : query'[j].fetch = "answered" => query'[j].answer # NoData
    BY <1>8 DEF QueriesInv, AnswersKnow
  <2>2. ASSUME NEW d \in Deployments, page = d
        PROVE  /\ acknowledged' <= restarts[d]
               /\ query'[d].fetch = "answered"
                    => query'[d].answer[d].restarts >= acknowledged'
    <3>1. /\ acknowledged <= restarts[d]
          /\ query[d].fetch = "answered"
               => query[d].answer[d].restarts >= acknowledged
      BY <2>2 DEF QueriesInv, AnswersKnow
    <3>2. CASE acknowledged' = acknowledged
      BY <1>8, <3>1, <3>2, KeyFacts
    <3>3. CASE acknowledged' # acknowledged
      BY <1>3, <1>7, <1>8, <2>2, <3>3, KeyFacts
    <3>. QED
      BY <3>2, <3>3
  <2>. QED
    BY <1>1, <2>1, <2>2 DEF AnswersKnow
<1>10. acknowledged' \in 0..MaxCommands
  BY <1>1, <1>3
<1>11. \A j \in Keys : query'[j] \in Query(j)
  BY <1>3, <1>5, <1>6
<1>. QED
  BY <1>1, <1>2, <1>5, <1>9, <1>10, <1>11 DEF QueriesInv, QueriesTypeOK

\* Carrying a command out uses it up, a restart to add one to the restarts.
LEMMA ExecuteStep ==
    ASSUME QueriesInv, NEW post \in posts, Execute(post)
    PROVE  QueriesInv'
<1>1. PICK done \in Command :
        /\ done.at = "done" /\ done.id = post.id /\ done.kind = post.kind
        /\ posts' = (posts \ {post}) \cup {done}
        /\ \/ /\ post.kind = "restart"
              /\ done.restarts = restarts[post.id] + 1
              /\ restarts' = [restarts EXCEPT ![post.id] = restarts[post.id] + 1]
           \/ /\ post.kind = "stop" /\ done.restarts = post.restarts
              /\ restarts' = restarts
        /\ post.at = "sent"
        /\ restarts[post.id] + 1 \in 0..MaxCommands
  <2>1. post \in Command /\ post.at = "sent" /\ post \in Pending
    BY DEF QueriesInv, QueriesTypeOK, Execute, Pending
  <2>2. restarts[post.id] \in Nat /\ clicks \in 0..MaxCommands /\ post.id \in Deployments
    BY <2>1 DEF QueriesInv, QueriesTypeOK, Command
  <2>3. Cardinality(Pending) >= 1
    <3>1. IsFiniteSet(Pending)
      BY FS_Subset DEF QueriesInv, ClicksAccount, Pending
    <3>. QED
      BY <2>1, <3>1, FS_EmptySet, FS_CardinalityType
  <2>4. Cardinality(Pending) \in Nat
    BY FS_Subset, FS_CardinalityType DEF QueriesInv, ClicksAccount, Pending
  <2>5. restarts[post.id] + 1 \in 0..MaxCommands
    BY <2>2, <2>3, <2>4, KeyFacts DEF QueriesInv, ClicksAccount
  <2>6. CASE post.kind = "restart"
    <3> DEFINE done == [post EXCEPT !.at = "done", !.restarts = restarts[post.id] + 1]
    <3>1. /\ done \in Command /\ done.at = "done" /\ done.id = post.id
          /\ done.kind = post.kind /\ done.restarts = restarts[post.id] + 1
      BY <2>1, <2>5 DEF Command
    <3>2. /\ posts' = (posts \ {post}) \cup {done}
          /\ restarts' = [restarts EXCEPT ![post.id] = restarts[post.id] + 1]
      BY <2>6 DEF Execute
    <3> HIDE DEF done
    <3>. QED
      BY <2>1, <2>5, <2>6, <3>1, <3>2
  <2>7. CASE post.kind = "stop"
    <3> DEFINE done == [post EXCEPT !.at = "done"]
    <3>1. /\ done \in Command /\ done.at = "done" /\ done.id = post.id
          /\ done.kind = post.kind /\ done.restarts = post.restarts
      BY <2>1 DEF Command
    <3>2. posts' = (posts \ {post}) \cup {done} /\ restarts' = restarts
      BY <2>7 DEF Execute
    <3> HIDE DEF done
    <3>. QED
      BY <2>1, <2>5, <2>7, <3>1, <3>2
  <2>. QED
    BY <2>1, <2>6, <2>7 DEF Command
<1>2. /\ UNCHANGED <<changes, page, query, clicks, acknowledged>>
      /\ status' \in [Deployments -> Statuses]
  <2>1. post.id \in Deployments /\ {"restarting", "stopped"} \subseteq Statuses
    BY QueriesAssumption DEF QueriesInv, QueriesTypeOK, Command
  <2>. QED
    BY <2>1 DEF Execute, QueriesInv, QueriesTypeOK
<1>3. post \in Command /\ post.id \in Deployments
  BY DEF QueriesInv, QueriesTypeOK, Command
<1>4. restarts \in [Deployments -> 0..MaxCommands]
  BY DEF QueriesInv, QueriesTypeOK
<1>5. restarts' \in [Deployments -> 0..MaxCommands]
  BY <1>1, <1>3, <1>4
<1>6. \A d \in Deployments : /\ restarts[d] <= restarts'[d]
                             /\ restarts'[d] <= restarts[d] + 1
                             /\ restarts[d] \in Nat /\ restarts'[d] \in Nat
  BY <1>1, <1>3, <1>4, <1>5
<1>7. QueriesTypeOK'
  BY <1>1, <1>2, <1>5 DEF QueriesInv, QueriesTypeOK
<1>8. ClicksAccount'
  <2>1. Pending' = Pending \ {post} /\ post \in Pending
    BY <1>1 DEF Pending
  <2>2. IsFiniteSet(posts) /\ IsFiniteSet(Pending)
    BY FS_Subset DEF QueriesInv, ClicksAccount, Pending
  <2>3. Cardinality(Pending) \in Nat /\ Cardinality(Pending') = Cardinality(Pending) - 1
    BY <2>1, <2>2, FS_CardinalityType, FS_RemoveElement
  <2>4. IsFiniteSet(posts')
    BY <1>1, <2>2, FS_RemoveElement, FS_AddElement
  <2>5. \A d \in Deployments : restarts[d] + Cardinality(Pending) <= clicks
    BY DEF QueriesInv, ClicksAccount
  <2>6. clicks \in Nat /\ clicks' = clicks
    BY <1>2 DEF QueriesInv, QueriesTypeOK
  <2>. QED
    BY <1>6, <2>3, <2>4, <2>5, <2>6 DEF ClicksAccount
<1>9. PostsKnow'
  <2>1. ASSUME NEW p \in posts
        PROVE  p.restarts <= restarts'[p.id] /\ (p.kind = "stop" => p.restarts = 0)
    <3>1. p.id \in Deployments /\ p.restarts \in Nat
      BY DEF QueriesInv, QueriesTypeOK, Command
    <3>. QED
      BY <1>6, <3>1 DEF QueriesInv, PostsKnow
  <2>2. done.restarts <= restarts'[done.id] /\ (done.kind = "stop" => done.restarts = 0)
    BY <1>1, <1>3, <1>4, <2>1
  <2>. QED
    BY <1>1, <2>1, <2>2 DEF PostsKnow
<1>10. AnswersKnow'
  <2>1. acknowledged \in Nat
    BY DEF QueriesInv, QueriesTypeOK
  <2>. QED
    BY <1>2, <1>6, <2>1 DEF QueriesInv, AnswersKnow
<1>. QED
  BY <1>7, <1>8, <1>9, <1>10 DEF QueriesInv

LEMMA OrchestratorStep ==
    ASSUME QueriesInv, NEW d \in Deployments, Restarted(d) \/ Change(d)
    PROVE  QueriesInv'
<1>1. UNCHANGED <<restarts, page, query, posts, clicks, acknowledged>>
  BY DEF Restarted, Change
<1>2. status' \in [Deployments -> Statuses] /\ changes' \in 0..MaxChanges
  BY QueriesAssumption DEF Restarted, Change, QueriesInv, QueriesTypeOK
<1>. QED
  BY <1>1, <1>2 DEF QueriesInv, QueriesTypeOK, ClicksAccount, PostsKnow, AnswersKnow, Pending

LEMMA QueriesInvInit == QueriesInit => QueriesInv
<1> SUFFICES ASSUME QueriesInit PROVE QueriesInv
  OBVIOUS
<1>1. \A k \in Keys : query[k] \in Query(k) /\ query[k].fetch = "idle"
  BY DEF QueriesInit, Query
<1>2. QueriesTypeOK
  BY <1>1, QueriesAssumption DEF QueriesInit, QueriesTypeOK, Pages
<1>3. ClicksAccount
  <2>1. Pending = {} /\ posts = {}
    BY DEF QueriesInit, Pending
  <2>2. IsFiniteSet(posts) /\ Cardinality(Pending) = 0
    BY <2>1, FS_EmptySet
  <2>. QED
    BY <2>2 DEF ClicksAccount, QueriesInit
<1>4. PostsKnow /\ AnswersKnow
  BY <1>1, KeyFacts DEF PostsKnow, AnswersKnow, QueriesInit
<1>. QED
  BY <1>2, <1>3, <1>4 DEF QueriesInv

LEMMA QueriesInvStep ==
    ASSUME QueriesInv, QueriesNext
    PROVE  QueriesInv'
  BY OpenStep, FetchStep, ClickStep, ExecuteStep, PostFailsStep, AcknowledgeStep,
     OrchestratorStep DEF QueriesNext

--------------------------------------------------------------------------------
(***************************************************************************)
(* The steps of the tab                                                    *)
(***************************************************************************)

\* To the pages and their queries, a step of the tab is one of theirs or none.
LEMMA NextIsQueries ==
    ASSUME [Next]_vars
    PROVE  QueriesNext \/ UNCHANGED query_vars
<1>1. CASE Navigate
  BY <1>1 DEF Navigate, QueriesNext
<1>2. ASSUME NEW k \in Keys,
             \/ Background(Poll(k)) \/ Background(Served(k))
             \/ Background(FetchFails(k)) \/ FetchArrives(k)
      PROVE  QueriesNext
  BY <1>2 DEF Background, FetchArrives, QueriesNext
<1>3. ASSUME NEW kind \in {"restart", "stop"}, NEW d \in Deployments, CommandGiven(kind, d)
      PROVE  QueriesNext
  BY <1>3 DEF CommandGiven, QueriesNext
<1>4. ASSUME NEW post \in posts, Background(Execute(post)) \/ CommandEnds(post)
      PROVE  QueriesNext
  BY <1>4 DEF Background, CommandEnds, QueriesNext
<1>5. ASSUME NEW d \in Deployments, Background(Restarted(d)) \/ Background(Change(d))
      PROVE  QueriesNext
  BY <1>5 DEF Background, QueriesNext
<1>. QED
  BY <1>1, <1>2, <1>3, <1>4, <1>5 DEF Next, vars

\* Rendering the page keeps the viewer true to its socket: a new token replaces the
\* socket and takes the old one's Live away.
LEMMA RenderKeepsLive ==
    ASSUME SessionTypeOK, NEW h \in LogState, h.connected <=> h.socket.state = "open"
    PROVE  /\ AfterRender(h) \in LogState
           /\ AfterRender(h).connected <=> AfterRender(h).socket.state = "open"
<1>1. cookie \in 0..MaxLogins /\ 0 \in 0..MaxLogins
  BY SessionAssumption DEF SessionTypeOK, cookie
<1>2. Mounted(cookie) \in LogState /\ ~Mounted(cookie).connected
      /\ Mounted(cookie).socket.state # "open"
  BY <1>1 DEF Mounted, Connecting, NoSocket, LogState
<1>. QED
  BY <1>2 DEF AfterRender

LogsInv == LogsTypeOK /\ SessionTypeOK /\ LiveMeansConnected

LEMMA LogsInvStep ==
    ASSUME LogsInv, [Next]_vars
    PROVE  LogsInv'
<1> DEFINE Good(h) == h \in LogState /\ (h.connected <=> h.socket.state = "open")
<1>1. SessionTypeOK /\ Good(logs)
  BY DEF LogsInv, LogsTypeOK, LiveMeansConnected, Indicator
<1>2. \A h : Good(h) => Good(AfterRender(h))
  BY <1>1, RenderKeepsLive
<1>3. Good(Unmounted) /\ Good(Mounted(cookie))
  BY <1>1, SessionAssumption
     DEF SessionTypeOK, cookie, Unmounted, NoSocket, Mounted, Connecting, LogState
<1>4. ASSUME SocketStep
      PROVE  Good(logs')
  <2>1. ASSUME NEW state \in {"connecting", "refused"}
        PROVE  Good([logs EXCEPT !.socket.state = state, !.connected = FALSE])
    BY <1>1 DEF LogState
  <2>2. Good([logs EXCEPT !.socket.state = "open", !.connected = TRUE])
    BY <1>1 DEF LogState
  <2>3. logs.socket.state = "connecting" => Good([logs EXCEPT !.socket.state = "refused"])
    BY <1>1 DEF LogState
  <2> HIDE DEF Good
  <2>4. SocketOpens => Good(logs')
    BY <1>2, <2>2 DEF SocketOpens
  <2>5. SocketDrops => Good(logs')
    BY <1>2, <2>1 DEF SocketDrops
  <2>6. SocketRefused => Good(logs')
    BY <1>2, <2>1, <2>3 DEF SocketRefused
  <2>7. LogArrives => Good(logs')
    BY <1>1, <1>2 DEF LogArrives
  <2>. QED
    BY <1>4, <2>4, <2>5, <2>6, <2>7 DEF SocketStep
<1>5. SessionTypeOK'
  <2>1. CASE SessionStep
    BY <1>1, <2>1, SessionAssumption DEF SessionStep, Expire, Logout, Login, SessionTypeOK
  <2>2. CASE UNCHANGED session_vars
    BY <1>1, <2>2 DEF session_vars, SessionTypeOK
  <2>3. SessionStep \/ UNCHANGED session_vars
    BY DEF Next, vars, Navigate, Background, FetchArrives, CommandGiven, CommandEnds
  <2>. QED
    BY <2>1, <2>2, <2>3
<1> HIDE DEF Good
<1>6. Good(logs')
  <2>1. CASE Navigate
    BY <1>3, <2>1 DEF Navigate
  <2>2. ASSUME NEW k \in Keys, FetchArrives(k)
        PROVE  Good(logs')
    BY <1>1, <1>2, <2>2 DEF FetchArrives
  <2>3. ASSUME NEW kind, NEW d, CommandGiven(kind, d)
        PROVE  Good(logs')
    BY <1>1, <1>2, <2>3 DEF CommandGiven
  <2>4. ASSUME NEW post \in posts, CommandEnds(post)
        PROVE  Good(logs')
    BY <1>1, <1>2, <2>4 DEF CommandEnds
  <2>5. CASE UNCHANGED logs
    BY <1>1, <2>5
  <2>. QED
    BY <1>4, <2>1, <2>2, <2>3, <2>4, <2>5 DEF Next, Background, vars
<1>. QED
  BY <1>5, <1>6 DEF Good, LogsInv, LogsTypeOK, LiveMeansConnected, Indicator

LEMMA PagesInvInit == Init => PagesInv
<1> SUFFICES ASSUME Init PROVE PagesInv
  OBVIOUS
<1>1. QueriesInv
  BY QueriesInvInit DEF Init
<1>2. LogsTypeOK /\ LiveMeansConnected
  BY SessionAssumption
     DEF Init, LogsInit, Unmounted, NoSocket, LogsTypeOK, LogState, LiveMeansConnected,
         Indicator
<1>3. SessionTypeOK
  BY SessionAssumption DEF Init, SessionInit, SessionTypeOK
<1>. QED
  BY <1>1, <1>2, <1>3 DEF PagesInv, PagesInvariant, TypeOK, QueriesInv

LEMMA PagesInvStep == PagesInv /\ [Next]_vars => PagesInv'
<1> SUFFICES ASSUME PagesInv, [Next]_vars PROVE PagesInv'
  OBVIOUS
<1>1. QueriesInv'
  <2>1. CASE QueriesNext
    BY <2>1, QueriesInvStep DEF PagesInv
  <2>2. CASE UNCHANGED query_vars
    BY <2>2 DEF PagesInv, QueriesInv, query_vars, QueriesTypeOK, ClicksAccount, PostsKnow,
                AnswersKnow, Pending
  <2>. QED
    BY <2>1, <2>2, NextIsQueries
<1>2. LogsInv'
  BY LogsInvStep DEF PagesInv, PagesInvariant, TypeOK, LogsInv
<1>. QED
  BY <1>1, <1>2 DEF PagesInv, PagesInvariant, TypeOK, QueriesInv, LogsInv

--------------------------------------------------------------------------------
\* Whatever is polled, clicked, lost or logged into: the state of the tab has its
\* type, and the log viewer (log-viewer.tsx) says Live exactly while the socket of the
\* open page is open.
THEOREM PagesInvariantHolds == Spec => []PagesInvariant
<1>1. PagesInv => PagesInvariant
  BY DEF PagesInv
<1>. QED
  BY <1>1, PagesInvInit, PagesInvStep, PTL DEF Spec

\* Once useRestartDeployment was answered on the open page, no answer that was read
\* before that restart is put there, however polls, clicks and answers interleave.
THEOREM RestartsAreSeen == Spec => RestartIsSeen
<1> DEFINE SeenStep ==
      \A d \in Deployments :
        page = d /\ page' = d /\ query'[d].data # query[d].data
          => query'[d].data[d].restarts >= acknowledged
<1>1. PagesInv /\ [Next]_vars => [SeenStep]_query_vars
  <2> SUFFICES ASSUME PagesInv, QueriesNext,
                      NEW d \in Deployments, page = d, page' = d,
                      query'[d].data # query[d].data
               PROVE  query'[d].data[d].restarts >= acknowledged
    BY NextIsQueries
  <2>1. /\ DOMAIN query = Keys /\ d \in Keys
        /\ \A k \in Keys : query[k] \in Query(k)
        /\ query[d].fetch = "answered" => query[d].answer[d].restarts >= acknowledged
    BY KeyFacts DEF PagesInv, QueriesInv, QueriesTypeOK, AnswersKnow
  <2>2. ASSUME NEW k \in Keys, Arrives(k)
        PROVE  query'[d].data[d].restarts >= acknowledged
    BY <2>1, <2>2 DEF Arrives
  <2>3. \A k \in Keys : Sent(query[k]).data = query[k].data
    BY <2>1 DEF Sent, Query
  <2>4. ASSUME NEW k \in Keys, Poll(k) \/ Served(k) \/ FetchFails(k)
        PROVE  query'[d].data = query[d].data
    BY <2>1, <2>3, <2>4 DEF Poll, Served, FetchFails, Query
  <2>5. ASSUME NEW post \in posts, Acknowledge(post)
        PROVE  query'[d].data = query[d].data
    BY <2>1, <2>3, <2>5 DEF Acknowledge
  <2>6. ASSUME NEW p \in Pages, Open(p)
        PROVE  FALSE
    BY <2>6 DEF Open
  <2>7. ASSUME query' = query
        PROVE  FALSE
    BY <2>7
  <2>. QED
    BY <2>2, <2>4, <2>5, <2>6, <2>7
       DEF QueriesNext, Click, Execute, PostFails, Restarted, Change
<1>. QED
  BY <1>1, PagesInvInit, PagesInvStep, PTL DEF Spec, RestartIsSeen

--------------------------------------------------------------------------------
(***************************************************************************)
(* What PagesCatchUp rests on besides fairness: an answer that is current  *)
(* makes the page show what the orchestrator has, and while the deployments *)
(* rest one answer from before can undo that, and no second one.           *)
(***************************************************************************)

\* The answer on its way to the open page, if there is one, says what the
\* orchestrator has.
AnswerIsCurrent ==
    page # Elsewhere /\ query[page].fetch = "answered"
      => \A d \in Of(page) : query[page].answer[d].status = status[d]

Settled == ShowsStatus /\ AnswerIsCurrent

\* The same page shows the same deployments.
Rest == page' = page /\ status' = status

\* What is shown is undone, while the deployments rest, by an answer from before
\* their present statuses only, and then there is none such left: the answers on
\* their way to the open page are current from then on (CurrentAnswersShow).
UndoneOnce ==
    [][ShowsStatus /\ Rest => (ShowsStatus' \/ (~AnswerIsCurrent /\ AnswerIsCurrent'))]_query_vars

\* An answer that was served while the deployments rested makes the page true, and
\* nothing makes such an answer old but a new status.
CurrentAnswersShow ==
    [][/\ AnswerIsCurrent /\ Rest => AnswerIsCurrent'
       /\ \A k \in Keys : AnswerIsCurrent /\ k = page /\ Arrives(k) => Settled']_query_vars

\* After a step whose open page holds data with the statuses the orchestrator has,
\* the page shows them.
LEMMA ShownData ==
    ASSUME QueriesTypeOK', page' \in Keys, query'[page'].data # NoData,
           \A d \in Of(page') : query'[page'].data[d].status = status'[d]
    PROVE  ShowsStatus'
<1>1. page' # Elsewhere
  BY QueriesAssumption DEF Keys, Elsewhere, List
<1>2. ASSUME page' = List
      PROVE  ShowsStatus'
  <2>1. \A d \in Deployments : query'[List].data[d].status = status'[d]
    BY <1>2 DEF Of
  <2>2. {d \in Deployments : query'[List].data[d].status = "live"}
          = {d \in Deployments : status'[d] = "live"}
    BY <2>1
  <2>3. List \notin Deployments
    BY KeyFacts
  <2>. QED
    BY <1>2, <2>1, <2>2, <2>3 DEF ShowsStatus, CardShows, LiveCount
<1>3. ASSUME page' \in Deployments
      PROVE  ShowsStatus'
  BY <1>1, <1>3, KeyFacts DEF ShowsStatus, PageShows
<1>. QED
  BY <1>2, <1>3 DEF Keys

\* And a page that shows the statuses has data that says them.
LEMMA DataShown ==
    ASSUME ShowsStatus, page \in Keys
    PROVE  query[page].data # NoData /\ \A d \in Of(page) : query[page].data[d].status = status[d]
<1>1. page # Elsewhere
  BY QueriesAssumption DEF Keys, Elsewhere, List
<1>2. CASE page = List
  BY <1>1, <1>2 DEF ShowsStatus, CardShows, Of
<1>3. CASE page \in Deployments
  BY <1>1, <1>3, KeyFacts DEF ShowsStatus, PageShows
<1>. QED
  BY <1>2, <1>3 DEF Keys

\* What a step does to the query of the open page while the deployments rest: it is
\* sent again, served, given up, left alone, or takes its answer.
LEMMA OpenQueryStep ==
    ASSUME QueriesInv, QueriesNext, Rest, page \in Keys
    PROVE  \/ /\ query'[page].data = query[page].data
              /\ \/ query'[page] = query[page]
                 \/ query'[page].fetch # "answered"
                 \/ query'[page].answer = Read(page)
           \/ /\ Arrives(page)
              /\ query'[page].data = query[page].answer
              /\ query'[page].fetch = "idle" /\ query[page].fetch = "answered"
<1> DEFINE Kept == /\ query'[page].data = query[page].data
                   /\ \/ query'[page] = query[page]
                      \/ query'[page].fetch # "answered"
                      \/ query'[page].answer = Read(page)
           Taken == /\ Arrives(page)
                    /\ query'[page].data = query[page].answer
                    /\ query'[page].fetch = "idle" /\ query[page].fetch = "answered"
<1>1. DOMAIN query = Keys /\ \A k \in Keys : query[k] \in Query(k)
  BY DEF QueriesInv, QueriesTypeOK
<1>2. \A k \in Keys : /\ Sent(query[k]).data = query[k].data
                      /\ Sent(query[k]).fetch = "sent"
  BY <1>1 DEF Sent, Query
<1>3. ASSUME query' = query
      PROVE  Kept
  BY <1>3
<1>4. ASSUME NEW p \in Pages, Open(p)
      PROVE  FALSE
  BY <1>4 DEF Open, Rest
<1>5. ASSUME NEW k \in Keys, Poll(k) \/ Served(k) \/ FetchFails(k)
      PROVE  Kept
  <2>1. CASE Poll(k)
    BY <1>1, <1>2, <2>1 DEF Poll
  <2>2. CASE Served(k)
    BY <1>1, <2>2 DEF Served, Query
  <2>3. CASE FetchFails(k)
    BY <1>1, <2>3 DEF FetchFails, Query
  <2>. QED
    BY <1>5, <2>1, <2>2, <2>3
<1>6. ASSUME NEW k \in Keys, Arrives(k)
      PROVE  Kept \/ Taken
  BY <1>1, <1>6 DEF Arrives
<1>7. ASSUME NEW post \in posts, Acknowledge(post)
      PROVE  Kept
  BY <1>1, <1>2, <1>7 DEF Acknowledge
<1> HIDE DEF Kept, Taken
<1>8. Kept \/ Taken
  BY <1>3, <1>4, <1>5, <1>6, <1>7
     DEF QueriesNext, Click, Execute, PostFails, Restarted, Change
<1>. QED
  BY <1>8 DEF Kept, Taken

LEMMA CurrentStays ==
    ASSUME QueriesInv, QueriesNext, Rest, AnswerIsCurrent
    PROVE  AnswerIsCurrent'
<1> SUFFICES ASSUME page # Elsewhere, query'[page].fetch = "answered", NEW d \in Of(page)
             PROVE  query'[page].answer[d].status = status[d]
  BY DEF AnswerIsCurrent, Rest
<1>1. page \in Keys /\ d \in Of(page)
  BY DEF QueriesInv, QueriesTypeOK, Pages, Keys
<1>2. CASE query'[page] = query[page]
  BY <1>2 DEF AnswerIsCurrent
<1>3. CASE query'[page].answer = Read(page)
  BY <1>1, <1>3 DEF Read
<1>. QED
  BY <1>1, <1>2, <1>3, OpenQueryStep

\* The answer that is taken is data, and it is what the page shows next.
LEMMA CurrentShows ==
    ASSUME QueriesInv, QueriesInv', page \in Keys, page' = page, status' = status,
           query[page].fetch = "answered", query'[page].data = query[page].answer,
           query'[page].fetch = "idle", AnswerIsCurrent
    PROVE  Settled'
<1>1. page # Elsewhere
  BY QueriesAssumption DEF Keys, Elsewhere, List
<1>2. query'[page].data # NoData
  BY DEF QueriesInv, AnswersKnow
<1>3. \A d \in Of(page) : query'[page].data[d].status = status[d]
  BY <1>1 DEF AnswerIsCurrent
<1>4. ShowsStatus'
  BY <1>2, <1>3, ShownData DEF QueriesInv
<1>5. AnswerIsCurrent'
  BY DEF AnswerIsCurrent
<1>. QED
  BY <1>4, <1>5 DEF Settled

\* A page that shows what the orchestrator has goes on to while the statuses and the
\* page stay: no poll, failed fetch or answer to a command undoes it, but an answer
\* that was read before the present statuses, and that one is the last of its kind.
THEOREM OnlyStaleAnswersUndo == Spec => UndoneOnce
<1> DEFINE Step == ShowsStatus /\ Rest => (ShowsStatus' \/ (~AnswerIsCurrent /\ AnswerIsCurrent'))
<1>1. PagesInv /\ [Next]_vars => [Step]_query_vars
  <2> SUFFICES ASSUME PagesInv, [Next]_vars, QueriesNext, ShowsStatus, Rest
               PROVE  ShowsStatus' \/ (~AnswerIsCurrent /\ AnswerIsCurrent')
    BY NextIsQueries
  <2>1. QueriesInv /\ QueriesInv'
    BY QueriesInvStep DEF PagesInv
  <2>2. CASE page = Elsewhere
    BY <2>2, QueriesAssumption DEF ShowsStatus, Rest, Elsewhere, List
  <2>3. CASE page \in Keys
    <3>1. query[page].data # NoData /\ \A d \in Of(page) : query[page].data[d].status = status[d]
      BY <2>3, DataShown
    <3>2. CASE query'[page].data = query[page].data
      BY <2>1, <2>3, <3>1, <3>2, ShownData DEF QueriesInv, Rest
    <3>3. CASE /\ query'[page].data = query[page].answer
               /\ query'[page].fetch = "idle" /\ query[page].fetch = "answered"
      <4>1. AnswerIsCurrent => Settled'
        BY <2>1, <2>3, <3>3, CurrentShows DEF Rest
      <4>2. AnswerIsCurrent'
        BY <3>3 DEF AnswerIsCurrent, Rest
      <4>. QED
        BY <4>1, <4>2 DEF Settled
    <3>. QED
      BY <2>1, <2>3, <3>2, <3>3, OpenQueryStep
  <2>. QED
    BY <2>1, <2>2, <2>3 DEF QueriesInv, QueriesTypeOK, Pages, Keys
<1>. QED
  BY <1>1, PagesInvInit, PagesInvStep, PTL DEF Spec, UndoneOnce

\* An answer that was served under the present statuses stays current while they
\* last, and its arrival makes the open page show them.
THEOREM CurrentAnswersAreShown == Spec => CurrentAnswersShow
<1> DEFINE Step == /\ AnswerIsCurrent /\ Rest => AnswerIsCurrent'
                   /\ \A k \in Keys : AnswerIsCurrent /\ k = page /\ Arrives(k) => Settled'
<1>1. PagesInv /\ [Next]_vars => [Step]_query_vars
  <2> SUFFICES ASSUME PagesInv, [Next]_vars, QueriesNext
               PROVE  Step
    BY NextIsQueries
  <2>1. QueriesInv /\ QueriesInv'
    BY QueriesInvStep DEF PagesInv
  <2>2. AnswerIsCurrent /\ Rest => AnswerIsCurrent'
    BY <2>1, CurrentStays
  <2>3. ASSUME NEW k \in Keys, AnswerIsCurrent, k = page, Arrives(k)
        PROVE  Settled'
    <3>1. DOMAIN query = Keys /\ page' = page /\ status' = status
      BY <2>1, <2>3 DEF QueriesInv, QueriesTypeOK, Arrives
    <3>2. /\ query[page].fetch = "answered" /\ query'[page].data = query[page].answer
          /\ query'[page].fetch = "idle"
      BY <2>3, <3>1 DEF Arrives
    <3>. QED
      BY <2>1, <2>3, <3>1, <3>2, CurrentShows
  <2>. QED
    BY <2>2, <2>3
<1>. QED
  BY <1>1, PagesInvInit, PagesInvStep, PTL DEF Spec, CurrentAnswersShow
=============================================================================
