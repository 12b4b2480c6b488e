---------------------------- MODULE LobbyProofs ----------------------------
(* Proofs about Lobby, for both publishers, any set of counts and any      *)
(* bound on the requests left behind.                                      *)
EXTENDS Lobby, FiniteSetTheorems, TLAPS

(* NoBody is no body, and only "worker" and "main" are threads.            *)
LEMMA Basics ==
  /\ NoBody \notin Body /\ MaxLate \in Nat /\ 0 \in Count
  /\ \A t : t \in Thread <=> t = "worker" \/ t = "main"
BY LobbyAssumption DEF Body, Thread

(* What a step of the publisher may be.                                    *)
LEMMA Steps ==
  ASSUME [Next]_vars
  PROVE  \/ \E n \in Count : Update(n)
         \/ Keepalive \/ Take \/ Pause \/ DebounceOver
         \/ \E t \in Thread : Reach(t) \/ Answer(t) \/ GiveUp(t)
         \/ \E body \in Body : ReachLate(body)
         \/ Shutdown \/ SetStop \/ PostOffline
         \/ UNCHANGED vars
BY DEF Next, Worker, Stopper, Posting, Thread

(***************************************************************************)
(* Type correctness.                                                       *)
(***************************************************************************)

Post == [body : Body \cup {NoBody}, seen : BOOLEAN]

(* TypeOK, and a count of what is left behind that means something.        *)
Typed == TypeOK /\ IsFiniteSet(late)

(* What is begun or left behind is a body, and so is what is posted last.  *)
LEMMA TypedPosts ==
  ASSUME Typed
  PROVE  /\ \A b \in Body : Begun(b) \in Post /\ Begun(b).body = b /\ ~Begun(b).seen
         /\ NoPost \in Post /\ NoPost.body = NoBody /\ ~NoPost.seen
         /\ post \in [Thread -> Post]
         /\ \A b \in late : /\ IsFiniteSet(late \ {b})
                            /\ Cardinality(late \ {b}) <= MaxLate
         /\ \A b \in Body : IsFiniteSet(late \cup {b})
<1>1. \A b \in late : /\ IsFiniteSet(late \ {b})
                     /\ Cardinality(late \ {b}) = Cardinality(late) - 1
  BY FS_RemoveElement DEF Typed
<1>2. Cardinality(late) \in Nat /\ Cardinality(late) <= MaxLate
  BY FS_CardinalityType DEF Typed, TypeOK
<1>3. \A b \in Body : IsFiniteSet(late \cup {b})
  BY FS_AddElement DEF Typed
<1>4. post \in [Thread -> Post]
  BY DEF Typed, TypeOK, Post
<1>5. NoPost \in Post /\ NoPost.body = NoBody /\ ~NoPost.seen
  BY DEF NoPost, Post
<1>6. \A b \in Body : Begun(b) \in Post /\ Begun(b).body = b /\ ~Begun(b).seen
  BY DEF Begun, Post
<1> QED
  BY <1>1, <1>2, <1>3, <1>4, <1>5, <1>6, Basics

(* A POST that arrives keeps its body.                                     *)
LEMMA Arrived ==
  \A p \in Post : /\ [p EXCEPT !.seen = TRUE] \in Post
                  /\ [p EXCEPT !.seen = TRUE].body = p.body
BY DEF Post

(* The parts of Typed that a step of the two threads can disturb.          *)
LEMMA TypedByParts ==
  ASSUME post' \in [Thread -> Post],
         \A t \in Thread :
           post'[t].body # NoBody <=> "posting" = IF t = "worker" THEN worker' ELSE main',
         impl' \in Impls, payload' \in Body, listed' \in Body \cup {NoBody},
         main' \in {"serving", "stopping", "joining", "posting", "done"},
         worker' \in {"waiting", "posting", "pausing", "debouncing", "gone"},
         {dirty', stopping', stopEvt', signalled', lastOk', rested', stray'} \subseteq BOOLEAN,
         late' \subseteq Body, IsFiniteSet(late'), Cardinality(late') <= MaxLate
  PROVE  Typed'
BY DEF Typed, TypeOK, Post

(* Every step keeps it.                                                    *)
LEMMA TypedStep ==
  ASSUME Typed, [Next]_vars
  PROVE  Typed'
<1> USE Basics, TypedPosts DEF Typed, TypeOK
<1>1. ASSUME NEW n \in Count, Update(n) PROVE Typed'
  <2>1. payload' \in Body
    BY <1>1 DEF Update, Body
  <2> QED
    BY <1>1, <2>1 DEF Update, Notify, history
<1>2. CASE Keepalive
  BY <1>2 DEF Keepalive, history
<1>3. CASE Take
  <2>1. CASE stopping
    BY <1>3, <2>1 DEF Take
  <2>2. CASE ~stopping
    <3>1. post' = [post EXCEPT !["worker"] = Begun(payload)] /\ worker' = "posting"
      BY <1>3, <2>2 DEF Take
    <3>2. post' \in [Thread -> Post]
      BY <3>1 DEF Thread
    <3>3. post'["worker"].body # NoBody /\ post'["main"] = post["main"]
      BY <3>1 DEF Thread
    <3> QED
      BY <1>3, <2>2, <3>1, <3>2, <3>3, TypedByParts DEF Take
  <2> QED
    BY <2>1, <2>2
<1>4. CASE Pause
  BY <1>4 DEF Pause, history, flags
<1>5. CASE DebounceOver
  BY <1>5 DEF DebounceOver, flags
<1>6. ASSUME NEW t \in Thread, Reach(t) PROVE Typed'
  <2>1. post[t] \in Post /\ [post[t] EXCEPT !.seen = TRUE] \in Post
    BY TypedPosts, Arrived
  <2>2. post' = [post EXCEPT ![t] = [post[t] EXCEPT !.seen = TRUE]]
    BY <1>6 DEF Reach
  <2>3. post' \in [Thread -> Post] /\ \A s \in Thread : post'[s].body = post[s].body
    BY <2>1, <2>2, Arrived
  <2>4. listed' \in Body
    BY <1>6, <2>1 DEF Reach, Post
  <2> QED
    BY <1>6, <2>3, <2>4, TypedByParts DEF Reach, flags, history
<1>7. ASSUME NEW t \in Thread, NEW ok \in BOOLEAN, Return(t, ok)
      PROVE  /\ post' \in [Thread -> Post] /\ lastOk' \in BOOLEAN
             /\ main' \in {"serving", "stopping", "joining", "posting", "done"}
             /\ worker' \in {"waiting", "posting", "pausing", "debouncing", "gone"}
             /\ \A s \in Thread :
                  post'[s].body # NoBody <=> "posting" = IF s = "worker" THEN worker' ELSE main'
  <2>1. post' = [post EXCEPT ![t] = NoPost] /\ lastOk' = ok
    BY <1>7 DEF Return
  <2>2. /\ post' \in [Thread -> Post] /\ post'[t] = NoPost
        /\ \A s \in Thread \ {t} : post'[s] = post[s]
    BY <2>1
  <2>3. CASE t = "worker"
    <3>1. worker' = "pausing" /\ main' = main
      BY <1>7, <2>3 DEF Return
    <3> QED
      BY <2>1, <2>2, <2>3, <3>1
  <2>4. CASE t = "main"
    <3>1. main' = "done" /\ worker' = worker
      BY <1>7, <2>4 DEF Return
    <3> QED
      BY <2>1, <2>2, <2>4, <3>1
  <2> QED
    BY <2>3, <2>4
<1>8. ASSUME NEW t \in Thread, Answer(t) PROVE Typed'
  BY <1>7, <1>8, TypedByParts DEF Answer, flags
<1>9. ASSUME NEW t \in Thread, GiveUp(t) PROVE Typed'
  <2>1. post[t].body \in Body
    BY <1>9 DEF GiveUp, Post
  <2>2. /\ late' \subseteq Body /\ IsFiniteSet(late') /\ Cardinality(late') <= MaxLate
        /\ stray' \in BOOLEAN
    BY <1>9, <2>1 DEF GiveUp
  <2> QED
    <3>1. Return(t, FALSE) /\ UNCHANGED <<impl, payload, flags, signalled, listed, rested>>
      BY <1>9 DEF GiveUp
    <3> QED
      BY <1>7, <2>2, <3>1, TypedByParts DEF flags
<1>10. ASSUME NEW body \in Body, ReachLate(body) PROVE Typed'
  BY <1>10 DEF ReachLate, flags, history
<1>11. CASE Shutdown
  <2>1. payload' \in Body
    BY <1>11 DEF Shutdown, Body
  <2> QED
    BY <1>11, <2>1, TypedByParts DEF Shutdown, Notify, history
<1>12. CASE SetStop
  BY <1>12 DEF SetStop, history
<1>13. CASE PostOffline
  <2>1. post' = [post EXCEPT !["main"] = Begun(payload)] /\ main' = "posting"
    BY <1>13 DEF PostOffline
  <2>2. post' \in [Thread -> Post]
    BY <2>1 DEF Thread
  <2>3. post'["main"].body # NoBody /\ post'["worker"] = post["worker"]
    BY <2>1 DEF Thread
  <2> QED
    BY <1>13, <2>1, <2>2, <2>3, TypedByParts DEF PostOffline, flags
<1>14. CASE UNCHANGED vars
  BY <1>14 DEF vars, flags, history
<1> QED
  BY <1>1, <1>2, <1>3, <1>4, <1>5, <1>6, <1>8, <1>9, <1>10, <1>11, <1>12, <1>13, <1>14, Steps

LEMMA TypedAlways == Spec => []Typed
<1>1. Init => Typed
  <2> SUFFICES ASSUME Init PROVE Typed
    OBVIOUS
  <2>1. payload \in Body
    BY Basics DEF Init, Body
  <2>2. post \in [Thread -> Post] /\ \A t \in Thread : post[t].body = NoBody
    BY DEF Init, NoPost, Post
  <2>3. IsFiniteSet(late) /\ Cardinality(late) <= MaxLate
    BY FS_EmptySet, Basics DEF Init
  <2> QED
    BY <2>1, <2>2, <2>3 DEF Init, Typed, TypeOK, Post
<1> QED
  BY <1>1, TypedStep, PTL DEF Spec

(* Both publishers keep the types of what they hold, and a thread has a    *)
(* POST under way just while it is at that point of its code.              *)
THEOREM TypeCorrect == Spec => []TypeOK
BY TypedAlways, PTL DEF Typed

(***************************************************************************)
(* Strengthenings.                                                         *)
(***************************************************************************)

(* Where the relay's thread is says whether the publisher is stopping; the *)
(* event and the worker's end come after, a POST is seen while it lasts,   *)
(* and what is left behind is recorded.                                    *)
Phase ==
  /\ stopping <=> main # "serving"
  /\ stopEvt => stopping
  /\ worker = "gone" => stopping
  /\ \A t \in Thread : post[t].seen => post[t].body # NoBody
  /\ late # {} => stray

(* Phase is inductive.                                                     *)
LEMMA PhaseStep ==
  ASSUME Typed, Phase, [Next]_vars
  PROVE  Phase'
<1> USE Basics, TypedPosts DEF Phase
<1>0. post \in [Thread -> Post] /\ \A t \in Thread : post[t] \in Post
  OBVIOUS
<1>1. ASSUME NEW n \in Count, Update(n) PROVE Phase'
  BY <1>1 DEF Update, history
<1>2. CASE Keepalive
  BY <1>2 DEF Keepalive, history
<1>3. CASE Take
  <2>1. \A t \in Thread : post'[t].seen => post'[t].body # NoBody
    BY <1>3 DEF Take, Typed, TypeOK
  <2> QED
    BY <1>3, <2>1 DEF Take
<1>4. CASE Pause
  BY <1>4 DEF Pause, history, flags
<1>5. CASE DebounceOver
  BY <1>5 DEF DebounceOver, flags
<1>6. ASSUME NEW t \in Thread, Reach(t) PROVE Phase'
  <2>1. \A s \in Thread : post'[s].seen => post'[s].body # NoBody
    BY <1>0, <1>6 DEF Reach, Post
  <2> QED
    BY <1>6, <2>1 DEF Reach, flags, history
<1>7. ASSUME NEW t \in Thread, NEW ok \in BOOLEAN, Return(t, ok), stopping' = stopping,
             main # "serving" \/ post[t].body # NoBody
      PROVE  /\ \A s \in Thread : post'[s].seen => post'[s].body # NoBody
             /\ main' = "serving" <=> main = "serving"
             /\ worker' = "gone" => worker = "gone"
  <2>1. \A s \in Thread : post'[s].seen => post'[s].body # NoBody
    BY <1>0, <1>7 DEF Return
  <2>2. t = "main" => main # "serving"
    BY <1>7 DEF Typed, TypeOK
  <2> QED
    BY <1>7, <2>1, <2>2 DEF Return
<1>8. ASSUME NEW t \in Thread, Answer(t) PROVE Phase'
  <2>1. Return(t, TRUE) /\ post[t].body # NoBody
        /\ UNCHANGED <<impl, payload, flags, signalled, late, listed, rested, stray>>
    BY <1>8 DEF Answer
  <2> QED
    BY <1>7, <2>1 DEF flags
<1>9. ASSUME NEW t \in Thread, GiveUp(t) PROVE Phase'
  <2>1. /\ Return(t, FALSE) /\ post[t].body # NoBody
        /\ UNCHANGED <<impl, payload, flags, signalled, listed, rested>>
    BY <1>9 DEF GiveUp
  <2>2. late' # {} => stray'
    BY <1>9 DEF GiveUp
  <2> QED
    BY <1>7, <2>1, <2>2 DEF flags
<1>10. ASSUME NEW body \in Body, ReachLate(body) PROVE Phase'
  BY <1>10 DEF ReachLate, flags, history
<1>11. CASE Shutdown
  BY <1>11 DEF Shutdown, history
<1>12. CASE SetStop
  BY <1>12 DEF SetStop, history
<1>13. CASE PostOffline
  <2>1. \A t \in Thread : post'[t].seen => post'[t].body # NoBody
    BY <1>0, <1>13 DEF PostOffline, Typed, TypeOK
  <2>2. stray => stray'
    BY <1>13 DEF PostOffline
  <2> QED
    BY <1>13, <2>1, <2>2 DEF PostOffline, flags
<1>14. CASE UNCHANGED vars
  BY <1>14 DEF vars, flags, history
<1> QED
  BY <1>1, <1>2, <1>3, <1>4, <1>5, <1>6, <1>8, <1>9, <1>10, <1>11, <1>12, <1>13, <1>14, Steps

LEMMA PhaseAlways == Spec => [](Typed /\ Phase)
<1>1. Init => Phase
  BY DEF Init, Phase, NoPost
<1> QED
  BY <1>1, TypedAlways, PhaseStep, PTL DEF Spec

(***************************************************************************)
(* Nothing published is lost.                                              *)
(***************************************************************************)

(* What the lobby shows while the publisher runs and nothing has gone      *)
(* astray: the POST under way once it has arrived, and after it, unless    *)
(* there is news, what the server would post now.                          *)
Shown ==
  ~stopping /\ ~stray =>
    /\ post["worker"].seen => listed = post["worker"].body
    /\ worker = "posting" /\ ~dirty => post["worker"].body = payload
    /\ worker # "posting" /\ lastOk /\ ~dirty => listed = payload

(* Shown is inductive, given where the threads are.                        *)
LEMMA ShownStep ==
  ASSUME Typed, Phase, Shown, [Next]_vars
  PROVE  Shown'
<1> SUFFICES ASSUME ~stopping', ~stray'
            PROVE  /\ post'["worker"].seen => listed' = post'["worker"].body
                   /\ worker' = "posting" /\ ~dirty' => post'["worker"].body = payload'
                   /\ worker' # "posting" /\ lastOk' /\ ~dirty' => listed' = payload'
  BY DEF Shown
<1>0. /\ post \in [Thread -> Post] /\ "worker" \in Thread /\ "main" \in Thread
      /\ post["worker"] \in Post /\ post["worker"].seen => worker = "posting"
      /\ post["main"].body # NoBody => stopping
  BY TypedPosts DEF Thread, Phase, Typed, TypeOK
<1> USE Basics, <1>0 DEF Shown
<1>1. ASSUME NEW n \in Count, Update(n) PROVE Shown'
  BY <1>1 DEF Update, history
<1>2. CASE Keepalive
  BY <1>2 DEF Keepalive, history
<1>3. CASE Take
  <2>1. ~stopping /\ ~stray
    BY <1>3 DEF Take
  <2>2. post' = [post EXCEPT !["worker"] = Begun(payload)] /\ worker' = "posting"
    BY <1>3, <2>1 DEF Take
  <2>3. post'["worker"].body = payload /\ ~post'["worker"].seen
    BY <2>2 DEF Begun
  <2> QED
    BY <2>2, <2>3, <1>3 DEF Take
<1>4. CASE Pause
  BY <1>4 DEF Pause, history, flags
<1>5. CASE DebounceOver
  BY <1>5 DEF DebounceOver, flags
<1>6. ASSUME NEW t \in Thread, Reach(t) PROVE Shown'
  <2>1. ~stopping /\ ~stray /\ t = "worker"
    BY <1>6 DEF Reach, flags, history
  <2>2. listed' = post["worker"].body /\ post'["worker"].body = post["worker"].body
    BY <1>6, <2>1 DEF Reach, Post
  <2>3. worker = "posting" /\ UNCHANGED <<worker, payload, dirty>>
    BY <1>6, <2>1 DEF Reach, flags, Typed, TypeOK
  <2> QED
    BY <2>1, <2>2, <2>3
<1>7. ASSUME NEW t \in Thread, Answer(t) PROVE Shown'
  <2>1. UNCHANGED <<payload, dirty, stopping, listed, stray>> /\ Return(t, TRUE) /\ post[t].seen
    BY <1>7 DEF Answer, flags
  <2>2. t = "worker"
    BY <2>1 DEF Phase
  <2>3. worker' = "pausing" /\ post'["worker"] = NoPost
    BY <2>1, <2>2 DEF Return
  <2> QED
    BY <2>1, <2>2, <2>3 DEF NoPost
<1>8. ASSUME NEW t \in Thread, GiveUp(t) PROVE Shown'
  <2>1. UNCHANGED stopping /\ Return(t, FALSE) /\ post[t].body # NoBody
    BY <1>8 DEF GiveUp, flags
  <2>2. t = "worker"
    BY <2>1
  <2>3. worker' = "pausing" /\ post'["worker"] = NoPost /\ ~lastOk'
    BY <2>1, <2>2 DEF Return
  <2> QED
    BY <2>3 DEF NoPost
<1>9. ASSUME NEW body \in Body, ReachLate(body) PROVE Shown'
  BY <1>9 DEF ReachLate, flags, history, Phase
<1>10. CASE Shutdown
  BY <1>10 DEF Shutdown
<1>11. CASE SetStop
  BY <1>11 DEF SetStop, Phase
<1>12. CASE PostOffline
  BY <1>12 DEF PostOffline, flags, Phase
<1>13. CASE UNCHANGED vars
  BY <1>13 DEF vars, flags, history
<1> QED
  BY <1>1, <1>2, <1>3, <1>4, <1>5, <1>6, <1>7, <1>8, <1>9, <1>10, <1>11, <1>12, <1>13, Steps

(* No update is lost between a snapshot and the next wait: what a worker   *)
(* without news has published is what the server would say now.            *)
THEOREM NothingLost == Spec => []Fresh
<1>1. Init => Shown
  BY DEF Init, Shown, NoPost, Thread
<1>2. Shown => Fresh
  BY DEF Shown, Fresh
<1> QED
  BY <1>1, <1>2, PhaseAlways, ShownStep, PTL DEF Spec

(***************************************************************************)
(* The goodbye comes last.                                                 *)
(***************************************************************************)

(* And once it stops: the goodbye is the last that is posted.              *)
Farewell ==
  /\ stopping => payload.status = "offline"
  /\ main = "posting" => post["main"].body.status = "offline"
  /\ main \in {"posting", "done"} /\ ~stray =>
       /\ worker = "gone"
       /\ post["main"].seen => listed = post["main"].body
  /\ OfflineLast

(* Farewell is inductive.                                                  *)
LEMMA FarewellStep ==
  ASSUME Typed, Phase, Farewell, [Next]_vars
  PROVE  Farewell'
<1>0. /\ post \in [Thread -> Post] /\ "worker" \in Thread /\ "main" \in Thread
      /\ post["main"] \in Post /\ post["worker"] \in Post
      /\ post["worker"].body # NoBody <=> worker = "posting"
      /\ post["main"].body # NoBody <=> main = "posting"
      /\ \A t \in Thread : post[t].seen => post[t].body # NoBody
  BY TypedPosts DEF Thread, Phase, Typed, TypeOK
<1> USE Basics, <1>0 DEF Farewell, OfflineLast
<1>1. ASSUME NEW n \in Count, Update(n) PROVE Farewell'
  <2>1. main' = main /\ main = "serving" /\ ~stopping'
    BY <1>1 DEF Update
  <2> QED
    BY <2>1
<1>2. CASE Keepalive
  BY <1>2 DEF Keepalive, history
<1>3. CASE Take
  <2>1. post'["main"] = post["main"] /\ worker = "waiting"
    BY <1>3 DEF Take
  <2> QED
    BY <1>3, <2>1 DEF Take
<1>4. CASE Pause
  BY <1>4 DEF Pause, history, flags
<1>5. CASE DebounceOver
  BY <1>5 DEF DebounceOver, flags
<1>6. ASSUME NEW t \in Thread, Reach(t) PROVE Farewell'
  <2>1. UNCHANGED <<payload, stopping, stray, lastOk, main, worker>> /\ listed' = post[t].body
    BY <1>6 DEF Reach, flags, history
  <2>2. post'["main"].body = post["main"].body
    BY <1>6 DEF Reach, Post
  <2>3. CASE t = "worker"
    BY <1>6, <2>1, <2>2, <2>3 DEF Reach
  <2>4. CASE t = "main"
    BY <1>6, <2>1, <2>2, <2>4 DEF Reach
  <2> QED
    BY <2>3, <2>4
<1>7. ASSUME NEW t \in Thread, Answer(t) PROVE Farewell'
  <2>1. /\ UNCHANGED <<payload, stopping, stray, listed>> /\ Return(t, TRUE)
        /\ post[t].seen /\ post[t].body # NoBody
    BY <1>7 DEF Answer, flags
  <2>2. CASE t = "worker"
    <3>1. main' = main /\ post'["main"] = post["main"] /\ worker = "posting"
      BY <2>1, <2>2 DEF Return
    <3> QED
      BY <2>1, <3>1
  <2>3. CASE t = "main"
    <3>1. main' = "done" /\ worker' = worker /\ ~post'["main"].seen /\ main = "posting"
      BY <2>1, <2>3 DEF Return, NoPost
    <3> QED
      BY <2>1, <2>3, <3>1
  <2> QED
    BY <2>2, <2>3
<1>8. ASSUME NEW t \in Thread, GiveUp(t) PROVE Farewell'
  <2>1. /\ UNCHANGED <<payload, stopping, listed>> /\ stray => stray'
        /\ post[t].body # NoBody
    BY <1>8 DEF GiveUp, flags
  <2>2. Return(t, FALSE)
    BY <1>8 DEF GiveUp
  <2>3. stray => stray'
    BY <1>8 DEF GiveUp
  <2>4. CASE t = "worker"
    <3>1. main' = main /\ post'["main"] = post["main"] /\ worker = "posting"
      BY <2>1, <2>2, <2>4 DEF Return
    <3> QED
      BY <1>8, <2>1, <2>2, <2>3, <3>1 DEF Return, GiveUp, flags
  <2>5. CASE t = "main"
    <3>1. /\ main' = "done" /\ worker' = worker /\ ~post'["main"].seen
          /\ main = "posting" /\ ~lastOk'
      BY <2>1, <2>2, <2>5 DEF Return, NoPost
    <3> QED
      BY <1>8, <2>1, <2>3, <3>1 DEF GiveUp, flags
  <2> QED
    BY <2>4, <2>5
<1>9. ASSUME NEW body \in Body, ReachLate(body) PROVE Farewell'
  BY <1>9 DEF ReachLate, flags, history, Phase
<1>10. CASE Shutdown
  <2>1. payload'.status = "offline" /\ main' \in {"joining", "stopping"}
    BY <1>10 DEF Shutdown, Typed, TypeOK, Body
  <2> QED
    BY <2>1
<1>11. CASE SetStop
  BY <1>11 DEF SetStop, history
<1>12. CASE PostOffline
  <2>1. main' = "posting" /\ main = "joining" /\ UNCHANGED <<payload, stopping, worker>>
    BY <1>12 DEF PostOffline, flags
  <2>2. post'["main"].body = payload /\ ~post'["main"].seen
    BY <1>12 DEF PostOffline, Begun
  <2>3. payload.status = "offline"
    BY <2>1 DEF Phase
  <2>4. ~stray' => worker = "gone"
    BY <1>12 DEF PostOffline
  <2> QED
    BY <2>1, <2>2, <2>3, <2>4
<1>13. CASE UNCHANGED vars
  BY <1>13 DEF vars, flags, history
<1> QED
  BY <1>1, <1>2, <1>3, <1>4, <1>5, <1>6, <1>7, <1>8, <1>9, <1>10, <1>11, <1>12, <1>13, Steps

(* A server that has said goodbye stays offline: no POST of the worker     *)
(* comes after it, unless the join gave up or a request was left behind.   *)
THEOREM GoodbyeLast == Spec => []OfflineLast
<1>1. Init => Farewell
  BY DEF Init, Farewell, OfflineLast
<1>2. Farewell => OfflineLast
  BY DEF Farewell
<1> QED
  BY <1>1, <1>2, PhaseAlways, FarewellStep, PTL DEF Spec

(***************************************************************************)
(* The Python worker's second.                                             *)
(***************************************************************************)

(* The Python worker comes to its wait rested, unless it is to stop.       *)
Rested ==
  impl = "py" => ~signalled /\ (worker = "waiting" /\ ~stopping => rested)

(* Rested is inductive: no update wakes the Python worker.                 *)
LEMMA RestedStep ==
  ASSUME Typed, Phase, Rested, [Next]_vars
  PROVE  Rested'
<1> USE DEF Rested
<1>1. ASSUME NEW n \in Count, Update(n) PROVE Rested'
  BY <1>1 DEF Update, Notify, history
<1>2. CASE Keepalive
  BY <1>2 DEF Keepalive, history
<1>3. CASE Take
  BY <1>3 DEF Take
<1>4. CASE Pause
  BY <1>4 DEF Pause, history, flags, Phase
<1>5. CASE DebounceOver
  BY <1>5 DEF DebounceOver, flags, Phase
<1>6. ASSUME NEW t \in Thread, Reach(t) PROVE Rested'
  BY <1>6 DEF Reach, flags, history
<1>7. ASSUME NEW t \in Thread, Answer(t) PROVE Rested'
  BY <1>7 DEF Answer, Return, flags
<1>8. ASSUME NEW t \in Thread, GiveUp(t) PROVE Rested'
  BY <1>8 DEF GiveUp, Return, flags
<1>9. ASSUME NEW body \in Body, ReachLate(body) PROVE Rested'
  BY <1>9 DEF ReachLate, flags, history
<1>10. CASE Shutdown
  BY <1>10 DEF Shutdown, Notify, history
<1>11. CASE SetStop
  BY <1>11 DEF SetStop, history
<1>12. CASE PostOffline
  BY <1>12 DEF PostOffline, flags
<1>13. CASE UNCHANGED vars
  BY <1>13 DEF vars, flags, history
<1> QED
  BY <1>1, <1>2, <1>3, <1>4, <1>5, <1>6, <1>7, <1>8, <1>9, <1>10, <1>11, <1>12, <1>13, Steps

(* Only Take begins a POST of the worker, and never one of a stopping      *)
(* publisher.                                                              *)
LEMMA BeginsRested ==
  ASSUME Typed, Rested, [Next]_vars, worker # "posting", worker' = "posting", impl = "py"
  PROVE  rested
<1>1. Take
  BY Steps DEF Update, Keepalive, Pause, DebounceOver, Reach, Answer, GiveUp, Return,
     ReachLate, Shutdown, SetStop, PostOffline, vars
<1> QED
  BY <1>1 DEF Take, Rested

(* However often the count changes, the Python publisher lets a full       *)
(* second pass between the POSTs of its worker.                            *)
THEOREM SecondKept == Spec => Debounced
<1>1. Init => Rested
  BY DEF Init, Rested
<1>2. ASSUME Typed, Rested, [Next]_vars
      PROVE  [worker # "posting" /\ worker' = "posting" /\ impl = "py" => rested]_vars
  BY <1>2, BeginsRested
<1> QED
  BY <1>1, <1>2, PhaseAlways, RestedStep, PTL DEF Spec, Debounced
=============================================================================
