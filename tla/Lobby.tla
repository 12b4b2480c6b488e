-------------------------------- MODULE Lobby --------------------------------
(***************************************************************************)
(* The publisher of src/server: one worker thread that POSTs the server's  *)
(* player count to the FujiNet lobby, fed by the relay's main thread.  It  *)
(* exists twice, as lobby.c and as LobbyPublisher in Python; impl says     *)
(* which one runs.                                                         *)
(*                                                                         *)
(* A critical section is one step.  A POST is three: it is begun with a    *)
(* snapshot, its request may reach the lobby, and it returns.  One that is *)
(* given up (ten seconds without an answer) may leave its request behind,  *)
(* to reach the lobby at any later time.                                   *)
(***************************************************************************)
EXTENDS Integers, FiniteSets

CONSTANTS
  Count,     \* player counts
  Impls,     \* implementations to look at, of "c" and "py"
  NoBody,    \* nothing published, no POST
  MaxLate    \* bound: requests left behind and still on their way

ASSUME LobbyAssumption ==
  /\ 0 \in Count /\ Impls \subseteq {"c", "py"} /\ MaxLate \in Nat
  /\ NoBody \notin [count : Count, status : {"online", "offline"}]

VARIABLES
  impl,
  main,       \* the relay's thread: serving, then the parts of shutdown
  worker,     \* where the worker is
  payload,    \* what a snapshot taken now would say
  dirty, stopping, stopEvt,
  signalled,  \* has a debouncing worker been woken through the condition?
  post,       \* per thread, the body it is POSTing and whether it arrived
  late,       \* bodies of requests left behind
  listed,     \* what the lobby shows
  lastOk,     \* history: did the last POST to return succeed?
  rested,     \* history: has a full second passed since the last POST?
  stray       \* history: was a request left behind, or the join cut short?

vars == <<impl, main, worker, payload, dirty, stopping, stopEvt, signalled,
          post, late, listed, lastOk, rested, stray>>
flags == <<dirty, stopping, stopEvt>>
history == <<lastOk, rested, stray>>

Body == [count : Count, status : {"online", "offline"}]
NoPost == [body |-> NoBody, seen |-> FALSE]
Begun(body) == [body |-> body, seen |-> FALSE]
Thread == {"worker", "main"}

(* A thread has a POST under way just while it is at that point, and       *)
(* everything is of its type.                                              *)
TypeOK ==
  /\ impl \in Impls
  /\ main \in {"serving", "stopping", "joining", "posting", "done"}
  /\ worker \in {"waiting", "posting", "pausing", "debouncing", "gone"}
  /\ payload \in Body /\ listed \in Body \cup {NoBody}
  /\ {dirty, stopping, stopEvt, signalled, lastOk, rested, stray} \subseteq BOOLEAN
  /\ late \subseteq Body /\ Cardinality(late) <= MaxLate
  /\ post \in [Thread -> [body : Body \cup {NoBody}, seen : BOOLEAN]]
  /\ \A t \in Thread :
       post[t].body # NoBody <=> "posting" = IF t = "worker" THEN worker ELSE main

Init ==
  /\ impl \in Impls
  /\ main = "serving" /\ worker = "waiting"
  /\ payload = [count |-> 0, status |-> "online"]
  /\ dirty = FALSE /\ stopping = FALSE /\ stopEvt = FALSE /\ signalled = FALSE
  /\ post = [t \in Thread |-> NoPost]
  /\ late = {} /\ listed = NoBody
  /\ lastOk = FALSE /\ rested = TRUE /\ stray = FALSE

-----------------------------------------------------------------------------
NotifyBoth == signalled' = (signalled \/ worker = "debouncing")  \* mutant

(* The condition is notified.  C debounces on that same condition, Python  *)
(* on an event of its own.                                                 *)
Notify == signalled' = (signalled \/ (impl = "c" /\ worker = "debouncing"))

(* lobby_update                                                            *)
Update(n) ==
  /\ main = "serving" /\ ~stopping
  /\ payload' = [payload EXCEPT !.count = n]
  /\ dirty' = TRUE
  /\ Notify
  /\ UNCHANGED <<impl, main, worker, stopping, stopEvt, post, late, listed, history>>

KeepaliveIdle ==  \* mutant
  /\ worker = "waiting" /\ ~dirty /\ ~stopping
  /\ UNCHANGED vars

(* The wait for news times out: the last body is to be posted again.       *)
Keepalive ==
  /\ worker = "waiting" /\ ~dirty /\ ~stopping
  /\ dirty' = TRUE
  /\ UNCHANGED <<impl, main, worker, payload, stopping, stopEvt, signalled,
                 post, late, listed, history>>

TakeOnline ==  \* mutant
  /\ worker = "waiting" /\ (dirty \/ stopping)
  /\ dirty' = FALSE /\ rested' = FALSE
  /\ worker' = "posting" /\ post' = [post EXCEPT !["worker"] = Begun(payload)]
  /\ UNCHANGED <<impl, main, payload, stopping, stopEvt, signalled, late,
                 listed, lastOk, stray>>

(* There is news: the worker takes a snapshot and POSTs it, or stops.      *)
Take ==
  /\ worker = "waiting" /\ (dirty \/ stopping)
  /\ dirty' = FALSE
  /\ IF stopping
     THEN worker' = "gone" /\ UNCHANGED <<post, rested>>
     ELSE /\ worker' = "posting" /\ rested' = FALSE
          /\ post' = [post EXCEPT !["worker"] = Begun(payload)]
  /\ UNCHANGED <<impl, main, payload, stopping, stopEvt, signalled, late,
                 listed, lastOk, stray>>

(* The debounce is skipped once the server is stopping.                    *)
Pause ==
  /\ worker = "pausing"
  /\ worker' = IF stopEvt THEN "waiting" ELSE "debouncing"
  /\ signalled' = FALSE
  /\ UNCHANGED <<impl, main, payload, flags, post, late, listed, history>>

(* It lasts a second, or until its waiter is woken.                        *)
DebounceOver ==
  /\ worker = "debouncing"
  /\ worker' = "waiting"
  /\ UNCHANGED <<impl, main, payload, flags, signalled, post, late, listed, lastOk, stray>>
  /\ \/ rested' = TRUE
     \/ (signalled \/ stopEvt) /\ UNCHANGED rested

-----------------------------------------------------------------------------
(* The request of thread t reaches the lobby, which shows its body.        *)
Reach(t) ==
  /\ post[t].body # NoBody /\ ~post[t].seen
  /\ post' = [post EXCEPT ![t].seen = TRUE]
  /\ listed' = post[t].body
  /\ UNCHANGED <<impl, main, worker, payload, flags, signalled, late, history>>

ReachLate(body) ==
  /\ body \in late
  /\ late' = late \ {body}
  /\ listed' = body
  /\ UNCHANGED <<impl, main, worker, payload, flags, signalled, post, history>>

ReturnRetrying(t, ok) ==  \* mutant
  /\ post' = [post EXCEPT ![t] = IF ok THEN NoPost ELSE Begun(post[t].body)]
  /\ lastOk' = ok
  /\ IF t = "worker" THEN worker' = "pausing" /\ UNCHANGED main
     ELSE main' = "done" /\ UNCHANGED worker

(* do_post is back in its caller.                                          *)
Return(t, ok) ==
  /\ post' = [post EXCEPT ![t] = NoPost]
  /\ lastOk' = ok
  /\ IF t = "worker" THEN worker' = "pausing" /\ UNCHANGED main
     ELSE main' = "done" /\ UNCHANGED worker

AnswerClearing(t) ==  \* mutant
  /\ post[t].seen
  /\ Return(t, TRUE)
  /\ dirty' = FALSE
  /\ UNCHANGED <<impl, payload, stopping, stopEvt, signalled, late, listed, rested, stray>>

(* The lobby's answer is read: the POST has succeeded.                     *)
Answer(t) ==
  /\ post[t].seen
  /\ Return(t, TRUE)
  /\ UNCHANGED <<impl, payload, flags, signalled, late, listed, rested, stray>>

(* No connection, an error status, or no answer in time; in the last case  *)
(* the request may still be on its way.                                    *)
GiveUp(t) ==
  /\ post[t].body # NoBody
  /\ Return(t, FALSE)
  /\ UNCHANGED <<impl, payload, flags, signalled, listed, rested>>
  /\ \/ UNCHANGED <<late, stray>>
     \/ /\ ~post[t].seen /\ Cardinality(late \cup {post[t].body}) <= MaxLate
        /\ late' = late \cup {post[t].body} /\ stray' = TRUE

-----------------------------------------------------------------------------
(* lobby_shutdown, up to the join.  Python sets the event on its own.      *)
Shutdown ==
  /\ main = "serving"
  /\ stopping' = TRUE
  /\ payload' = [payload EXCEPT !.status = "offline"]
  /\ Notify
  /\ IF impl = "c" THEN main' = "joining" /\ stopEvt' = TRUE
     ELSE main' = "stopping" /\ UNCHANGED stopEvt
  /\ UNCHANGED <<impl, worker, dirty, post, late, listed, history>>

SetStop ==
  /\ main = "stopping"
  /\ main' = "joining" /\ stopEvt' = TRUE
  /\ UNCHANGED <<impl, worker, payload, dirty, stopping, signalled, post, late,
                 listed, history>>

PostOfflineAtOnce ==  \* mutant
  /\ main = "joining"
  /\ main' = "posting"
  /\ post' = [post EXCEPT !["main"] = Begun(payload)]
  /\ UNCHANGED <<impl, worker, payload, flags, signalled, late, listed, history>>

(* The join is over and the main thread posts the offline snapshot.  Only  *)
(* a POST can outlast the twelve seconds of the join.                      *)
PostOffline ==
  /\ main = "joining"
  /\ main' = "posting"
  /\ post' = [post EXCEPT !["main"] = Begun(payload)]
  /\ UNCHANGED <<impl, worker, payload, flags, signalled, late, listed, lastOk, rested>>
  /\ \/ worker = "gone" /\ UNCHANGED stray
     \/ worker = "posting" /\ stray' = TRUE

-----------------------------------------------------------------------------
Posting(t) == Answer(t) \/ GiveUp(t)
Worker == Take \/ Pause \/ DebounceOver \/ Keepalive \/ Posting("worker")
Stopper == SetStop \/ PostOffline \/ Posting("main")
Next ==
  \/ Worker \/ Stopper \/ Shutdown
  \/ \E n \in Count : Update(n)
  \/ \E t \in Thread : Reach(t)
  \/ \E body \in Body : ReachLate(body)

Spec == Init /\ [][Next]_vars

(* Both threads run, every POST returns in the end (its time-out), and the *)
(* lobby hears the worker again and again if it is called again and again. *)
Fairness ==
  /\ WF_vars(Worker) /\ WF_vars(Stopper)
  /\ SF_vars(Reach("worker"))
FairSpec == Spec /\ Fairness

-----------------------------------------------------------------------------
(* No update is lost between a snapshot and the next wait: a worker that   *)
(* waits with nothing to do after a POST that succeeded has published the  *)
(* count the server has now.                                               *)
Fresh ==
  worker = "waiting" /\ ~dirty /\ ~stopping /\ lastOk /\ ~stray
    => listed = payload

(* A server that said goodbye successfully stays offline in the lobby: no  *)
(* POST of the worker comes after the offline one, unless the join gave up *)
(* on the worker or a request was left behind.                             *)
OfflineLast ==
  main = "done" /\ lastOk /\ ~stray => listed.status = "offline"

(* The Python worker lets a full second pass between two POSTs, however    *)
(* often the count changes.                                                *)
Debounced ==
  [][worker # "posting" /\ worker' = "posting" /\ impl = "py" => rested]_vars

(* A count that does not change any more is shown in the lobby again and   *)
(* again, POSTs that failed and requests that arrived late notwithstanding.*)
Published ==
  <>[][FALSE]_payload /\ []~stopping => []<>(listed = payload)

(* A shutdown comes to its end, whatever the worker was doing.             *)
Ended == stopping ~> main = "done"
=============================================================================
