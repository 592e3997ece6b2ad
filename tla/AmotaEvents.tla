---------------------------- MODULE AmotaEvents ----------------------------
(***************************************************************************)
(* One event channel of the plugin, from the service that posts to the     *)
(* Dart listeners: the sinks of AmotaEvent.kt or AmotaChannel.swift, the   *)
(* streams that flutter_ezw_amota_even_channel.dart caches, and between    *)
(* them Flutter's messages, in order each way, and its stream controllers. *)
(*                                                                         *)
(* Events are numbered in the order they are posted.  On Android every     *)
(* post goes through the main looper, on iOS it reaches the sink at once.  *)
(***************************************************************************)
EXTENDS Naturals, Sequences

CONSTANTS
  Listener,     (* the subscriptions an application may make               *)
  NoStream,
  MaxPosts,     (* bound: events                                           *)
  MaxListens    (* bound: subscriptions over time                          *)

ASSUME EventsAssumption ==
  /\ NoStream \notin Listener \union {"cached"}
  /\ MaxPosts \in Nat /\ MaxListens \in Nat

VARIABLES
  platform,
  \* Native.
  posts,         \* events posted so far
  looper,        \* the events the main looper has yet to deliver
  sink,          \* otaSinks, or amotaEvents, holds a sink for the event
  base,          \* events posted before the start was carried out
  started,
  \* Messages.
  calls,         \* from Dart: method calls
  messages,      \* to Dart: events
  \* Dart.
  listening,     \* the stream that each listener has subscribed to
  handler,       \* the stream whose controller handles the channel's messages
  buffered,      \* the message that Flutter keeps while there is no handler
  listens,
  early,         \* subscribed since before the start was called
  log            \* what each listener has heard

native == <<posts, looper, sink, base, started>>
dart == <<listening, handler, buffered, listens, early, log>>
vars == <<platform, native, calls, messages, dart>>

-----------------------------------------------------------------------------
(* Dart.                                                                   *)

\* Mutant: every use makes a stream of its own.
ecUncached(l) == l

\* ec returns the stream made at its first use.
ec(l) == "cached"

Subscribers(s) == {l \in Listener : listening[l] = s}

Init ==
  /\ platform \in {"android", "ios"}
  /\ posts = 0
  /\ looper = <<>>
  /\ sink = FALSE
  /\ base = 0
  /\ started = FALSE
  /\ calls = <<>>
  /\ messages = <<>>
  /\ listening = [l \in Listener |-> NoStream]
  /\ handler = NoStream
  /\ buffered = <<>>
  /\ listens = 0
  /\ early = {}
  /\ log = [l \in Listener |-> <<>>]

\* The first subscriber of a stream sets the channel's handler, which gets what
\* has been buffered, and has the native side listen.
Listen(l) ==
  LET s == ec(l) IN
  /\ listens < MaxListens
  /\ listening[l] = NoStream
  /\ listens' = listens + 1
  /\ listening' = [listening EXCEPT ![l] = s]
  /\ IF Subscribers(s) = {}
     THEN /\ handler' = s
          /\ calls' = Append(calls, "listen")
          /\ buffered' = <<>>
          /\ log' = [k \in Listener |->
                       (IF k = l THEN <<>> ELSE log[k])
                         \o (IF listening'[k] = s THEN buffered ELSE <<>>)]
     ELSE /\ log' = [log EXCEPT ![l] = <<>>]
          /\ UNCHANGED <<handler, calls, buffered>>
  /\ UNCHANGED <<platform, native, messages, early>>

\* The last subscriber of a stream takes the handler with it.
Cancel(l) ==
  LET s == listening[l] IN
  /\ s # NoStream
  /\ listening' = [listening EXCEPT ![l] = NoStream]
  /\ early' = early \ {l}
  /\ IF Subscribers(s) = {l}
     THEN handler' = NoStream /\ calls' = Append(calls, "cancel")
     ELSE UNCHANGED <<handler, calls>>
  /\ UNCHANGED <<platform, native, messages, buffered, listens, log>>

\* startOtaUpgrade is called, once.
Start ==
  /\ ~started
  /\ \A i \in 1..Len(calls) : calls[i] # "start"
  /\ calls' = Append(calls, "start")
  /\ early' = {l \in Listener : listening[l] # NoStream}
  /\ UNCHANGED <<platform, native, messages, listening, handler, buffered,
                 listens, log>>

\* Without a handler Flutter keeps the last message.
Receive ==
  /\ messages # <<>>
  /\ messages' = Tail(messages)
  /\ IF handler = NoStream
     THEN buffered' = <<Head(messages)>> /\ UNCHANGED log
     ELSE /\ log' = [l \in Listener |->
                       IF listening[l] = handler
                       THEN Append(log[l], Head(messages)) ELSE log[l]]
          /\ UNCHANGED buffered
  /\ UNCHANGED <<platform, native, calls, listening, handler, listens, early>>

-----------------------------------------------------------------------------
(* Native.                                                                 *)

\* onListen stores the sink, onCancel removes it.
onListen ==
  /\ calls # <<>> /\ Head(calls) = "listen"
  /\ calls' = Tail(calls)
  /\ sink' = TRUE
  /\ UNCHANGED <<platform, posts, looper, base, started, messages, dart>>

onCancel ==
  /\ calls # <<>> /\ Head(calls) = "cancel"
  /\ calls' = Tail(calls)
  /\ sink' = FALSE
  /\ UNCHANGED <<platform, posts, looper, base, started, messages, dart>>

\* sink?.success(e)
Success(e) == messages' = IF sink THEN Append(messages, e) ELSE messages

\* Mutant: both platforms deliver from a queue.
mainEventSendQueued ==
  /\ posts < MaxPosts
  /\ posts' = posts + 1
  /\ looper' = Append(looper, posts')
  /\ UNCHANGED messages

\* Mutant: an event that is still to be delivered gives way to the next.
mainEventSendConflated ==
  /\ posts < MaxPosts
  /\ posts' = posts + 1
  /\ IF platform = "android"
     THEN looper' = <<posts'>> /\ UNCHANGED messages
     ELSE Success(posts') /\ UNCHANGED looper

\* An event is posted.  Android delivers it from the looper.
mainEventSend ==
  /\ posts < MaxPosts
  /\ posts' = posts + 1
  /\ IF platform = "android"
     THEN looper' = Append(looper, posts') /\ UNCHANGED messages
     ELSE Success(posts') /\ UNCHANGED looper

\* The start posts the first status of the upgrade.
OnStart ==
  /\ calls # <<>> /\ Head(calls) = "start"
  /\ calls' = Tail(calls)
  /\ started' = TRUE
  /\ base' = posts
  /\ mainEventSend
  /\ UNCHANGED <<platform, sink, dart>>

\* Mutant: events posted by a running upgrade go to the sink at once.
PostEventDirectly ==
  /\ started
  /\ posts < MaxPosts
  /\ posts' = posts + 1
  /\ Success(posts')
  /\ UNCHANGED <<platform, looper, sink, base, started, calls, dart>>

\* Any other event: of the upgrade, on Android from an IO thread, or of a stop or
\* a refused call, from the main thread.
PostEvent ==
  /\ mainEventSend
  /\ UNCHANGED <<platform, sink, base, started, calls, dart>>

\* The main looper runs the oldest post, which looks the sink up now.
Deliver ==
  /\ looper # <<>>
  /\ looper' = Tail(looper)
  /\ Success(Head(looper))
  /\ UNCHANGED <<platform, posts, sink, base, started, calls, dart>>

Next ==
  \/ \E l \in Listener : Listen(l) \/ Cancel(l)
  \/ Start \/ Receive
  \/ onListen \/ onCancel \/ OnStart \/ PostEvent \/ Deliver

Spec == Init /\ [][Next]_vars

\* Both message loops run.
FairSpec ==
  /\ Spec
  /\ WF_vars(Receive)
  /\ WF_vars(onListen \/ onCancel \/ OnStart)
  /\ WF_vars(Deliver)

-----------------------------------------------------------------------------

TypeOK ==
  /\ platform \in {"android", "ios"}
  /\ posts \in 0..MaxPosts
  /\ looper \in Seq(1..posts) /\ messages \in Seq(1..posts)
  /\ platform = "ios" => looper = <<>>
  /\ sink \in BOOLEAN /\ started \in BOOLEAN
  /\ base \in 0..posts
  /\ calls \in Seq({"listen", "cancel", "start"})
  /\ listening \in [Listener -> Listener \union {"cached", NoStream}]
  /\ handler \in Listener \union {"cached", NoStream}
  /\ buffered \in Seq(1..posts) /\ Len(buffered) <= 1
  /\ listens \in 0..MaxListens
  /\ early \subseteq Listener
  /\ log \in [Listener -> Seq(1..posts)]

\* Each listener hears events in the order they were posted, and each once, even
\* though the main thread and the job both post them.
InOrder ==
  \A l \in Listener : \A i, k \in 1..Len(log[l]) :
    i < k => log[l][i] < log[l][k]

\* A listener that subscribed before the start was called, and still does, has
\* missed nothing of the upgrade, whoever else subscribes and cancels meanwhile:
\* with an event of the upgrade it has heard every earlier one.
HearsAll ==
  \A l \in early : started =>
    \A i \in 1..Len(log[l]) : \A e \in (base + 1)..log[l][i] :
      \E k \in 1..Len(log[l]) : log[l][k] = e

\* Such a listener hears every event, or cancels.
AllArrive ==
  \A l \in Listener : \A e \in 1..MaxPosts :
    (l \in early /\ started /\ base < e /\ e <= posts)
      ~> (l \notin early \/ \E i \in 1..Len(log[l]) : log[l][i] = e)

=============================================================================
