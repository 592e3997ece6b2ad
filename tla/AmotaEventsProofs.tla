-------------------------- MODULE AmotaEventsProofs -------------------------
(***************************************************************************)
(* Proofs about AmotaEvents, for any listeners and any number of events    *)
(* and of subscriptions.                                                   *)
(***************************************************************************)
EXTENDS AmotaEvents, SequenceTheorems, TLAPS

-----------------------------------------------------------------------------
(* Sequences of events.                                                    *)

Increasing(s) == \A i, k \in 1..Len(s) : i < k => s[i] < s[k]

\* Every event of s is older than every event of t.
Before(s, t) == \A i \in 1..Len(s), k \in 1..Len(t) : s[i] < t[k]

Below(s, e) == \A i \in 1..Len(s) : s[i] < e
Above(s, e) == \A i \in 1..Len(s) : e < s[i]

Has(s, e) == \E i \in 1..Len(s) : s[i] = e

\* The next event at the end of a sequence.
LEMMA AppendEvent ==
  ASSUME NEW s \in Seq(Nat), NEW e \in Nat
  PROVE  /\ Append(s, e) \in Seq(Nat)
         /\ Increasing(s) /\ Below(s, e) => Increasing(Append(s, e))
         /\ \A t \in Seq(Nat) : Before(s, t) /\ Above(t, e)
                                  => Before(Append(s, e), t)
         /\ \A t \in Seq(Nat) : Before(t, s) /\ Below(t, e)
                                  => Before(t, Append(s, e))
         /\ \A x : Has(Append(s, e), x) <=> Has(s, x) \/ x = e
<1> DEFINE a == Append(s, e)
<1>1. /\ a \in Seq(Nat) /\ Len(s) \in Nat /\ Len(a) = Len(s) + 1
      /\ \A i \in 1..Len(s) : a[i] = s[i]
      /\ a[Len(s) + 1] = e
  BY AppendProperties, LenProperties
<1> HIDE DEF a
<1>3. \A i \in 1..Len(a) : i \in 1..Len(s) \/ i = Len(s) + 1
  BY <1>1
<1>4. Increasing(s) /\ Below(s, e) => Increasing(a)
  <2> SUFFICES ASSUME Increasing(s), Below(s, e),
                      NEW i \in 1..Len(a), NEW k \in 1..Len(a), i < k
               PROVE  a[i] < a[k]
    BY DEF Increasing
  <2>1. i \in 1..Len(s)
    BY <1>1
  <2> QED
    BY <1>1, <1>3, <2>1 DEF Increasing, Below
<1>5. \A t \in Seq(Nat) : Before(s, t) /\ Above(t, e) => Before(a, t)
  BY <1>1, <1>3 DEF Before, Below, Above
<1>6. \A t \in Seq(Nat) : Before(t, s) /\ Below(t, e) => Before(t, a)
  BY <1>1, <1>3 DEF Before, Below, Above
<1>7. ASSUME NEW x PROVE Has(a, x) <=> Has(s, x) \/ x = e
  <2>1. Has(a, x) => Has(s, x) \/ x = e
    BY <1>1, <1>3 DEF Has
  <2>2. Has(s, x) => Has(a, x)
    BY <1>1 DEF Has
  <2>3. Has(a, e)
    BY <1>1 DEF Has
  <2> QED
    BY <2>1, <2>2, <2>3
<1> QED
  BY <1>1, <1>4, <1>5, <1>6, <1>7 DEF a

\* The oldest event taken from the front of a sequence.
LEMMA TakeEvent ==
  ASSUME NEW s \in Seq(Nat), s # <<>>
  PROVE  /\ Tail(s) \in Seq(Nat) /\ Head(s) \in Nat
         /\ Increasing(s) => Increasing(Tail(s)) /\ Above(Tail(s), Head(s))
         /\ \A t \in Seq(Nat) :
              Before(s, t) => Before(Tail(s), t) /\ Above(t, Head(s))
         /\ \A t \in Seq(Nat) :
              Before(t, s) => Before(t, Tail(s)) /\ Below(t, Head(s))
         /\ \A x : Has(s, x) <=> Has(Tail(s), x) \/ x = Head(s)
<1>1. /\ Head(s) = s[1] /\ Head(s) \in Nat /\ Tail(s) \in Seq(Nat)
      /\ Len(s) \in Nat /\ Len(s) > 0
      /\ Len(Tail(s)) = Len(s) - 1
      /\ \A i \in 1..Len(Tail(s)) : Tail(s)[i] = s[i + 1]
  BY HeadTailProperties
<1>2. \A i \in 1..Len(s) : i = 1 \/ (i - 1 \in 1..Len(Tail(s))
                                      /\ s[i] = Tail(s)[i - 1])
  BY <1>1
<1>3. Increasing(s) => Increasing(Tail(s)) /\ Above(Tail(s), Head(s))
  BY <1>1 DEF Increasing, Above
<1>4. \A t \in Seq(Nat) :
        Before(s, t) => Before(Tail(s), t) /\ Above(t, Head(s))
  BY <1>1 DEF Before, Above, Below
<1>5. \A t \in Seq(Nat) :
        Before(t, s) => Before(t, Tail(s)) /\ Below(t, Head(s))
  BY <1>1 DEF Before, Above, Below
<1>6. ASSUME NEW x PROVE Has(s, x) <=> Has(Tail(s), x) \/ x = Head(s)
  <2>1. Has(s, x) => Has(Tail(s), x) \/ x = Head(s)
    BY <1>1, <1>2 DEF Has
  <2>2. ASSUME Has(Tail(s), x) PROVE Has(s, x)
    <3>1. PICK i \in 1..Len(Tail(s)) : Tail(s)[i] = x
      BY <2>2 DEF Has
    <3>2. i + 1 \in 1..Len(s) /\ s[i + 1] = x
      BY <1>1, <3>1
    <3> QED
      BY <3>2 DEF Has
  <2>3. Has(s, Head(s))
    BY <1>1 DEF Has
  <2> QED
    BY <2>1, <2>2, <2>3
<1> QED
  BY <1>1, <1>3, <1>4, <1>5, <1>6

-----------------------------------------------------------------------------
(* The inductive invariant.                                                *)

\* What is on its way is in order, and newer than what has been heard.
Flow ==
  /\ Increasing(looper) /\ Increasing(messages) /\ Before(messages, looper)
  /\ Before(buffered, messages) /\ Before(buffered, looper)
  /\ \A l \in Listener :
       Increasing(log[l]) /\ Before(log[l], messages) /\ Before(log[l], looper)

\* The one cached stream has the handler exactly while somebody listens to it.
OneStream ==
  /\ \A l \in Listener : listening[l] \in {"cached", NoStream}
  /\ handler = IF \E l \in Listener : listening[l] = "cached"
               THEN "cached" ELSE NoStream

\* The last of the pending calls about the sink.
IsLast(i) ==
  /\ calls[i] # "start"
  /\ \A k \in 1..Len(calls) : k > i => calls[k] = "start"

\* When all pending calls have been carried out, there is a sink exactly if there
\* is a handler.
SinkFollows ==
  /\ \A i \in 1..Len(calls) :
       IsLast(i) => (calls[i] = "listen" <=> handler = "cached")
  /\ (\A i \in 1..Len(calls) : calls[i] = "start") =>
       (sink <=> handler = "cached")

\* As long as an early listener is there, no call comes behind the start.
NothingBehindStart ==
  /\ \A i, k \in 1..Len(calls) :
       calls[i] = "start" /\ calls[k] = "start" => i = k
  /\ \A i \in 1..Len(calls) : calls[i] = "start" => ~started
  /\ \A l \in early : listening[l] = "cached"
  /\ early # {} =>
       IF started THEN calls = <<>>
                  ELSE calls # <<>> /\ calls[Len(calls)] = "start"

\* For an early listener, each event of the upgrade is heard or on its way.
NoneLost ==
  started => \A l \in early : \A e \in (base + 1)..posts :
    Has(log[l], e) \/ Has(messages, e) \/ Has(looper, e)

EventsInv ==
  /\ TypeOK
  /\ Flow /\ OneStream /\ SinkFollows /\ NothingBehindStart /\ NoneLost

-----------------------------------------------------------------------------
(* Types.                                                                  *)

LEMMA Seqs ==
  ASSUME NEW n \in Nat, NEW s \in Seq(1..n)
  PROVE  /\ s \in Seq(Nat) /\ s \in Seq(1..(n + 1))
         /\ Below(s, n + 1)
<1>1. 1..n \subseteq Nat /\ 1..n \subseteq 1..(n + 1)
  OBVIOUS
<1>2. \A i \in 1..Len(s) : s[i] \in 1..n
  BY ElementOfSeq
<1> QED
  BY <1>1, <1>2, SeqMonotonic DEF Below

\* The events on their way and those heard are among the events posted.
LEMMA EventTypes ==
  ASSUME TypeOK
  PROVE  /\ posts \in Nat
         /\ \A s \in {looper, messages, buffered} :
              s \in Seq(Nat) /\ s \in Seq(1..(posts + 1)) /\ Below(s, posts + 1)
         /\ \A l \in Listener :
              /\ log[l] \in Seq(Nat) /\ log[l] \in Seq(1..(posts + 1))
              /\ Below(log[l], posts + 1)
<1>1. posts \in Nat
  BY EventsAssumption DEF TypeOK
<1>2. /\ \A s \in {looper, messages, buffered} : s \in Seq(1..posts)
      /\ \A l \in Listener : log[l] \in Seq(1..posts)
  BY DEF TypeOK
<1> QED
  BY <1>1, <1>2, Seqs

\* What a new listener finds: the buffered event if it is the only one.
LEMMA ListenEffect ==
  ASSUME TypeOK, OneStream, NEW l \in Listener, Listen(l)
  PROVE  /\ listening[l] = NoStream
         /\ listening' = [listening EXCEPT ![l] = "cached"]
         /\ handler' = "cached"
         /\ \/ /\ handler = NoStream
               /\ calls' = Append(calls, "listen")
               /\ buffered' = <<>>
               /\ log' = [log EXCEPT ![l] = buffered]
            \/ /\ handler = "cached"
               /\ log' = [log EXCEPT ![l] = <<>>]
               /\ UNCHANGED <<calls, buffered>>
         /\ UNCHANGED <<platform, native, messages, early>>
<1>1. /\ listening[l] = NoStream
      /\ listening' = [listening EXCEPT ![l] = "cached"]
      /\ UNCHANGED <<platform, native, messages, early>>
  BY DEF Listen, ec
<1>2. Subscribers("cached") = {} <=> handler = NoStream
  BY EventsAssumption DEF OneStream, Subscribers
<1>3. CASE Subscribers("cached") = {}
  <2>1. /\ handler' = "cached" /\ calls' = Append(calls, "listen")
        /\ buffered' = <<>>
        /\ log' = [k \in Listener |->
                     (IF k = l THEN <<>> ELSE log[k])
                       \o (IF listening'[k] = "cached" THEN buffered ELSE <<>>)]
    BY <1>3 DEF Listen, ec
  <2>2. listening'[l] = "cached" /\ \A k \in Listener \ {l} : listening'[k] # "cached"
    BY <1>1, <1>3 DEF Subscribers, TypeOK
  <2>3. <<>> \o buffered = buffered
    BY EventTypes, ConcatEmptySeq
  <2>4. \A k \in Listener : log[k] \o <<>> = log[k]
    BY EventTypes, ConcatEmptySeq
  <2>5. log' = [log EXCEPT ![l] = buffered]
    BY <2>1, <2>2, <2>3, <2>4 DEF TypeOK
  <2> QED
    BY <1>1, <1>2, <1>3, <2>1, <2>5
<1>4. CASE Subscribers("cached") # {}
  BY <1>1, <1>2, <1>4 DEF Listen, ec, OneStream, TypeOK
<1> QED
  BY <1>3, <1>4

LEMMA EventsTypeInit == Init => TypeOK
<1> SUFFICES ASSUME Init PROVE TypeOK
  OBVIOUS
<1>1. /\ posts \in 0..MaxPosts /\ base \in 0..posts /\ listens \in 0..MaxListens
  BY EventsAssumption DEF Init
<1>2. /\ looper \in Seq(1..posts) /\ messages \in Seq(1..posts)
      /\ buffered \in Seq(1..posts) /\ Len(buffered) <= 1
      /\ calls \in Seq({"listen", "cancel", "start"})
      /\ log \in [Listener -> Seq(1..posts)]
  BY EmptySeq DEF Init
<1>3. /\ listening \in [Listener -> Listener \union {"cached", NoStream}]
      /\ handler \in Listener \union {"cached", NoStream}
  BY DEF Init
<1> QED
  BY <1>1, <1>2, <1>3 DEF Init, TypeOK

LEMMA EventsTypeStep == TypeOK /\ OneStream /\ [Next]_vars => TypeOK'
<1> SUFFICES ASSUME TypeOK, OneStream, [Next]_vars PROVE TypeOK'
  OBVIOUS
<1> USE EventsAssumption DEF native, dart
<1> DEFINE Call == {"listen", "cancel", "start"}
<1>0. /\ \A c \in Call : Append(calls, c) \in Seq(Call)
      /\ calls # <<>> => Tail(calls) \in Seq(Call)
  BY AppendProperties, HeadTailProperties DEF TypeOK
<1> HIDE DEF Call
<1>1. ASSUME NEW l \in Listener, Listen(l) PROVE TypeOK'
  <2>1. /\ listening' \in [Listener -> Listener \union {"cached", NoStream}]
        /\ handler' \in Listener \union {"cached", NoStream}
        /\ early' = early /\ listens' \in 0..MaxListens
        /\ UNCHANGED <<platform, native, messages>>
    <3>1. listens' = listens + 1 /\ listens < MaxListens
      BY <1>1 DEF Listen
    <3>2. listening' = [listening EXCEPT ![l] = "cached"]
          /\ handler' = "cached" /\ UNCHANGED <<platform, native, messages, early>>
      BY <1>1, ListenEffect
    <3> QED
      BY <3>1, <3>2 DEF TypeOK
  <2>2. buffered' \in Seq(1..posts) /\ Len(buffered') <= 1
    <3>1. buffered' = <<>> \/ buffered' = buffered
      BY <1>1, ListenEffect
    <3>2. buffered \in Seq(1..posts) /\ Len(buffered) <= 1
      BY DEF TypeOK
    <3>3. <<>> \in Seq(1..posts) /\ Len(<<>>) <= 1
      BY EmptySeq
    <3> QED
      BY <3>1, <3>2, <3>3
  <2>3. log' \in [Listener -> Seq(1..posts)]
    <3>1. PICK s \in Seq(1..posts) : log' = [log EXCEPT ![l] = s]
      BY <1>1, ListenEffect, EmptySeq DEF TypeOK
    <3> QED
      BY <3>1 DEF TypeOK
  <2>4. calls' \in Seq(Call)
    BY <1>0, <1>1, ListenEffect DEF TypeOK, Call
  <2> QED
    BY <2>1, <2>2, <2>3, <2>4 DEF TypeOK, Call
<1>2. ASSUME NEW l \in Listener, Cancel(l) PROVE TypeOK'
  <2>1. calls' \in Seq(Call)
    BY <1>0, <1>2 DEF TypeOK, Cancel, Call
  <2> QED
    BY <1>2, <2>1 DEF TypeOK, Cancel, Call
<1>3. CASE Start
  <2>1. calls' \in Seq(Call)
    BY <1>0, <1>3 DEF TypeOK, Start, Call
  <2> QED
    BY <1>3, <2>1 DEF TypeOK, Start, Call
<1>4. CASE Receive
  <2>1. Head(messages) \in 1..posts /\ Tail(messages) \in Seq(1..posts)
    BY <1>4, HeadTailProperties DEF TypeOK, Receive
  <2>2. /\ <<Head(messages)>> \in Seq(1..posts) /\ Len(<<Head(messages)>>) <= 1
        /\ \A l \in Listener : Append(log[l], Head(messages)) \in Seq(1..posts)
    BY <2>1, AppendProperties DEF TypeOK
  <2>3. buffered' \in Seq(1..posts) /\ Len(buffered') <= 1
    <3>1. buffered \in Seq(1..posts) /\ Len(buffered) <= 1
      BY DEF TypeOK
    <3>2. buffered' = <<Head(messages)>> \/ buffered' = buffered
      BY <1>4 DEF Receive
    <3> QED
      BY <2>2, <3>1, <3>2
  <2>4. log' \in [Listener -> Seq(1..posts)]
    <3>1. log \in [Listener -> Seq(1..posts)]
      BY DEF TypeOK
    <3>2. CASE log' = log
      BY <3>1, <3>2
    <3>3. CASE log' # log
      <4>1. log' = [l \in Listener |->
                      IF listening[l] = handler THEN Append(log[l], Head(messages))
                      ELSE log[l]]
        BY <1>4, <3>3 DEF Receive
      <4> QED
        BY <2>2, <3>1, <4>1
    <3> QED
      BY <3>2, <3>3
  <2> QED
    BY <1>4, <2>1, <2>3, <2>4 DEF TypeOK, Receive
<1>5. CASE onListen \/ onCancel
  <2>1. calls' \in Seq(Call)
    BY <1>0, <1>5 DEF TypeOK, onListen, onCancel
  <2> QED
    BY <1>5, <2>1 DEF TypeOK, onListen, onCancel, Call
<1>6. ASSUME mainEventSend, UNCHANGED <<platform, sink, dart>>,
             calls' \in Seq(Call), base' \in 0..posts, started' \in BOOLEAN
      PROVE  TypeOK'
  <2>1. posts' = posts + 1 /\ posts' \in 0..MaxPosts /\ base' \in 0..posts'
    BY <1>6 DEF TypeOK, mainEventSend
  <2>2. /\ \A s \in {looper, messages, buffered} :
             s \in Seq(1..posts') /\ Append(s, posts') \in Seq(1..posts')
        /\ \A l \in Listener : log[l] \in Seq(1..posts')
    BY <2>1, EventTypes, AppendProperties
  <2>3. looper' \in Seq(1..posts') /\ messages' \in Seq(1..posts')
    BY <1>6, <2>2 DEF mainEventSend, Success
  <2>4. /\ log' \in [Listener -> Seq(1..posts')] /\ buffered' \in Seq(1..posts')
        /\ platform' = "ios" => looper' = <<>>
    BY <1>6, <2>2 DEF TypeOK, mainEventSend
  <2> QED
    BY <1>6, <2>1, <2>3, <2>4 DEF TypeOK, Call
<1>7. CASE OnStart
  <2>1. base' \in 0..posts /\ calls' \in Seq(Call) /\ started' \in BOOLEAN
    BY <1>0, <1>7 DEF TypeOK, OnStart
  <2> QED
    BY <1>6, <1>7, <2>1 DEF OnStart
<1>8. CASE PostEvent
  BY <1>6, <1>8 DEF TypeOK, PostEvent, Call
<1>9. CASE Deliver
  BY <1>9, HeadTailProperties, AppendProperties DEF TypeOK, Deliver, Success
<1>10. CASE UNCHANGED vars
  BY <1>10 DEF TypeOK, vars
<1> QED
  BY <1>1, <1>2, <1>3, <1>4, <1>5, <1>7, <1>8, <1>9, <1>10 DEF Next

-----------------------------------------------------------------------------
(* Order.                                                                  *)

LEMMA EmptyEvents ==
  /\ Increasing(<<>>)
  /\ \A s \in Seq(Nat) : Before(<<>>, s) /\ Before(s, <<>>)
  BY DEF Increasing, Before

LEMMA FlowStep == TypeOK /\ OneStream /\ Flow /\ [Next]_vars => Flow'
<1> SUFFICES ASSUME TypeOK, OneStream, Flow, [Next]_vars PROVE Flow'
  OBVIOUS
<1> USE DEF native, dart
<1>1. /\ posts \in Nat /\ looper \in Seq(Nat) /\ messages \in Seq(Nat)
      /\ buffered \in Seq(Nat) /\ \A l \in Listener : log[l] \in Seq(Nat)
      /\ \A s \in {looper, messages, buffered} : Below(s, posts + 1)
      /\ \A l \in Listener : Below(log[l], posts + 1)
  BY EventTypes
<1>2. ASSUME NEW l \in Listener, Listen(l) PROVE Flow'
  <2>1. UNCHANGED <<looper, messages>>
    BY <1>2, ListenEffect
  <2>2. buffered' = buffered \/ buffered' = <<>>
    BY <1>2, ListenEffect
  <2>3. PICK s \in {buffered, <<>>} : log' = [log EXCEPT ![l] = s]
    BY <1>2, ListenEffect
  <2>4. Increasing(s) /\ Before(s, messages) /\ Before(s, looper)
    <3>1. Increasing(buffered)
      BY DEF TypeOK, Increasing
    <3> QED
      BY <1>1, <2>3, <3>1, EmptyEvents DEF Flow
  <2>5. Before(buffered', messages) /\ Before(buffered', looper)
    BY <1>1, <2>2, EmptyEvents DEF Flow
  <2> QED
    BY <2>1, <2>3, <2>4, <2>5 DEF Flow, TypeOK
<1>3. CASE Receive
  <2>1. messages # <<>> /\ messages' = Tail(messages) /\ looper' = looper
    BY <1>3 DEF Receive
  <2> DEFINE e == Head(messages)
  <2>2. /\ e \in Nat /\ messages' \in Seq(Nat)
        /\ Increasing(messages') /\ Above(messages', e) /\ Above(looper, e)
        /\ Before(messages', looper)
        /\ \A s \in Seq(Nat) : Before(s, messages) =>
                                 Before(s, messages') /\ Below(s, e)
    BY <1>1, <2>1, TakeEvent DEF Flow
  <2> HIDE DEF e
  <2>3. /\ \A s \in Seq(Nat) :
             Increasing(s) /\ Before(s, messages) /\ Before(s, looper) =>
               /\ Increasing(Append(s, e)) /\ Before(Append(s, e), messages')
               /\ Before(Append(s, e), looper)
        /\ Before(<<e>>, messages') /\ Before(<<e>>, looper)
    <3>1. Before(<<e>>, messages') /\ Before(<<e>>, looper)
      BY <1>1, <2>2 DEF Before, Above
    <3> QED
      BY <1>1, <2>2, <3>1, AppendEvent
  <2>4. CASE handler = NoStream
    BY <1>1, <1>3, <2>1, <2>2, <2>3, <2>4 DEF Receive, Flow, e
  <2>5. CASE handler # NoStream
    <3>1. /\ buffered' = buffered
          /\ \A l \in Listener : log'[l] = log[l] \/ log'[l] = Append(log[l], e)
      BY <1>3, <2>5 DEF Receive, e
    <3> QED
      BY <1>1, <2>1, <2>2, <2>3, <3>1 DEF Flow
  <2> QED
    BY <2>4, <2>5
<1>4. ASSUME mainEventSend, UNCHANGED dart PROVE Flow'
  <2>1. posts' = posts + 1
    BY <1>4 DEF mainEventSend
  <2>2. CASE platform = "android"
    <3>1. looper' = Append(looper, posts + 1) /\ messages' = messages
      BY <1>4, <2>1, <2>2 DEF mainEventSend
    <3> QED
      BY <1>1, <1>4, <3>1, AppendEvent DEF Flow
  <2>3. CASE platform = "ios"
    <3>1. /\ looper' = <<>> /\ looper = <<>>
          /\ messages' = messages \/ messages' = Append(messages, posts + 1)
      BY <1>4, <2>1, <2>3 DEF mainEventSend, Success, TypeOK
    <3>2. /\ messages' \in Seq(Nat) /\ Increasing(messages')
          /\ Before(buffered, messages')
          /\ \A l \in Listener : Before(log[l], messages')
      <4>1. CASE messages' = messages
        BY <1>1, <4>1 DEF Flow
      <4>2. CASE messages' = Append(messages, posts + 1)
        <5>1. /\ messages' \in Seq(Nat) /\ Increasing(messages')
              /\ \A s \in Seq(Nat) : Before(s, messages) /\ Below(s, posts + 1)
                                       => Before(s, messages')
          BY <1>1, <4>2, AppendEvent DEF Flow
        <5> QED
          BY <1>1, <5>1 DEF Flow
      <4> QED
        BY <3>1, <4>1, <4>2
    <3> QED
      BY <1>1, <1>4, <3>1, <3>2, EmptyEvents DEF Flow
  <2> QED
    BY <2>2, <2>3 DEF TypeOK
<1>5. CASE OnStart \/ PostEvent
  BY <1>4, <1>5 DEF OnStart, PostEvent
<1>6. CASE Deliver
  <2>1. /\ looper # <<>> /\ looper' = Tail(looper) /\ UNCHANGED dart
        /\ messages' = messages \/ messages' = Append(messages, Head(looper))
    BY <1>6 DEF Deliver, Success
  <2> DEFINE e == Head(looper)
  <2>2. /\ e \in Nat /\ looper' \in Seq(Nat)
        /\ Increasing(looper') /\ Above(looper', e)
        /\ \A s \in Seq(Nat) : Before(s, looper) =>
                                 Before(s, looper') /\ Below(s, e)
    BY <1>1, <2>1, TakeEvent DEF Flow
  <2> HIDE DEF e
  <2>3. /\ messages' \in Seq(Nat) /\ Increasing(messages')
        /\ Before(messages', looper')
        /\ \A s \in Seq(Nat) : Before(s, messages) /\ Before(s, looper) =>
                                 Before(s, messages')
    <3>1. CASE messages' = messages
      BY <1>1, <2>2, <3>1 DEF Flow
    <3>2. CASE messages' = Append(messages, e)
      <4>1. Before(messages, looper') /\ Below(messages, e)
        BY <1>1, <2>2 DEF Flow
      <4>2. /\ messages' \in Seq(Nat) /\ Increasing(messages')
            /\ Before(messages', looper')
        BY <1>1, <2>2, <3>2, <4>1, AppendEvent DEF Flow
      <4>3. \A s \in Seq(Nat) : Before(s, messages) /\ Below(s, e)
                                  => Before(s, messages')
        BY <1>1, <2>2, <3>2, AppendEvent
      <4> QED
        BY <2>2, <4>2, <4>3
    <3> QED
      BY <2>1, <3>1, <3>2 DEF e
  <2> QED
    BY <1>1, <2>1, <2>2, <2>3 DEF Flow
<1>7. ASSUME UNCHANGED <<looper, messages, buffered, log>> PROVE Flow'
  BY <1>7 DEF Flow
<1>8. ASSUME NEW l \in Listener, Cancel(l) PROVE Flow'
  BY <1>7, <1>8 DEF Cancel
<1>9. CASE Start \/ onListen \/ onCancel \/ UNCHANGED vars
  BY <1>7, <1>9 DEF Start, onListen, onCancel, vars
<1> QED
  BY <1>2, <1>3, <1>5, <1>6, <1>8, <1>9 DEF Next

-----------------------------------------------------------------------------
(* The sink and the calls that set it.                                     *)

\* What the last listener to cancel leaves behind.
LEMMA CancelEffect ==
  ASSUME TypeOK, OneStream, NEW l \in Listener, Cancel(l)
  PROVE  /\ listening[l] = "cached" /\ handler = "cached"
         /\ listening' = [listening EXCEPT ![l] = NoStream]
         /\ early' = early \ {l}
         /\ \/ /\ \A k \in Listener \ {l} : listening[k] = NoStream
               /\ handler' = NoStream
               /\ calls' = Append(calls, "cancel")
            \/ /\ \E k \in Listener \ {l} : listening[k] = "cached"
               /\ UNCHANGED <<handler, calls>>
         /\ UNCHANGED <<platform, native, messages, buffered, log>>
<1>1. listening[l] = "cached"
  BY DEF Cancel, OneStream
<1>2. handler = "cached"
  BY <1>1 DEF OneStream
<1>3. Subscribers("cached") = {l} <=>
        \A k \in Listener \ {l} : listening[k] = NoStream
  BY <1>1, EventsAssumption DEF OneStream, Subscribers
<1> QED
  BY <1>1, <1>2, <1>3 DEF Cancel, OneStream

LEMMA OneStreamStep == TypeOK /\ OneStream /\ [Next]_vars => OneStream'
<1> SUFFICES ASSUME TypeOK, OneStream, [Next]_vars PROVE OneStream'
  OBVIOUS
<1>1. ASSUME NEW l \in Listener, Listen(l) PROVE OneStream'
  <2>1. listening' = [listening EXCEPT ![l] = "cached"] /\ handler' = "cached"
    BY <1>1, ListenEffect
  <2> QED
    BY <2>1 DEF OneStream, TypeOK
<1>2. ASSUME NEW l \in Listener, Cancel(l) PROVE OneStream'
  <2>1. /\ listening' = [listening EXCEPT ![l] = NoStream]
        /\ handler = "cached" /\ "cached" # NoStream
    BY <1>2, CancelEffect, EventsAssumption
  <2>2. CASE /\ \A k \in Listener \ {l} : listening[k] = NoStream
             /\ handler' = NoStream
    BY <2>1, <2>2 DEF OneStream, TypeOK
  <2>3. CASE /\ \E k \in Listener \ {l} : listening[k] = "cached"
             /\ handler' = handler
    BY <2>1, <2>3 DEF OneStream, TypeOK
  <2> QED
    BY <1>2, <2>2, <2>3, CancelEffect
<1>3. ASSUME UNCHANGED <<listening, handler>> PROVE OneStream'
  BY <1>3 DEF OneStream
<1> QED
  BY <1>1, <1>2, <1>3
  DEF Next, Start, Receive, onListen, onCancel, OnStart, PostEvent, Deliver,
      vars, dart

\* A new call becomes the last, unless it is the start.
LEMMA NewCall ==
  ASSUME TypeOK, NEW c \in {"listen", "cancel", "start"}, calls' = Append(calls, c)
  PROVE  /\ Len(calls) \in Nat /\ Len(calls') = Len(calls) + 1
         /\ calls'[Len(calls')] = c /\ calls' # <<>>
         /\ \A i \in 1..Len(calls) : calls'[i] = calls[i]
         /\ \A i \in 1..Len(calls') : i \in 1..Len(calls) \/ i = Len(calls')
<1>1. calls \in Seq({"listen", "cancel", "start"})
  BY DEF TypeOK
<1> QED
  BY <1>1, AppendProperties, LenProperties

\* The oldest call leaves the others in their order.
LEMMA CallTaken ==
  ASSUME TypeOK, calls # <<>>, calls' = Tail(calls)
  PROVE  /\ Len(calls) \in Nat /\ Len(calls) >= 1 /\ Len(calls') = Len(calls) - 1
         /\ Head(calls) = calls[1]
         /\ \A i \in 1..Len(calls') : calls'[i] = calls[i + 1]
         /\ \A i \in 1..Len(calls) : i = 1 \/ i - 1 \in 1..Len(calls')
<1>1. calls \in Seq({"listen", "cancel", "start"})
  BY DEF TypeOK
<1> QED
  BY <1>1, HeadTailProperties, LenProperties

LEMMA SinkStep ==
  TypeOK /\ OneStream /\ SinkFollows /\ [Next]_vars => SinkFollows'
<1> SUFFICES ASSUME TypeOK, OneStream, SinkFollows, [Next]_vars
             PROVE  SinkFollows'
  OBVIOUS
<1> USE DEF native, dart
<1>1. ASSUME NEW c \in {"listen", "cancel"}, calls' = Append(calls, c),
             c = "listen" <=> handler' = "cached"
      PROVE  SinkFollows'
  <2>1. \A i \in 1..Len(calls') : IsLast(i)' => i = Len(calls')
    BY <1>1, NewCall DEF IsLast
  <2> QED
    BY <1>1, <2>1, NewCall DEF SinkFollows
<1>2. ASSUME NEW l \in Listener, Listen(l) PROVE SinkFollows'
  <2>1. CASE calls' = Append(calls, "listen")
    BY <1>1, <1>2, <2>1, ListenEffect
  <2>2. CASE UNCHANGED <<calls, handler>>
    BY <1>2, <2>2, ListenEffect DEF SinkFollows, IsLast
  <2> QED
    BY <1>2, <2>1, <2>2, ListenEffect
<1>3. ASSUME NEW l \in Listener, Cancel(l) PROVE SinkFollows'
  <2>1. CASE calls' = Append(calls, "cancel") /\ handler' = NoStream
    BY <1>1, <2>1, EventsAssumption
  <2>2. CASE UNCHANGED <<calls, handler>>
    BY <1>3, <2>2, CancelEffect DEF SinkFollows, IsLast
  <2> QED
    BY <1>3, <2>1, <2>2, CancelEffect
<1>4. CASE Start
  <2>1. calls' = Append(calls, "start") /\ UNCHANGED <<sink, handler>>
    BY <1>4 DEF Start
  <2>2. \A i \in 1..Len(calls') :
          IsLast(i)' => i \in 1..Len(calls) /\ IsLast(i)
    BY <2>1, NewCall DEF IsLast
  <2> QED
    BY <2>1, <2>2, NewCall DEF SinkFollows
<1>5. ASSUME calls # <<>>, calls' = Tail(calls), handler' = handler,
             \/ calls[1] = "start" /\ sink' = sink
             \/ calls[1] # "start" /\ sink' = (calls[1] = "listen")
      PROVE  SinkFollows'
  <2>1. ASSUME NEW i \in 1..Len(calls'), IsLast(i)'
        PROVE  calls'[i] = "listen" <=> handler' = "cached"
    <3>1. i + 1 \in 1..Len(calls) /\ calls[i + 1] = calls'[i]
      BY <1>5, CallTaken
    <3>2. IsLast(i + 1)
      BY <1>5, <2>1, <3>1, CallTaken DEF IsLast
    <3> QED
      BY <1>5, <3>1, <3>2 DEF SinkFollows
  <2>2. ASSUME \A i \in 1..Len(calls') : calls'[i] = "start"
        PROVE  sink' <=> handler' = "cached"
    <3>1. \A k \in 1..Len(calls) : k > 1 => calls[k] = "start"
      BY <1>5, <2>2, CallTaken
    <3>2. CASE calls[1] = "start"
      <4>1. \A k \in 1..Len(calls) : calls[k] = "start"
        BY <1>5, <3>1, <3>2, CallTaken
      <4> QED
        BY <1>5, <3>2, <4>1 DEF SinkFollows
    <3>3. CASE calls[1] # "start"
      <4>1. IsLast(1) /\ 1 \in 1..Len(calls)
        BY <1>5, <3>1, <3>3, CallTaken DEF IsLast
      <4> QED
        BY <1>5, <3>3, <4>1 DEF SinkFollows
    <3> QED
      BY <3>2, <3>3
  <2> QED
    BY <2>1, <2>2 DEF SinkFollows
<1>6. CASE onListen \/ onCancel \/ OnStart
  <2>1. calls # <<>> /\ calls' = Tail(calls) /\ Head(calls) = calls[1]
    BY <1>6, CallTaken DEF onListen, onCancel, OnStart
  <2> QED
    BY <1>5, <1>6, <2>1 DEF onListen, onCancel, OnStart
<1>7. ASSUME UNCHANGED <<calls, sink, handler>> PROVE SinkFollows'
  BY <1>7 DEF SinkFollows, IsLast
<1> QED
  BY <1>2, <1>3, <1>4, <1>6, <1>7 DEF Next, Receive, PostEvent, Deliver, vars

LEMMA StartStep ==
  TypeOK /\ OneStream /\ NothingBehindStart /\ [Next]_vars => NothingBehindStart'
<1> SUFFICES ASSUME TypeOK, OneStream, NothingBehindStart, [Next]_vars
             PROVE  NothingBehindStart'
  OBVIOUS
<1> USE DEF native, dart
<1>1. early \subseteq Listener
  BY DEF TypeOK
<1>2. ASSUME NEW l \in Listener, Listen(l) PROVE NothingBehindStart'
  <2>1. /\ \A k \in early : listening'[k] = "cached"
        /\ UNCHANGED <<started, early>>
    BY <1>1, <1>2, ListenEffect DEF NothingBehindStart, TypeOK
  <2>2. CASE handler = NoStream /\ calls' = Append(calls, "listen")
    <3>1. early = {}
      BY <1>1, <2>2, EventsAssumption DEF NothingBehindStart, OneStream
    <3> QED
      BY <2>1, <2>2, <3>1, NewCall DEF NothingBehindStart
  <2>3. CASE UNCHANGED calls
    BY <2>1, <2>3 DEF NothingBehindStart
  <2> QED
    BY <1>2, <2>2, <2>3, ListenEffect
<1>3. ASSUME NEW l \in Listener, Cancel(l) PROVE NothingBehindStart'
  <2>1. /\ early' \subseteq early /\ started' = started
        /\ \A k \in early' : listening'[k] = "cached"
    BY <1>1, <1>3, CancelEffect DEF NothingBehindStart, TypeOK
  <2>2. CASE /\ \A k \in Listener \ {l} : listening[k] = NoStream
             /\ calls' = Append(calls, "cancel")
    <3>1. early' = {}
      BY <1>1, <1>3, <2>2, CancelEffect, EventsAssumption DEF NothingBehindStart
    <3> QED
      BY <2>1, <2>2, <3>1, NewCall DEF NothingBehindStart
  <2>3. CASE UNCHANGED calls
    BY <2>1, <2>3 DEF NothingBehindStart
  <2> QED
    BY <1>3, <2>2, <2>3, CancelEffect
<1>4. CASE Start
  <2>1. /\ ~started /\ started' = started /\ listening' = listening
        /\ \A i \in 1..Len(calls) : calls[i] # "start"
        /\ calls' = Append(calls, "start")
        /\ early' = {l \in Listener : listening[l] # NoStream}
    BY <1>4 DEF Start
  <2>2. \A l \in early' : listening'[l] = "cached"
    BY <2>1 DEF OneStream
  <2> QED
    BY <2>1, <2>2, NewCall DEF NothingBehindStart
<1>5. CASE onListen \/ onCancel
  <2>1. /\ calls # <<>> /\ calls' = Tail(calls) /\ calls[1] # "start"
        /\ UNCHANGED <<started, early, listening>>
    BY <1>5, CallTaken DEF onListen, onCancel
  <2>2. /\ \A i, k \in 1..Len(calls') :
             calls'[i] = "start" /\ calls'[k] = "start" => i = k
        /\ \A i \in 1..Len(calls') : calls'[i] = "start" => ~started'
    BY <2>1, CallTaken DEF NothingBehindStart
  <2>3. early # {} =>
          /\ ~started /\ Len(calls) > 1
          /\ calls' # <<>> /\ calls'[Len(calls')] = "start"
    <3>1. early # {} => ~started /\ calls[Len(calls)] = "start"
      BY <2>1 DEF NothingBehindStart
    <3>2. early # {} => Len(calls) > 1
      BY <2>1, <3>1, CallTaken
    <3>3. /\ Len(calls) \in Nat /\ Len(calls') = Len(calls) - 1
          /\ \A i \in 1..Len(calls') : calls'[i] = calls[i + 1]
      BY <2>1, CallTaken
    <3>4. early # {} => Len(calls') \in 1..Len(calls') /\ Len(calls') > 0
      BY <3>2, <3>3
    <3>5. early # {} => calls'[Len(calls')] = "start"
      BY <3>1, <3>3, <3>4
    <3>6. early # {} => calls' # <<>>
      BY <3>4
    <3> QED
      BY <3>1, <3>2, <3>5, <3>6
  <2> QED
    BY <2>1, <2>2, <2>3 DEF NothingBehindStart
<1>6. CASE OnStart
  <2>1. /\ calls # <<>> /\ calls' = Tail(calls) /\ calls[1] = "start"
        /\ started' /\ UNCHANGED <<early, listening>>
    BY <1>6, CallTaken DEF OnStart
  <2>2. ~started /\ \A i \in 1..Len(calls') : calls'[i] # "start"
    BY <2>1, CallTaken DEF NothingBehindStart
  <2>3. early # {} => calls' = <<>>
    <3>1. early # {} => calls[Len(calls)] = "start"
      BY <2>2 DEF NothingBehindStart
    <3>2. early # {} => Len(calls) = 1
      BY <2>1, <3>1, CallTaken DEF NothingBehindStart
    <3>3. early # {} => Len(calls') = 0
      BY <2>1, <3>2, CallTaken
    <3>4. calls' \in Seq({"listen", "cancel", "start"})
      BY <2>1, HeadTailProperties DEF TypeOK
    <3> QED
      BY <3>3, <3>4, EmptySeq
  <2> QED
    BY <2>1, <2>2, <2>3 DEF NothingBehindStart
<1>7. ASSUME UNCHANGED <<calls, started, early, listening>>
      PROVE  NothingBehindStart'
  BY <1>7 DEF NothingBehindStart
<1> QED
  BY <1>2, <1>3, <1>4, <1>5, <1>6, <1>7
  DEF Next, Receive, PostEvent, Deliver, vars

-----------------------------------------------------------------------------
(* No event is lost.                                                       *)

\* An early listener has the sink and the handler once the upgrade runs.
LEMMA EarlyHasSink ==
  ASSUME OneStream, SinkFollows, NothingBehindStart, started, NEW l \in early,
         TypeOK
  PROVE  /\ calls = <<>> /\ sink
         /\ l \in Listener /\ listening[l] = "cached" /\ handler = "cached"
<1>1. l \in Listener /\ calls = <<>> /\ listening[l] = "cached"
  BY DEF NothingBehindStart, TypeOK
<1>2. handler = "cached"
  BY <1>1 DEF OneStream
<1>3. \A i \in 1..Len(calls) : calls[i] = "start"
  BY <1>1
<1> QED
  BY <1>1, <1>2, <1>3 DEF SinkFollows

LEMMA NoneLostStep ==
  /\ TypeOK /\ OneStream /\ SinkFollows /\ NothingBehindStart /\ NoneLost
  /\ [Next]_vars
  => NoneLost'
<1> SUFFICES ASSUME TypeOK, OneStream, SinkFollows, NothingBehindStart, NoneLost,
                    [Next]_vars, started', NEW l \in early',
                    NEW e \in (base' + 1)..posts'
             PROVE  Has(log'[l], e) \/ Has(messages', e) \/ Has(looper', e)
  BY DEF NoneLost
<1> DEFINE OnItsWay == Has(log[l], e) \/ Has(messages, e) \/ Has(looper, e)
<1> USE DEF native, dart
<1>1. /\ posts \in Nat /\ looper \in Seq(Nat) /\ messages \in Seq(Nat)
      /\ \A k \in Listener : log[k] \in Seq(Nat)
  BY EventTypes
<1>2. ASSUME started, l \in early, base' = base, posts' = posts
      PROVE  OnItsWay
  BY <1>2 DEF NoneLost
<1> HIDE DEF OnItsWay
<1>3. ASSUME NEW k \in Listener, Listen(k)
      PROVE  Has(log'[l], e) \/ Has(messages', e) \/ Has(looper', e)
  <2>1. /\ started /\ l \in early /\ base' = base /\ posts' = posts
        /\ UNCHANGED <<messages, looper>> /\ listening[k] = NoStream
    BY <1>3, ListenEffect
  <2>2. l \in Listener /\ l # k
    BY <2>1, EarlyHasSink, EventsAssumption
  <2>3. log'[l] = log[l]
    BY <1>3, <2>2, ListenEffect DEF TypeOK
  <2> QED
    BY <1>2, <2>1, <2>3 DEF OnItsWay
<1>4. ASSUME NEW k \in Listener, Cancel(k)
      PROVE  Has(log'[l], e) \/ Has(messages', e) \/ Has(looper', e)
  <2>1. /\ started /\ l \in early /\ base' = base /\ posts' = posts
        /\ UNCHANGED <<messages, looper, log>>
    BY <1>4, CancelEffect
  <2> QED
    BY <1>2, <2>1 DEF OnItsWay
<1>5. CASE Start
  BY <1>5 DEF Start
<1>6. CASE Receive
  <2>1. /\ started /\ l \in early /\ base' = base /\ posts' = posts
        /\ looper' = looper /\ messages # <<>> /\ messages' = Tail(messages)
    BY <1>6 DEF Receive
  <2>2. /\ l \in Listener /\ listening[l] = handler /\ handler # NoStream
    BY <2>1, EarlyHasSink, EventsAssumption
  <2>3. log'[l] = Append(log[l], Head(messages))
    BY <1>6, <2>2 DEF Receive
  <2>4. Has(messages, e) => Has(messages', e) \/ e = Head(messages)
    BY <1>1, <2>1, TakeEvent
  <2>5. Has(log[l], e) \/ e = Head(messages) => Has(log'[l], e)
    BY <1>1, <2>1, <2>2, <2>3, TakeEvent, AppendEvent
  <2> QED
    BY <1>2, <2>1, <2>4, <2>5 DEF OnItsWay
<1>7. CASE onListen \/ onCancel
  <2>1. /\ started /\ l \in early /\ base' = base /\ posts' = posts
        /\ UNCHANGED <<messages, looper, log>>
    BY <1>7 DEF onListen, onCancel
  <2> QED
    BY <1>2, <2>1 DEF OnItsWay
<1>8. ASSUME mainEventSend, UNCHANGED <<sink, dart>>,
             OnItsWay \/ e = posts + 1,
             e = posts + 1 => sink
      PROVE  Has(log'[l], e) \/ Has(messages', e) \/ Has(looper', e)
  <2>1. posts' = posts + 1 /\ log' = log
    BY <1>8 DEF mainEventSend
  <2>2. CASE platform = "android"
    <3>1. looper' = Append(looper, posts + 1) /\ messages' = messages
      BY <1>8, <2>1, <2>2 DEF mainEventSend
    <3>2. Has(looper', e) <=> Has(looper, e) \/ e = posts + 1
      BY <1>1, <3>1, AppendEvent
    <3> QED
      BY <1>8, <2>1, <3>1, <3>2 DEF OnItsWay
  <2>3. CASE platform # "android"
    <3>1. looper' = looper /\ Success(posts + 1)
      BY <1>8, <2>1, <2>3 DEF mainEventSend
    <3>2. CASE sink
      <4>1. Has(messages', e) <=> Has(messages, e) \/ e = posts + 1
        BY <1>1, <3>1, <3>2, AppendEvent DEF Success
      <4> QED
        BY <1>8, <2>1, <3>1, <4>1 DEF OnItsWay
    <3>3. CASE ~sink
      BY <1>8, <2>1, <3>1, <3>3 DEF OnItsWay, Success
    <3> QED
      BY <3>2, <3>3
  <2> QED
    BY <2>2, <2>3
<1>9. CASE OnStart
  <2>1. mainEventSend /\ UNCHANGED <<sink, dart>> /\ base' = posts
    BY <1>9 DEF OnStart
  <2>2. e = posts + 1
    BY <1>1, <2>1 DEF mainEventSend
  <2>3. sink
    <3>1. /\ calls # <<>> /\ calls[1] = "start" /\ l \in early
      BY <1>9, CallTaken DEF OnStart
    <3>2. Len(calls) \in Nat /\ Len(calls) >= 1
      BY <1>9, CallTaken DEF OnStart
    <3>3. ~started /\ calls[Len(calls)] = "start" /\ listening[l] = "cached"
      BY <3>1, <3>2 DEF NothingBehindStart
    <3>4. Len(calls) = 1
      <4>1. 1 \in 1..Len(calls) /\ Len(calls) \in 1..Len(calls)
        BY <3>2
      <4>2. \A i, k \in 1..Len(calls) :
              calls[i] = "start" /\ calls[k] = "start" => i = k
        BY DEF NothingBehindStart
      <4> QED
        BY <3>1, <3>3, <4>1, <4>2
    <3>5. \A i \in 1..Len(calls) : calls[i] = "start"
      BY <3>1, <3>4
    <3>6. handler = "cached"
      BY <3>1, <3>3 DEF OneStream, TypeOK
    <3> QED
      BY <3>5, <3>6 DEF SinkFollows
  <2> QED
    BY <1>8, <2>1, <2>2, <2>3
<1>10. CASE PostEvent
  <2>1. /\ mainEventSend /\ UNCHANGED <<sink, dart>> /\ base' = base
        /\ started /\ l \in early
    BY <1>10 DEF PostEvent
  <2>2. e \in (base + 1)..posts \/ e = posts + 1
    BY <1>1, <2>1 DEF mainEventSend, TypeOK
  <2>3. OnItsWay \/ e = posts + 1
    BY <2>1, <2>2 DEF NoneLost, OnItsWay
  <2>4. sink
    BY <2>1, EarlyHasSink
  <2> QED
    BY <1>8, <2>1, <2>3, <2>4
<1>11. CASE Deliver
  <2>1. /\ started /\ l \in early /\ base' = base /\ posts' = posts
        /\ log' = log /\ looper # <<>> /\ looper' = Tail(looper)
        /\ Success(Head(looper))
    BY <1>11 DEF Deliver
  <2>2. messages' = Append(messages, Head(looper))
    BY <2>1, EarlyHasSink DEF Success
  <2>3. Has(looper, e) => Has(looper', e) \/ e = Head(looper)
    BY <1>1, <2>1, TakeEvent
  <2>4. Has(messages, e) \/ e = Head(looper) => Has(messages', e)
    BY <1>1, <2>1, <2>2, TakeEvent, AppendEvent
  <2> QED
    BY <1>2, <2>1, <2>3, <2>4 DEF OnItsWay
<1>12. CASE UNCHANGED vars
  BY <1>2, <1>12 DEF vars, OnItsWay
<1> QED
  BY <1>3, <1>4, <1>5, <1>6, <1>7, <1>9, <1>10, <1>11, <1>12 DEF Next

-----------------------------------------------------------------------------
(* The theorems.                                                           *)

LEMMA EventsInit == Init => EventsInv
<1> SUFFICES ASSUME Init PROVE EventsInv
  OBVIOUS
<1>1. TypeOK
  BY EventsTypeInit
<1>2. Flow
  BY EmptyEvents, EmptySeq DEF Init, Flow
<1>3. OneStream
  BY EventsAssumption DEF Init, OneStream
<1>4. SinkFollows /\ NothingBehindStart /\ NoneLost
  BY EventsAssumption
  DEF Init, SinkFollows, IsLast, NothingBehindStart, NoneLost
<1> QED
  BY <1>1, <1>2, <1>3, <1>4 DEF EventsInv

LEMMA EventsStep == EventsInv /\ [Next]_vars => EventsInv'
  BY EventsTypeStep, FlowStep, OneStreamStep, SinkStep, StartStep, NoneLostStep
  DEF EventsInv

\* The inductive invariant: what the listeners have heard, the handler's buffer,
\* the looper and the next post are one stream, in this order.
THEOREM EventsInvariant == Spec => []EventsInv
  BY EventsInit, EventsStep, PTL DEF Spec

\* Every variable keeps its type: the sequences of events hold posted ones only,
\* and at most one message is buffered.
THEOREM EventsTypeCorrect == Spec => []TypeOK
  BY EventsInvariant, PTL DEF EventsInv

\* The detour over the main looper, and the buffer of a channel without a
\* handler, neither reorder nor repeat an event.
THEOREM EventsInOrder == Spec => []InOrder
<1>1. EventsInv => InOrder
  BY DEF EventsInv, Flow, InOrder, Increasing
<1> QED
  BY <1>1, EventsInvariant, PTL

\* A listener that was there before the start misses nothing of the upgrade, as
\* the sink is looked up at delivery and the stream is the cached one.
THEOREM EarlyListenersHearAll == Spec => []HearsAll
<1>1. EventsInv => HearsAll
  <2> SUFFICES ASSUME EventsInv, started, NEW l \in early,
                      NEW i \in 1..Len(log[l]), NEW e \in (base + 1)..log[l][i]
               PROVE  Has(log[l], e)
    BY DEF HearsAll, Has
  <2>1. /\ l \in Listener /\ posts \in Nat /\ log[l] \in Seq(1..posts)
        /\ base \in Nat
    BY EventsAssumption DEF EventsInv, TypeOK
  <2>2. log[l][i] \in 1..posts
    BY <2>1, ElementOfSeq
  <2>3. Has(log[l], e) \/ Has(messages, e) \/ Has(looper, e)
    BY <2>1, <2>2 DEF EventsInv, NoneLost
  <2>4. ~Has(messages, e) /\ ~Has(looper, e)
    <3>1. Before(log[l], messages) /\ Before(log[l], looper)
      BY <2>1 DEF EventsInv, Flow
    <3> QED
      BY <2>1, <2>2, <3>1 DEF Before, Has
  <2> QED
    BY <2>3, <2>4
<1> QED
  BY <1>1, EventsInvariant, PTL

=============================================================================
