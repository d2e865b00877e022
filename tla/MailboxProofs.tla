---------------------------- MODULE MailboxProofs ----------------------------
(***************************************************************************)
(* What holds of two mailboxes and the server between them for every       *)
(* number of sends, disconnects and redeliveries and every length of the   *)
(* queues.                                                                 *)
(***************************************************************************)
EXTENDS Mailbox, SequenceTheorems, TLAPS

----------------------------------------------------------------------------
(* The invariant. *)

\* The server sends to the newest socket of a side or to one that has ended.
RouteInv ==
    \A s \in Side :
        /\ epoch[s] > 0
        /\ \A e \in gone[s] : e \in 1 .. epoch[s]
        /\ conn[s] \in {"connecting", "accepted", "open"} => epoch[s] \notin gone[s]
        /\ conn[s] \in {"accepted", "open"} => routed[s] = epoch[s]
        /\ conn[s] \notin {"accepted", "open"} => routed[s] \in {0} \cup gone[s]

\* A mailbox that is alive is on its first socket; frames wait in its queue or
\* are on their way, never both.
ClientInv ==
    \A s \in Side :
        /\ alive[s] => conn[s] \in {"connecting", "accepted", "open"} /\ gone[s] = {}
        /\ alive[s] /\ conn[s] # "open" => up[s] = <<>> /\ upTo[s] = 0
        /\ alive[s] /\ conn[s] = "open" => outQ[s] = <<>>
        /\ conn[s] \notin {"accepted", "open"} => down[s] = <<>>
        /\ server = "broker" /\ conn[s] \in {"accepted", "open"} => queue[s] = <<>>
        /\ listening[s] => backlog[s] = <<>>
        /\ alive[s] \/ closedByApp[s] \/ flaps > 0

\* What the server has taken for side s, from the oldest on: the broker's own
\* share of it is only what it still holds.
Line(s) ==
    IF server = "broker" THEN Handled(s) \o down[s] \o queue[s] ELSE queue[s]

\* The frames of side s the server has not taken yet.
Pending(s) == IF alive[s] /\ conn[s] # "open" THEN outQ[s] ELSE up[s]

IsSend(q, i) == i \in DOMAIN q /\ q[i].type = "send"

\* Of k sends the server has taken those in l, and those in p are to come: every
\* payload is behind those sent before it.
Ordered(l, p, k) ==
    /\ \A i, j \in DOMAIN l : i < j => l[i] < l[j]
    /\ \A i \in DOMAIN l : l[i] <= k
    /\ \A i \in DOMAIN l, j \in DOMAIN p : IsSend(p, j) => l[i] < p[j].n
    /\ \A i, j \in DOMAIN p : i < j /\ IsSend(p, i) /\ IsSend(p, j) => p[i].n < p[j].n
    /\ \A j \in DOMAIN p : IsSend(p, j) => p[j].n <= k

\* Payloads keep the order of the sends along the whole way, whatever is lost.
OrderInv == \A s \in Side : Ordered(Line(s), Pending(Other(s)), sent[Other(s)])

\* The payloads from k + 1 to n are among the first j frames of q.
Before(q, j, k, n) ==
    \A m \in k + 1 .. n : \E i \in 1 .. j : IsSend(q, i) /\ q[i].n = m

\* Nothing is missing in l, nor between l and a payload of p; nor at the end of
\* p as long as the sender lives.
Whole(l, p, k, live) ==
    /\ \A i \in DOMAIN l : l[i] = i
    /\ Len(l) <= k
    /\ \A j \in DOMAIN p : IsSend(p, j) =>
          p[j].n > Len(l) /\ Before(p, j - 1, Len(l), p[j].n - 1)
    /\ live => Before(p, Len(p), Len(l), k)

\* That is so unless something fell to a full queue or the reader is gone.
WholeInv ==
    \A s \in Side :
        ~dropped[s] /\ (server = "broker" => alive[s]) =>
            Whole(Line(s), Pending(Other(s)), sent[Other(s)], alive[Other(s)])

Holds(q, n) == \A m \in 1 .. n : \E i \in DOMAIN q : q[i] = m

\* Every payload of q has all the earlier ones before it.
Gapless(q) ==
    \A i \in DOMAIN q : \A m \in 1 .. q[i] - 1 : \E j \in 1 .. i - 1 : q[j] = m

\* What a side has heard and what is on its way to it.
Stream(s) == Handled(s) \o down[s]

\* What a mailbox that has acknowledged up to u may have on its way: it says
\* hello once, before it has heard anything.
SendFrame == {f \in UpFrame : f.type = "send"}
FrameUpTo(u) == {f \in UpFrame : /\ f.type = "hello" => f.n = 0
                                 /\ f.type = "delivered" => f.n <= u}

\* A side acknowledges what it has seen, and a broker's payloads never.
FrameInv ==
    \A s \in Side :
        /\ outQ[s] \in Seq(SendFrame) /\ up[s] \in Seq(FrameUpTo(upTo[s]))
        /\ server = "broker" => upTo[s] = 0
        /\ acked[s] <= upTo[s]

\* What is acknowledged was handled, and nothing before it is missing.
HeardInv ==
    \A s \in Side : ~dropped[s] => Holds(Handled(s), upTo[s]) /\ Gapless(Handled(s))

\* What the sequenced server has pushed has arrived or is on its way.
PushInv ==
    server = "sequenced" =>
        \A s \in Side :
            /\ next[s] <= Len(queue[s])
            /\ alive[s] /\ ~dropped[s] => Gapless(Stream(s)) /\ Holds(Stream(s), next[s])

IInv ==
    TypeOK /\ RouteInv /\ ClientInv /\ OrderInv /\ WholeInv /\ FrameInv /\ PushInv /\ HeardInv

----------------------------------------------------------------------------
(* Type correctness. *)

LEMMA SideOther == \A s \in Side : Other(s) \in Side /\ Other(s) # s /\ Other(Other(s)) = s
BY DEF Side, Other

\* The parts of TypeOK, by who changes them.
QueueTypes ==
    /\ outQ \in [Side -> Seq(UpFrame)] /\ up \in [Side -> Seq(UpFrame)]
    /\ backlog \in [Side -> Seq(Nat)] /\ down \in [Side -> Seq(Nat)]
    /\ queue \in [Side -> Seq(Nat)] /\ got \in [Side -> Seq(Nat)]

FlagTypes ==
    /\ alive \in [Side -> BOOLEAN] /\ closedByApp \in [Side -> BOOLEAN]
    /\ listening \in [Side -> BOOLEAN] /\ greeted \in [Side -> BOOLEAN]
    /\ dropped \in [Side -> BOOLEAN]
    /\ conn \in [Side -> {"connecting", "accepted", "open", "waiting", "shut"}]

CountTypes ==
    /\ epoch \in [Side -> Nat] /\ routed \in [Side -> Nat] /\ gone \in [Side -> SUBSET Nat]
    /\ upTo \in [Side -> Nat] /\ acked \in [Side -> Nat] /\ next \in [Side -> Nat]
    /\ server \in Servers /\ flaps \in Nat /\ again \in Nat /\ sent \in [Side -> Nat]

Limits == \A s \in Side : Len(outQ[s]) <= MaxQ /\ Len(backlog[s]) <= BacklogMax

LEMMA TypeParts == TypeOK <=> QueueTypes /\ FlagTypes /\ CountTypes /\ Limits
BY DEF TypeOK, QueueTypes, FlagTypes, CountTypes, Limits

LEMMA TypeInit == Init => TypeOK
<1> SUFFICES ASSUME Init PROVE TypeOK
  OBVIOUS
<1> USE LimitsAreNat DEF Init, All
<1>1. QueueTypes
  BY DEF QueueTypes
<1>2. FlagTypes
  BY DEF FlagTypes
<1>3. CountTypes
  BY DEF CountTypes
<1>4. Limits
  BY DEF Limits
<1>5. QED
  BY <1>1, <1>2, <1>3, <1>4, TypeParts

LEMMA TypeEmit ==
  ASSUME QueueTypes, FlagTypes, Limits, NEW s \in Side, NEW n \in Nat, Emit(s, n)
  PROVE  /\ backlog' \in [Side -> Seq(Nat)] /\ got' \in [Side -> Seq(Nat)]
         /\ dropped' \in [Side -> BOOLEAN]
         /\ \A t \in Side : Len(backlog'[t]) <= BacklogMax
<1> USE LimitsAreNat
<1>1. backlog[s] \in Seq(Nat) /\ Len(backlog[s]) \in Nat
  BY DEF QueueTypes
<1>2. CASE listening[s] /\ got' = [got EXCEPT ![s] = Append(@, n)] /\ UNCHANGED <<backlog, dropped>>
  BY <1>2 DEF QueueTypes, FlagTypes, Limits
<1>3. CASE /\ Len(backlog[s]) < BacklogMax
           /\ backlog' = [backlog EXCEPT ![s] = Append(@, n)]
           /\ UNCHANGED <<got, dropped>>
  <2>1. Append(backlog[s], n) \in Seq(Nat) /\ Len(Append(backlog[s], n)) = Len(backlog[s]) + 1
    BY <1>1
  <2>2. QED
    BY <1>1, <1>3, <2>1 DEF QueueTypes, FlagTypes, Limits
<1>4. CASE /\ Len(backlog[s]) = BacklogMax
           /\ backlog' = [backlog EXCEPT ![s] = Append(Tail(@), n)]
           /\ dropped' = [dropped EXCEPT ![s] = TRUE] /\ UNCHANGED got
  <2>1. backlog[s] # <<>>
    BY <1>1, <1>4
  <2>2. /\ Append(Tail(backlog[s]), n) \in Seq(Nat)
        /\ Len(Append(Tail(backlog[s]), n)) = Len(backlog[s])
    BY <1>1, <2>1
  <2>3. QED
    BY <1>1, <1>4, <2>2 DEF QueueTypes, FlagTypes, Limits
<1>5. QED
  BY <1>2, <1>3, <1>4 DEF Emit

\* What remains of a socket's frames is a prefix.
LEMMA TypeSocketEnds ==
  ASSUME QueueTypes, CountTypes, NEW s \in Side, SocketEnds(s)
  PROVE  /\ up' \in [Side -> Seq(UpFrame)] /\ down' \in [Side -> Seq(Nat)]
         /\ gone' \in [Side -> SUBSET Nat]
<1>1. PICK k \in 0 .. Len(up[s]) : up' = [up EXCEPT ![s] = SubSeq(@, 1, k)]
  BY DEF SocketEnds
<1>2. SubSeq(up[s], 1, k) \in Seq(UpFrame)
  BY DEF QueueTypes
<1>3. gone' \in [Side -> SUBSET Nat]
  BY DEF SocketEnds, CountTypes
<1>4. QED
  BY <1>1, <1>2, <1>3 DEF SocketEnds, QueueTypes

LEMMA TypeSend ==
  ASSUME QueueTypes, FlagTypes, CountTypes, Limits, NEW s \in Side, Send(s)
  PROVE  QueueTypes' /\ FlagTypes' /\ CountTypes' /\ Limits'
<1> USE LimitsAreNat DEF broker, seqSrv, bounds
<1> DEFINE frame == [type |-> "send", n |-> sent[s] + 1]
<1>1. frame \in UpFrame
  BY DEF CountTypes, UpFrame
<1>2. /\ Append(up[s], frame) \in Seq(UpFrame) /\ Append(outQ[s], frame) \in Seq(UpFrame)
      /\ Len(Append(outQ[s], frame)) = Len(outQ[s]) + 1 /\ Len(outQ[s]) \in Nat
  BY <1>1 DEF QueueTypes
<1>3. QueueTypes'
  <2>1. UNCHANGED <<backlog, down, queue, got>>
    BY DEF Send
  <2>2. outQ' \in [Side -> Seq(UpFrame)]
    BY <1>2 DEF Send, QueueTypes
  <2>3. up' \in [Side -> Seq(UpFrame)]
    BY <1>2 DEF Send, QueueTypes
  <2>4. QED
    BY <2>1, <2>2, <2>3 DEF QueueTypes
<1>4. FlagTypes'
  BY DEF Send, FlagTypes
<1>5. CountTypes'
  <2>1. UNCHANGED <<epoch, routed, gone, upTo, acked, next, server, flaps, again>>
    BY DEF Send
  <2>2. sent' \in [Side -> Nat]
    BY DEF Send, CountTypes
  <2>3. QED
    BY <2>1, <2>2 DEF CountTypes
<1>6. Limits'
  <2>1. UNCHANGED outQ \/ /\ Len(outQ[s]) < MaxQ
                          /\ outQ' = [outQ EXCEPT ![s] = Append(@, frame)]
    BY DEF Send
  <2>2. UNCHANGED backlog
    BY DEF Send
  <2>3. \A t \in Side : Len(outQ'[t]) <= MaxQ
    <3> HIDE DEF frame
    <3>1. \/ outQ'[s] = outQ[s]
          \/ outQ'[s] = Append(outQ[s], frame) /\ Len(outQ[s]) < MaxQ
      BY <2>1 DEF QueueTypes
    <3>2. Len(outQ'[s]) <= MaxQ
      BY <1>2, <3>1 DEF Limits
    <3>3. \A t \in Side \ {s} : outQ'[t] = outQ[t]
      BY <2>1 DEF QueueTypes
    <3>4. QED
      BY <3>2, <3>3 DEF Limits
  <2>4. QED
    BY <2>2, <2>3 DEF Limits
<1>7. QED
  BY <1>3, <1>4, <1>5, <1>6

LEMMA TypeNext == TypeOK /\ [Next]_vars => TypeOK'
<1> SUFFICES ASSUME QueueTypes, FlagTypes, CountTypes, Limits, [Next]_vars
             PROVE  QueueTypes' /\ FlagTypes' /\ CountTypes' /\ Limits'
  BY TypeParts DEF TypeOK, QueueTypes, FlagTypes, CountTypes, Limits
<1> DEFINE Typed == QueueTypes' /\ FlagTypes' /\ CountTypes' /\ Limits'
<1> USE LimitsAreNat DEF client, socket, broker, seqSrv, bounds, history
<1>1. ASSUME NEW s \in Side, Send(s) PROVE Typed
  BY <1>1, TypeSend
<1>2. ASSUME NEW s \in Side, Opened(s) PROVE Typed
  <2>1. [type |-> "hello", n |-> upTo[s]] \in UpFrame
    BY DEF CountTypes, UpFrame
  <2>2. Append(up[s], [type |-> "hello", n |-> upTo[s]]) \o outQ[s] \in Seq(UpFrame)
    BY <2>1 DEF QueueTypes
  <2>3. QueueTypes'
    <3> DEFINE u == Append(up[s], [type |-> "hello", n |-> upTo[s]]) \o outQ[s]
    <3>3. /\ up' = up \/ up' = [up EXCEPT ![s] = u]
          /\ outQ' = outQ \/ outQ' = [outQ EXCEPT ![s] = <<>>]
      BY <1>2 DEF Opened
    <3>4. u \in Seq(UpFrame) /\ <<>> \in Seq(UpFrame)
      BY <2>2
    <3> HIDE DEF u
    <3>1. up' \in [Side -> Seq(UpFrame)] /\ outQ' \in [Side -> Seq(UpFrame)]
      BY <3>3, <3>4 DEF QueueTypes
    <3>2. UNCHANGED <<backlog, down, queue, got>>
      BY <1>2 DEF Opened
    <3>5. QED
      BY <3>1, <3>2 DEF QueueTypes
  <2>4. FlagTypes' /\ CountTypes'
    BY <1>2 DEF FlagTypes, CountTypes, Opened
  <2>5. Limits'
    <3>1. UNCHANGED backlog /\ (UNCHANGED outQ \/ outQ' = [outQ EXCEPT ![s] = <<>>])
      BY <1>2 DEF Opened
    <3>2. \A t \in Side : outQ'[t] = outQ[t] \/ outQ'[t] = <<>>
      BY <3>1 DEF QueueTypes
    <3>3. Len(<<>>) = 0 /\ 0 <= MaxQ
      OBVIOUS
    <3>4. QED
      BY <3>1, <3>2, <3>3 DEF Limits
  <2>6. QED
    BY <2>3, <2>4, <2>5
<1>3. ASSUME NEW s \in Side, Receive(s) PROVE Typed
  <2> DEFINE n == Head(down[s])
  <2>1. n \in Nat /\ Tail(down[s]) \in Seq(Nat)
    BY <1>3 DEF Receive, QueueTypes
  <2>2. Append(up[s], [type |-> "delivered", n |-> n]) \in Seq(UpFrame)
    <3>1. [type |-> "delivered", n |-> n] \in UpFrame
      BY <2>1 DEF UpFrame
    <3>2. QED
      BY <3>1 DEF QueueTypes
  <2>3. up' \in [Side -> Seq(UpFrame)]
    BY <1>3, <2>2 DEF Receive, QueueTypes
  <2>4. upTo' \in [Side -> Nat]
    BY <1>3, <2>1 DEF Receive, CountTypes
  <2>5. /\ backlog' \in [Side -> Seq(Nat)] /\ got' \in [Side -> Seq(Nat)]
        /\ dropped' \in [Side -> BOOLEAN]
        /\ \A t \in Side : Len(backlog'[t]) <= BacklogMax
    <3>1. CASE alive[s]
      BY <1>3, <2>1, <3>1, TypeEmit DEF Receive
    <3>2. CASE ~alive[s]
      BY <1>3, <3>2 DEF Receive, QueueTypes, FlagTypes, Limits
    <3>3. QED
      BY <3>1, <3>2
  <2>6. down' \in [Side -> Seq(Nat)]
    BY <1>3, <2>1 DEF Receive, QueueTypes
  <2>7. UNCHANGED <<alive, closedByApp, outQ, listening, conn, epoch, broker, seqSrv, bounds, sent>>
    BY <1>3 DEF Receive
  <2>8. QueueTypes' /\ FlagTypes'
    BY <2>3, <2>5, <2>6, <2>7 DEF QueueTypes, FlagTypes
  <2>9. CountTypes'
    BY <2>4, <2>7 DEF CountTypes
  <2>10. Limits'
    BY <2>5, <2>7 DEF Limits
  <2>11. QED
    BY <2>8, <2>9, <2>10
<1>4. ASSUME NEW s \in Side, Subscribe(s) PROVE Typed
  <2>1. got[s] \o backlog[s] \in Seq(Nat)
    BY DEF QueueTypes
  <2>2. QueueTypes' /\ FlagTypes'
    BY <1>4, <2>1 DEF Subscribe, QueueTypes, FlagTypes
  <2>3. CountTypes'
    BY <1>4 DEF Subscribe, CountTypes
  <2>4. Limits'
    BY <1>4 DEF Subscribe, Limits, QueueTypes
  <2>5. QED
    BY <2>2, <2>3, <2>4
<1>5. ASSUME NEW s \in Side, Unsubscribe(s) PROVE Typed
  BY <1>5 DEF Unsubscribe, QueueTypes, FlagTypes, CountTypes, Limits
<1>6. ASSUME NEW s \in Side, AppClose(s) \/ Flap(s) PROVE Typed
  <2>1. /\ UNCHANGED <<outQ, listening, backlog, upTo, epoch, routed, queue, seqSrv, server, again, history>>
        /\ SocketEnds(s)
    BY <1>6 DEF AppClose, Flap
  <2>2. QueueTypes' /\ Limits'
    BY <2>1, TypeSocketEnds DEF QueueTypes, Limits
  <2>3. FlagTypes'
    BY <1>6, <2>1 DEF AppClose, Flap, AliveAfterFlap, FlagTypes
  <2>4. flaps' \in Nat
    BY <1>6 DEF AppClose, Flap, CountTypes
  <2>5. CountTypes'
    BY <2>1, <2>4, TypeSocketEnds DEF CountTypes
  <2>6. QED
    BY <2>2, <2>3, <2>5
<1>8. ASSUME NEW s \in Side, Reconnect(s) PROVE Typed
  <2>1. QueueTypes' /\ FlagTypes' /\ Limits'
    BY <1>8 DEF Reconnect, QueueTypes, FlagTypes, Limits
  <2>2. CountTypes'
    BY <1>8 DEF Reconnect, CountTypes
  <2>3. QED
    BY <2>1, <2>2
<1>9. ASSUME NEW s \in Side, Accept(s) PROVE Typed
  <2>1. QueueTypes'
    <3>4. /\ down' = down \/ down' = [down EXCEPT ![s] = queue[s]]
          /\ queue' = queue \/ queue' = [queue EXCEPT ![s] = <<>>]
      BY <1>9 DEF Accept
    <3>5. queue[s] \in Seq(Nat) /\ <<>> \in Seq(Nat)
      BY DEF QueueTypes
    <3>1. down' \in [Side -> Seq(Nat)] /\ queue' \in [Side -> Seq(Nat)]
      BY <3>4, <3>5 DEF QueueTypes
    <3>2. UNCHANGED <<outQ, up, backlog, got>>
      BY <1>9 DEF Accept
    <3>3. QED
      BY <3>1, <3>2 DEF QueueTypes
  <2>4. Limits'
    BY <1>9 DEF Accept, Limits
  <2>2. FlagTypes' /\ CountTypes'
    BY <1>9 DEF Accept, FlagTypes, CountTypes
  <2>3. QED
    BY <2>1, <2>2, <2>4
<1>10. ASSUME NEW s \in Side, ServerReceives(s) PROVE Typed
  <2> DEFINE f == Head(up[s])
             o == Other(s)
  <2>1. f \in UpFrame /\ Tail(up[s]) \in Seq(UpFrame)
    BY <1>10 DEF ServerReceives, QueueTypes
  <2>2. f.n \in Nat /\ o \in Side
    BY <2>1, SideOther DEF UpFrame
  <2>3. Append(down[o], f.n) \in Seq(Nat) /\ Append(queue[o], f.n) \in Seq(Nat)
    BY <2>2 DEF QueueTypes
  <2>4. down' \in [Side -> Seq(Nat)] /\ queue' \in [Side -> Seq(Nat)]
    BY <1>10, <2>3 DEF ServerReceives, Route, QueueTypes
  <2>5. acked' \in [Side -> Nat] /\ next' \in [Side -> Nat] /\ greeted' \in [Side -> BOOLEAN]
    BY <1>10, <2>2 DEF ServerReceives, CountTypes, FlagTypes
  <2>6. /\ UNCHANGED <<client, conn, epoch, routed, gone, bounds, history>>
        /\ up' = [up EXCEPT ![s] = Tail(@)]
    BY <1>10 DEF ServerReceives
  <2>7. QueueTypes' /\ Limits'
    BY <2>1, <2>4, <2>6 DEF QueueTypes, Limits
  <2>8. FlagTypes' /\ CountTypes'
    BY <2>5, <2>6 DEF FlagTypes, CountTypes
  <2>9. QED
    BY <2>7, <2>8
<1>11. ASSUME NEW s \in Side, Push(s) PROVE Typed
  <2>1. next[s] + 1 \in 1 .. Len(queue[s]) /\ queue[s] \in Seq(Nat)
    <3>1. next[s] \in Nat /\ queue[s] \in Seq(Nat)
      BY DEF CountTypes, QueueTypes
    <3>2. next[s] < Len(queue[s])
      BY <1>11 DEF Push
    <3>3. QED
      BY <3>1, <3>2
  <2>2. Append(down[s], queue[s][next[s] + 1]) \in Seq(Nat)
    <3>1. queue[s][next[s] + 1] \in Nat
      BY <2>1, ElementOfSeq
    <3>2. QED
      BY <3>1 DEF QueueTypes
  <2>3. QueueTypes' /\ FlagTypes' /\ Limits'
    BY <1>11, <2>2 DEF Push, QueueTypes, FlagTypes, Limits
  <2>4. CountTypes'
    BY <1>11 DEF Push, CountTypes
  <2>5. QED
    BY <2>3, <2>4
<1>12. ASSUME NEW s \in Side, PushAgain(s) PROVE Typed
  <2>1. QueueTypes' /\ FlagTypes' /\ Limits'
    BY <1>12 DEF PushAgain, QueueTypes, FlagTypes, Limits
  <2>2. CountTypes'
    BY <1>12 DEF PushAgain, CountTypes
  <2>3. QED
    BY <2>1, <2>2
<1>13. ASSUME NEW s \in Side, NEW e \in gone[s], ServerNotices(s, e) PROVE Typed
  BY <1>13 DEF ServerNotices, RoutedAfter, QueueTypes, FlagTypes, CountTypes, Limits
<1>14. CASE UNCHANGED vars
  BY <1>14 DEF vars, QueueTypes, FlagTypes, CountTypes, Limits
<1>15. QED
  BY <1>1, <1>2, <1>3, <1>4, <1>5, <1>6, <1>8, <1>9, <1>10, <1>11, <1>12, <1>13, <1>14
     DEF Next, Client, Server

\* Both mailboxes and the server keep their shape: the queue of a mailbox and
\* its early backlog never exceed MAX_Q and BACKLOG_MAX.
THEOREM TypeCorrect == Spec => []TypeOK
BY TypeInit, TypeNext, PTL DEF Spec

----------------------------------------------------------------------------
(* The route and the sockets. *)

LEMMA RouteInit == Init => RouteInv
BY DEF Init, RouteInv, All

LEMMA RouteNext == TypeOK /\ RouteInv /\ [Next]_vars => RouteInv'
<1> SUFFICES ASSUME FlagTypes, CountTypes, RouteInv, [Next]_vars PROVE RouteInv'
  BY DEF TypeOK, FlagTypes, CountTypes
<1> USE DEF client, socket, broker, seqSrv, bounds, history
<1>1. CASE UNCHANGED <<epoch, gone, conn, routed>>
  BY <1>1 DEF RouteInv
<1>2. ASSUME NEW s \in Side, Opened(s) PROVE RouteInv'
  BY <1>2 DEF Opened, RouteInv, FlagTypes
<1>3. ASSUME NEW s \in Side, AppClose(s) \/ Flap(s) PROVE RouteInv'
  <2>1. conn' = [conn EXCEPT ![s] = "shut"] \/ conn' = [conn EXCEPT ![s] = "waiting"]
    BY <1>3 DEF AppClose, Flap
  <2>2. gone' = IF conn[s] \in {"accepted", "open"}
                  THEN [gone EXCEPT ![s] = @ \cup {epoch[s]}] ELSE gone
    BY <1>3 DEF AppClose, Flap, SocketEnds
  <2>3. UNCHANGED <<epoch, routed>>
    BY <1>3 DEF AppClose, Flap
  <2>4. ASSUME NEW t \in Side \ {s}
        PROVE  gone'[t] = gone[t] /\ conn'[t] = conn[t]
    BY <2>1, <2>2 DEF FlagTypes, CountTypes
  <2>5. conn'[s] \in {"shut", "waiting"}
    BY <2>1 DEF FlagTypes
  <2>6. \/ conn[s] \in {"accepted", "open"} /\ gone'[s] = gone[s] \cup {epoch[s]}
        \/ conn[s] \notin {"accepted", "open"} /\ gone'[s] = gone[s]
    BY <2>2 DEF CountTypes
  <2>7. epoch[s] \in 1 .. epoch[s]
    BY DEF RouteInv, CountTypes
  <2>8. QED
    BY <2>3, <2>4, <2>5, <2>6, <2>7 DEF RouteInv
<1>4. ASSUME NEW s \in Side, Reconnect(s) PROVE RouteInv'
  <2>1. /\ conn[s] = "waiting" /\ conn'[s] = "connecting" /\ epoch'[s] = epoch[s] + 1
        /\ UNCHANGED <<gone, routed>>
    BY <1>4 DEF Reconnect, FlagTypes, CountTypes
  <2>2. \A t \in Side \ {s} : epoch'[t] = epoch[t] /\ conn'[t] = conn[t]
    BY <1>4 DEF Reconnect, FlagTypes, CountTypes
  <2>3. epoch[s] \in Nat /\ \A e \in gone[s] : e \in 1 .. epoch[s]
    BY DEF RouteInv, CountTypes
  <2>4. epoch[s] + 1 \notin gone[s] /\ epoch[s] + 1 > 0 /\ \A e \in gone[s] : e \in 1 .. epoch[s] + 1
    BY <2>3
  <2>5. QED
    BY <2>1, <2>2, <2>4 DEF RouteInv
<1>5. ASSUME NEW s \in Side, Accept(s) PROVE RouteInv'
  BY <1>5 DEF Accept, RouteInv, FlagTypes, CountTypes
<1>6. ASSUME NEW s \in Side, NEW e \in gone[s], ServerNotices(s, e) PROVE RouteInv'
  <2>1. /\ gone'[s] = gone[s] \ {e} /\ UNCHANGED <<epoch, conn>>
        /\ routed'[s] = IF routed[s] = e THEN 0 ELSE routed[s]
    BY <1>6 DEF ServerNotices, RoutedAfter, CountTypes
  <2>2. \A t \in Side \ {s} : gone'[t] = gone[t] /\ routed'[t] = routed[t]
    BY <1>6 DEF ServerNotices, CountTypes
  <2>3. QED
    BY <2>1, <2>2 DEF RouteInv
<1>7. QED
  BY <1>1, <1>2, <1>3, <1>4, <1>5, <1>6
     DEF Next, Client, Server, vars, Send, Receive, Subscribe, Unsubscribe, ServerReceives,
         Push, PushAgain

\* A close event of an old socket never takes the route of its successor: while
\* the socket of a side is accepted or open, payloads for the side go to it.
THEOREM RouteIsCurrent == Spec => []OpenMeansRouted
<1>1. RouteInv => OpenMeansRouted
  BY DEF RouteInv, OpenMeansRouted
<1>2. TypeOK /\ RouteInv /\ [Next]_vars => (TypeOK /\ RouteInv)'
  BY TypeNext, RouteNext
<1>3. QED
  BY TypeInit, RouteInit, <1>1, <1>2, PTL DEF Spec

----------------------------------------------------------------------------
(* The client. *)

LEMMA ClientInit == Init => ClientInv
BY DEF Init, ClientInv, All

LEMMA ClientNext == TypeOK /\ RouteInv /\ ClientInv /\ [Next]_vars => ClientInv'
<1> SUFFICES ASSUME QueueTypes, FlagTypes, CountTypes, RouteInv, ClientInv, [Next]_vars
             PROVE ClientInv'
  BY DEF TypeOK, QueueTypes, FlagTypes, CountTypes
<1> USE DEF client, socket, broker, seqSrv, bounds, history
<1>1. ASSUME NEW s \in Side, Send(s) PROVE ClientInv'
  <2>1. \/ UNCHANGED <<up, outQ>>
        \/ /\ alive[s] /\ conn[s] = "open" /\ UNCHANGED outQ
           /\ \A t \in Side \ {s} : up'[t] = up[t]
        \/ /\ alive[s] /\ conn[s] # "open" /\ UNCHANGED up
           /\ \A t \in Side \ {s} : outQ'[t] = outQ[t]
    BY <1>1 DEF Send, QueueTypes
  <2>2. UNCHANGED <<alive, closedByApp, listening, backlog, upTo, conn, down, queue, gone, server, flaps>>
    BY <1>1 DEF Send
  <2>3. QED
    BY <2>1, <2>2 DEF ClientInv
<1>2. ASSUME NEW s \in Side, Opened(s) PROVE ClientInv'
  <2>1. /\ conn[s] = "accepted" /\ conn'[s] = "open"
        /\ alive[s] => outQ'[s] = <<>>
        /\ \A t \in Side \ {s} : conn'[t] = conn[t] /\ outQ'[t] = outQ[t] /\ up'[t] = up[t]
    BY <1>2 DEF Opened, QueueTypes, FlagTypes
  <2>2. UNCHANGED <<alive, closedByApp, listening, backlog, upTo, down, queue, gone, server, flaps>>
    BY <1>2 DEF Opened
  <2>3. QED
    BY <2>1, <2>2 DEF ClientInv
<1>3. ASSUME NEW s \in Side, Receive(s) PROVE ClientInv'
  <2>1. UNCHANGED <<alive, closedByApp, outQ, listening, conn, queue, gone, server, flaps>>
    BY <1>3 DEF Receive
  <2>2. conn[s] = "open" /\ (listening[s] => backlog'[s] = backlog[s])
    BY <1>3 DEF Receive, Emit
  <2>3. \A t \in Side \ {s} : /\ up'[t] = up[t] /\ down'[t] = down[t] /\ upTo'[t] = upTo[t]
                              /\ backlog'[t] = backlog[t]
    BY <1>3 DEF Receive, Emit, QueueTypes, CountTypes
  <2>4. QED
    BY <2>1, <2>2, <2>3 DEF ClientInv
<1>4. ASSUME NEW s \in Side, Subscribe(s) PROVE ClientInv'
  BY <1>4 DEF Subscribe, ClientInv, QueueTypes, FlagTypes
<1>5. ASSUME NEW s \in Side, Unsubscribe(s) PROVE ClientInv'
  BY <1>5 DEF Unsubscribe, ClientInv, FlagTypes
<1>6. ASSUME NEW s \in Side, AppClose(s) PROVE ClientInv'
  <2>1. /\ ~alive'[s] /\ closedByApp'[s] /\ down'[s] = <<>> /\ conn'[s] = "shut"
        /\ UNCHANGED <<outQ, listening, backlog, upTo, queue, server, flaps>>
    BY <1>6 DEF AppClose, SocketEnds, QueueTypes, FlagTypes
  <2>2. \A t \in Side \ {s} : /\ alive'[t] = alive[t] /\ closedByApp'[t] = closedByApp[t]
                              /\ down'[t] = down[t] /\ conn'[t] = conn[t] /\ up'[t] = up[t]
                              /\ gone'[t] = gone[t]
    BY <1>6 DEF AppClose, SocketEnds, QueueTypes, FlagTypes, CountTypes
  <2>3. QED
    BY <2>1, <2>2 DEF ClientInv
<1>7. ASSUME NEW s \in Side, Flap(s) PROVE ClientInv'
  <2>1. /\ ~alive'[s] /\ down'[s] = <<>> /\ conn'[s] = "waiting"
        /\ UNCHANGED <<closedByApp, outQ, listening, backlog, upTo, queue, server>>
    BY <1>7 DEF Flap, AliveAfterFlap, SocketEnds, QueueTypes, FlagTypes
  <2>2. \A t \in Side \ {s} : /\ alive'[t] = alive[t]
                              /\ down'[t] = down[t] /\ conn'[t] = conn[t] /\ up'[t] = up[t]
                              /\ gone'[t] = gone[t]
    BY <1>7 DEF Flap, SocketEnds, QueueTypes, FlagTypes, CountTypes
  <2>3. flaps' > 0
    BY <1>7 DEF Flap, CountTypes
  <2>4. QED
    BY <2>1, <2>2, <2>3 DEF ClientInv
<1>8. ASSUME NEW s \in Side, Reconnect(s) PROVE ClientInv'
  BY <1>8 DEF Reconnect, ClientInv, FlagTypes
<1>9. ASSUME NEW s \in Side, Accept(s) PROVE ClientInv'
  <2>1. /\ conn[s] = "connecting" /\ conn'[s] = "accepted"
        /\ server = "broker" => queue'[s] = <<>>
    BY <1>9 DEF Accept, QueueTypes, FlagTypes
  <2>2. \A t \in Side \ {s} : /\ conn'[t] = conn[t] /\ down'[t] = down[t] /\ queue'[t] = queue[t]
    BY <1>9 DEF Accept, QueueTypes, FlagTypes
  <2>3. UNCHANGED <<alive, closedByApp, outQ, listening, backlog, upTo, up, gone, server, flaps>>
    BY <1>9 DEF Accept
  <2>4. QED
    BY <2>1, <2>2, <2>3 DEF ClientInv
<1>10. ASSUME NEW s \in Side, ServerReceives(s) PROVE ClientInv'
  <2> DEFINE o == Other(s)
  <2>1. /\ UNCHANGED <<client, conn, gone, server, flaps>>
        /\ up[s] # <<>> /\ up' = [up EXCEPT ![s] = Tail(@)]
        /\ UNCHANGED <<down, queue>> \/ Route(o, Head(up[s]).n)
    BY <1>10 DEF ServerReceives
  <2>2. CASE UNCHANGED <<down, queue>>
    BY <2>1, <2>2 DEF ClientInv, QueueTypes
  <2>3. CASE Route(o, Head(up[s]).n)
    <3>1. o \in Side
      BY SideOther
    <3>2. \A t \in Side \ {o} : down'[t] = down[t] /\ queue'[t] = queue[t]
      BY <2>3 DEF Route, QueueTypes
    <3>3. server = "broker" /\ conn[o] \in {"accepted", "open"} =>
             routed[o] # 0 /\ routed[o] \notin gone[o]
      BY <3>1 DEF RouteInv, CountTypes
    <3>4. server = "broker" /\ conn[o] \in {"accepted", "open"} => queue'[o] = queue[o]
      BY <2>3, <3>3 DEF Route
    <3>5. conn[o] \notin {"accepted", "open"} => down'[o] = down[o]
      <4>1. conn[o] \notin {"accepted", "open"} => routed[o] \in {0} \cup gone[o]
        BY <3>1 DEF RouteInv
      <4>2. QED
        BY <2>3, <4>1 DEF Route
    <3>6. \A t \in Side : up[t] = <<>> => up'[t] = <<>>
      BY <2>1 DEF QueueTypes
    <3>7. QED
      BY <2>1, <3>2, <3>4, <3>5, <3>6 DEF ClientInv
  <2>4. QED
    BY <2>1, <2>2, <2>3
<1>11. ASSUME NEW s \in Side, Push(s) PROVE ClientInv'
  <2>1. /\ UNCHANGED <<client, conn, up, queue, gone, server, flaps>>
        /\ conn[s] = "open" /\ \A t \in Side \ {s} : down'[t] = down[t]
    BY <1>11 DEF Push, QueueTypes
  <2>2. QED
    BY <2>1 DEF ClientInv
<1>12. ASSUME UNCHANGED <<client, conn, up, down, queue, server, flaps>>,
              \A s \in Side : gone'[s] \subseteq gone[s]
       PROVE  ClientInv'
  BY <1>12 DEF ClientInv
<1>14. ASSUME NEW s \in Side, NEW e \in gone[s], ServerNotices(s, e) PROVE ClientInv'
  <2>1. \A t \in Side : gone'[t] \subseteq gone[t]
    BY <1>14 DEF ServerNotices, CountTypes
  <2>2. QED
    BY <1>12, <1>14, <2>1 DEF ServerNotices
<1>13. QED
  BY <1>1, <1>2, <1>3, <1>4, <1>5, <1>6, <1>7, <1>8, <1>9, <1>10, <1>11, <1>12, <1>14
     DEF Next, Client, Server, vars, PushAgain

----------------------------------------------------------------------------
(* Sequences that lose elements, and frames the server takes. *)

\* p is q without some of its elements.
Thins(p, q) ==
    /\ \A i \in DOMAIN p : \E a \in DOMAIN q : p[i] = q[a]
    /\ \A i, j \in DOMAIN p : i < j =>
          \E a, b \in DOMAIN q : a < b /\ p[i] = q[a] /\ p[j] = q[b]

LEMMA ThinsPrefix ==
  ASSUME NEW p \in Seq(Nat), NEW q \in Seq(Nat)
  PROVE  Thins(p, p \o q)
<1>1. /\ DOMAIN p = 1 .. Len(p) /\ DOMAIN (p \o q) = 1 .. Len(p) + Len(q)
      /\ Len(p) \in Nat /\ Len(q) \in Nat
      /\ \A i \in 1 .. Len(p) : (p \o q)[i] = p[i]
  OBVIOUS
<1>2. \A i \in DOMAIN p : i \in DOMAIN (p \o q) /\ p[i] = (p \o q)[i]
  BY <1>1
<1>3. QED
  BY <1>2 DEF Thins

LEMMA CatAt ==
  ASSUME NEW x \in Seq(Nat), NEW y \in Seq(Nat)
  PROVE  /\ x \o y \in Seq(Nat) /\ Len(x \o y) = Len(x) + Len(y)
         /\ \A k \in 1 .. Len(x) : (x \o y)[k] = x[k]
         /\ \A k \in Len(x) + 1 .. Len(x) + Len(y) : (x \o y)[k] = y[k - Len(x)]
<1>1. x \o y \in Seq(Nat) /\ Len(x \o y) = Len(x) + Len(y)
  OBVIOUS
<1>2. ASSUME NEW k \in 1 .. Len(x) PROVE (x \o y)[k] = x[k]
  OBVIOUS
<1>3. ASSUME NEW k \in Len(x) + 1 .. Len(x) + Len(y) PROVE (x \o y)[k] = y[k - Len(x)]
  <2>1. Len(x) \in Nat /\ Len(y) \in Nat
    OBVIOUS
  <2>2. k \in 1 .. Len(x) + Len(y) /\ k > Len(x)
    BY <2>1
  <2>3. QED
    BY <2>2
<1>4. QED
  BY <1>1, <1>2, <1>3

LEMMA Associative ==
  ASSUME NEW p \in Seq(Nat), NEW q \in Seq(Nat), NEW r \in Seq(Nat)
  PROVE  (p \o q) \o r = p \o (q \o r)
<1> DEFINE x == p \o q
           y == q \o r
           a == x \o r
           b == p \o y
<1>1. Len(p) \in Nat /\ Len(q) \in Nat /\ Len(r) \in Nat
  OBVIOUS
<1>2. /\ x \in Seq(Nat) /\ Len(x) = Len(p) + Len(q)
      /\ \A k \in 1 .. Len(p) : x[k] = p[k]
      /\ \A k \in Len(p) + 1 .. Len(p) + Len(q) : x[k] = q[k - Len(p)]
  BY CatAt, Zenon
<1>3. /\ y \in Seq(Nat) /\ Len(y) = Len(q) + Len(r)
      /\ \A k \in 1 .. Len(q) : y[k] = q[k]
      /\ \A k \in Len(q) + 1 .. Len(q) + Len(r) : y[k] = r[k - Len(q)]
  BY CatAt, Zenon
<1> HIDE DEF x, y
<1>4. /\ a \in Seq(Nat) /\ Len(a) = Len(x) + Len(r)
      /\ \A k \in 1 .. Len(x) : a[k] = x[k]
      /\ \A k \in Len(x) + 1 .. Len(x) + Len(r) : a[k] = r[k - Len(x)]
  BY <1>2, CatAt, Zenon
<1>5. /\ b \in Seq(Nat) /\ Len(b) = Len(p) + Len(y)
      /\ \A k \in 1 .. Len(p) : b[k] = p[k]
      /\ \A k \in Len(p) + 1 .. Len(p) + Len(y) : b[k] = y[k - Len(p)]
  BY <1>3, CatAt, Zenon
<1> HIDE DEF a, b
<1>6. Len(a) = Len(p) + Len(q) + Len(r) /\ Len(b) = Len(a)
  BY <1>1, <1>2, <1>3, <1>4, <1>5
<1>7. ASSUME NEW i \in 1 .. Len(a) PROVE a[i] = b[i]
  <2>1. CASE i <= Len(p)
    <3>1. i \in 1 .. Len(p) /\ i \in 1 .. Len(x)
      BY <1>1, <1>2, <1>6, <2>1
    <3>2. QED
      BY <1>2, <1>4, <1>5, <3>1
  <2>2. CASE i > Len(p) /\ i <= Len(p) + Len(q)
    <3>1. /\ i \in 1 .. Len(x) /\ i \in Len(p) + 1 .. Len(p) + Len(q)
          /\ i \in Len(p) + 1 .. Len(p) + Len(y) /\ i - Len(p) \in 1 .. Len(q)
      BY <1>1, <1>2, <1>3, <1>6, <2>2
    <3>2. a[i] = x[i] /\ x[i] = q[i - Len(p)]
      BY <1>2, <1>4, <3>1
    <3>3. b[i] = y[i - Len(p)] /\ y[i - Len(p)] = q[i - Len(p)]
      BY <1>3, <1>5, <3>1
    <3>4. QED
      BY <3>2, <3>3
  <2>3. CASE i > Len(p) + Len(q)
    <3>1. /\ i \in Len(x) + 1 .. Len(x) + Len(r)
          /\ i \in Len(p) + 1 .. Len(p) + Len(y)
          /\ i - Len(p) \in Len(q) + 1 .. Len(q) + Len(r)
          /\ i - Len(p) - Len(q) = i - Len(x)
      BY <1>1, <1>2, <1>3, <1>6, <2>3
    <3>2. a[i] = r[i - Len(x)]
      BY <1>4, <3>1
    <3>3. b[i] = y[i - Len(p)] /\ y[i - Len(p)] = r[i - Len(p) - Len(q)]
      BY <1>3, <1>5, <3>1
    <3>4. QED
      BY <3>1, <3>2, <3>3
  <2>4. QED
    BY <1>1, <1>6, <2>1, <2>2, <2>3
<1>8. a = b
  BY <1>4, <1>5, <1>6, <1>7, SeqEqual
<1>9. QED
  BY <1>8 DEF a, b, x, y

\* An element in the middle is lost.
LEMMA ThinsMiddle ==
  ASSUME NEW p \in Seq(Nat), NEW d \in Seq(Nat), NEW q \in Seq(Nat), d # <<>>
  PROVE  Thins((p \o Tail(d)) \o q, (p \o d) \o q)
<1> DEFINE t == Tail(d)
           x == p \o t
           y == p \o d
           l == x \o q
           m == y \o q
           up1(i) == IF i <= Len(p) THEN i ELSE i + 1
<1>1. /\ Len(p) \in Nat /\ Len(d) \in Nat \ {0} /\ Len(q) \in Nat
      /\ t \in Seq(Nat) /\ Len(t) = Len(d) - 1
      /\ \A k \in 1 .. Len(t) : t[k] = d[k + 1]
  OBVIOUS
<1> HIDE DEF t
<1>2. /\ x \in Seq(Nat) /\ Len(x) = Len(p) + Len(t)
      /\ \A k \in 1 .. Len(p) : x[k] = p[k]
      /\ \A k \in Len(p) + 1 .. Len(p) + Len(t) : x[k] = t[k - Len(p)]
  BY <1>1, CatAt, Zenon
<1>3. /\ y \in Seq(Nat) /\ Len(y) = Len(p) + Len(d)
      /\ \A k \in 1 .. Len(p) : y[k] = p[k]
      /\ \A k \in Len(p) + 1 .. Len(p) + Len(d) : y[k] = d[k - Len(p)]
  BY CatAt, Zenon
<1> HIDE DEF x, y
<1>4. /\ l \in Seq(Nat) /\ Len(l) = Len(x) + Len(q)
      /\ \A k \in 1 .. Len(x) : l[k] = x[k]
      /\ \A k \in Len(x) + 1 .. Len(x) + Len(q) : l[k] = q[k - Len(x)]
  BY <1>2, CatAt, Zenon
<1>5. /\ m \in Seq(Nat) /\ Len(m) = Len(y) + Len(q)
      /\ \A k \in 1 .. Len(y) : m[k] = y[k]
      /\ \A k \in Len(y) + 1 .. Len(y) + Len(q) : m[k] = q[k - Len(y)]
  BY <1>3, CatAt, Zenon
<1> HIDE DEF l, m
<1>6. /\ Len(l) = Len(p) + Len(d) - 1 + Len(q) /\ Len(m) = Len(l) + 1
      /\ Len(p) \in Nat /\ Len(d) \in Nat \ {0} /\ Len(q) \in Nat /\ Len(t) = Len(d) - 1
      /\ Len(x) = Len(p) + Len(d) - 1 /\ Len(y) = Len(p) + Len(d)
  BY <1>1, <1>2, <1>3, <1>4, <1>5
<1>11. DOMAIN l = 1 .. Len(l) /\ DOMAIN m = 1 .. Len(l) + 1
  BY <1>4, <1>5, <1>6
<1>7. ASSUME NEW i \in 1 .. Len(l) PROVE up1(i) \in DOMAIN m /\ l[i] = m[up1(i)]
  <2>1. CASE i <= Len(p)
    <3>1. i \in 1 .. Len(p) /\ i \in 1 .. Len(x) /\ i \in 1 .. Len(y)
      BY <1>6, <2>1
    <3>4. i \in DOMAIN m
      BY <1>6, <1>11
    <3>5. up1(i) = i
      BY <2>1
    <3>2. l[i] = p[i] /\ m[i] = p[i]
      BY <1>2, <1>3, <1>4, <1>5, <3>1
    <3>3. QED
      BY <3>2, <3>4, <3>5
  <2>2. CASE i > Len(p) /\ i < Len(p) + Len(d)
    <3>1. /\ i \in 1 .. Len(x) /\ i \in Len(p) + 1 .. Len(p) + Len(t)
          /\ i - Len(p) \in 1 .. Len(t) /\ i + 1 \in 1 .. Len(y)
          /\ i + 1 \in Len(p) + 1 .. Len(p) + Len(d) /\ i + 1 - Len(p) = i - Len(p) + 1
      BY <1>6, <2>2
    <3>5. i + 1 \in DOMAIN m
      BY <1>6, <1>11
    <3>6. up1(i) = i + 1
      BY <1>6, <2>2
    <3>2. l[i] = x[i] /\ x[i] = t[i - Len(p)] /\ t[i - Len(p)] = d[i - Len(p) + 1]
      <4>1. l[i] = x[i]
        BY <1>4, <3>1
      <4>2. x[i] = t[i - Len(p)]
        BY <1>2, <3>1
      <4>3. t[i - Len(p)] = d[i - Len(p) + 1]
        BY <1>1, <3>1
      <4>4. QED
        BY <4>1, <4>2, <4>3
    <3>3. m[i + 1] = y[i + 1] /\ y[i + 1] = d[i + 1 - Len(p)]
      <4>1. m[i + 1] = y[i + 1]
        BY <1>5, <3>1
      <4>2. PICK k \in Len(p) + 1 .. Len(p) + Len(d) : k = i + 1
        BY <3>1
      <4>4. y[k] = d[k - Len(p)]
        BY <1>3
      <4>3. QED
        BY <4>1, <4>2, <4>4
    <3>4. QED
      BY <3>1, <3>2, <3>3, <3>5, <3>6
  <2>3. CASE i >= Len(p) + Len(d)
    <3>1. /\ i \in Len(x) + 1 .. Len(x) + Len(q) /\ i + 1 \in Len(y) + 1 .. Len(y) + Len(q)
          /\ i - Len(x) = i + 1 - Len(y)
      BY <1>6, <2>3
    <3>5. i + 1 \in DOMAIN m
      BY <1>6, <1>11
    <3>6. up1(i) = i + 1
      BY <1>6, <2>3
    <3>2. l[i] = q[i - Len(x)]
      BY <1>4, <3>1
    <3>3. m[i + 1] = q[i + 1 - Len(y)]
      BY <1>5, <3>1
    <3>4. QED
      BY <3>1, <3>2, <3>3, <3>5, <3>6
  <2>4. QED
    BY <1>6, <2>1, <2>2, <2>3
<1>8. \A i, j \in DOMAIN l : i < j => up1(i) < up1(j)
  BY <1>6, <1>11
<1> HIDE DEF up1
<1>9. Thins(l, m)
  BY <1>7, <1>8, <1>11 DEF Thins
<1>10. QED
  BY <1>9 DEF l, m, x, y, t

\* The head of the second queue moves to the end of the first.
LEMMA MoveHead ==
  ASSUME NEW g \in Seq(Nat), NEW d \in Seq(Nat), d # <<>>
  PROVE  Append(g, Head(d)) \o Tail(d) = g \o d
<1>1. /\ Len(g) \in Nat /\ Len(d) \in Nat \ {0}
      /\ Head(d) \in Nat /\ Tail(d) \in Seq(Nat) /\ Len(Tail(d)) = Len(d) - 1
      /\ Append(g, Head(d)) \in Seq(Nat) /\ Len(Append(g, Head(d))) = Len(g) + 1
  OBVIOUS
<1>2. /\ Append(g, Head(d)) \o Tail(d) \in Seq(Nat) /\ g \o d \in Seq(Nat)
      /\ Len(Append(g, Head(d)) \o Tail(d)) = Len(g) + Len(d) /\ Len(g \o d) = Len(g) + Len(d)
  BY <1>1
<1>3. ASSUME NEW i \in 1 .. Len(g) + Len(d)
      PROVE  (Append(g, Head(d)) \o Tail(d))[i] = (g \o d)[i]
  <2>1. CASE i <= Len(g)
    BY <1>1, <2>1
  <2>2. CASE i = Len(g) + 1
    BY <1>1, <2>2
  <2>3. CASE i > Len(g) + 1
    <3>1. (Append(g, Head(d)) \o Tail(d))[i] = Tail(d)[i - (Len(g) + 1)]
      BY <1>1, <2>3
    <3>2. Tail(d)[i - (Len(g) + 1)] = d[i - Len(g)]
      BY <1>1, <2>3
    <3>3. QED
      BY <1>1, <2>3, <3>1, <3>2
  <2>4. QED
    BY <1>1, <2>1, <2>2, <2>3
<1>4. QED
  BY <1>2, <1>3, SeqEqual

\* An element at the end of the last queue is at the end of all.
LEMMA AppendLast ==
  ASSUME NEW p \in Seq(Nat), NEW q \in Seq(Nat), NEW n \in Nat
  PROVE  p \o Append(q, n) = Append(p \o q, n)
<1>1. /\ p \o Append(q, n) \in Seq(Nat) /\ Append(p \o q, n) \in Seq(Nat)
      /\ Len(p) \in Nat /\ Len(q) \in Nat
      /\ Len(p \o Append(q, n)) = Len(p) + Len(q) + 1
      /\ Len(Append(p \o q, n)) = Len(p) + Len(q) + 1
  OBVIOUS
<1>2. ASSUME NEW i \in 1 .. Len(p) + Len(q) + 1
      PROVE  (p \o Append(q, n))[i] = Append(p \o q, n)[i]
  BY <1>1
<1>3. QED
  BY <1>1, <1>2, SeqEqual

LEMMA OrderedThins ==
  ASSUME NEW l \in Seq(Nat), NEW k \in Nat, NEW p \in Seq(UpFrame), Ordered(l, p, k),
         NEW l2 \in Seq(Nat), Thins(l2, l)
  PROVE  Ordered(l2, p, k)
BY DEF Ordered, Thins

\* A send, whether its frame is kept or not.
LEMMA OrderedSend ==
  ASSUME NEW l \in Seq(Nat), NEW k \in Nat, NEW p \in Seq(UpFrame), Ordered(l, p, k),
         NEW f \in UpFrame, f.type = "send" => f.n = k + 1
  PROVE  Ordered(l, p, k + 1) /\ Ordered(l, Append(p, f), IF f.type = "send" THEN k + 1 ELSE k)
<1>1. /\ Len(p) \in Nat /\ DOMAIN p = 1 .. Len(p) /\ DOMAIN l = 1 .. Len(l) /\ Len(l) \in Nat
      /\ DOMAIN Append(p, f) = 1 .. Len(p) + 1
      /\ \A i \in DOMAIN p : Append(p, f)[i] = p[i]
      /\ Append(p, f)[Len(p) + 1] = f
  OBVIOUS
<1>2. /\ \A i \in DOMAIN l : l[i] \in Nat
      /\ \A i \in DOMAIN p : p[i].n \in Nat
  <2>1. \A i \in DOMAIN p : p[i] \in UpFrame
    OBVIOUS
  <2>2. QED
    BY <2>1 DEF UpFrame
<1>3. Ordered(l, p, k + 1)
  BY <1>1, <1>2 DEF Ordered
<1>4. \A i \in DOMAIN Append(p, f) : IsSend(Append(p, f), i) =>
         (i \in DOMAIN p /\ IsSend(p, i)) \/ (i = Len(p) + 1 /\ f.type = "send")
  BY <1>1 DEF IsSend
<1>5. Ordered(l, Append(p, f), IF f.type = "send" THEN k + 1 ELSE k)
  BY <1>1, <1>2, <1>4 DEF Ordered
<1>6. QED
  BY <1>3, <1>5

\* A hello goes out before the queue.
LEMMA OrderedHello ==
  ASSUME NEW l \in Seq(Nat), NEW k \in Nat, NEW p \in Seq(UpFrame), Ordered(l, p, k),
         NEW f \in UpFrame, f.type # "send"
  PROVE  Ordered(l, <<f>> \o p, k)
<1>1. /\ Len(p) \in Nat /\ DOMAIN p = 1 .. Len(p) /\ DOMAIN l = 1 .. Len(l) /\ Len(l) \in Nat
      /\ DOMAIN (<<f>> \o p) = 1 .. Len(p) + 1
      /\ \A i \in DOMAIN p : (<<f>> \o p)[i + 1] = p[i]
      /\ (<<f>> \o p)[1] = f
  OBVIOUS
<1>2. \A i \in DOMAIN (<<f>> \o p) : IsSend(<<f>> \o p, i) =>
         i - 1 \in DOMAIN p /\ IsSend(p, i - 1) /\ (<<f>> \o p)[i] = p[i - 1]
  BY <1>1 DEF IsSend
<1> DEFINE q == <<f>> \o p
<1>3. \A i, j \in DOMAIN q : i < j => i - 1 < j - 1
  BY <1>1
<1> HIDE DEF q
<1>4. /\ \A i \in DOMAIN l, j \in DOMAIN q : IsSend(q, j) => l[i] < q[j].n
      /\ \A j \in DOMAIN q : IsSend(q, j) => q[j].n <= k
  BY <1>2 DEF Ordered, q
<1>5. \A i, j \in DOMAIN q : i < j /\ IsSend(q, i) /\ IsSend(q, j) => q[i].n < q[j].n
  BY <1>2, <1>3 DEF Ordered, q
<1>6. QED
  BY <1>4, <1>5 DEF Ordered, q

\* The frames that are left of a socket that ended.
LEMMA OrderedPrefix ==
  ASSUME NEW l \in Seq(Nat), NEW k \in Nat, NEW p \in Seq(UpFrame), Ordered(l, p, k),
         NEW m \in 0 .. Len(p)
  PROVE  Ordered(l, SubSeq(p, 1, m), k)
<1>1. /\ DOMAIN SubSeq(p, 1, m) = 1 .. m /\ DOMAIN p = 1 .. Len(p)
      /\ \A i \in 1 .. m : SubSeq(p, 1, m)[i] = p[i]
  OBVIOUS
<1>2. \A i \in 1 .. m : i \in DOMAIN p /\ (IsSend(SubSeq(p, 1, m), i) => IsSend(p, i))
  BY <1>1 DEF IsSend
<1>3. QED
  BY <1>1, <1>2 DEF Ordered

\* The server takes a frame, and keeps its payload or loses it.
LEMMA OrderedTake ==
  ASSUME NEW l \in Seq(Nat), NEW k \in Nat, NEW p \in Seq(UpFrame), Ordered(l, p, k),
         p # <<>>
  PROVE  /\ Ordered(l, Tail(p), k)
         /\ Head(p).type = "send" => Ordered(Append(l, Head(p).n), Tail(p), k)
<1> DEFINE n == Head(p).n
<1>1. /\ Len(p) \in Nat \ {0} /\ DOMAIN p = 1 .. Len(p) /\ DOMAIN l = 1 .. Len(l)
      /\ Len(l) \in Nat /\ DOMAIN Tail(p) = 1 .. Len(p) - 1 /\ Head(p) = p[1]
      /\ \A i \in DOMAIN Tail(p) : Tail(p)[i] = p[i + 1]
  OBVIOUS
<1>2. \A i \in DOMAIN Tail(p) : IsSend(Tail(p), i) => i + 1 \in DOMAIN p /\ IsSend(p, i + 1)
  BY <1>1 DEF IsSend
<1>3. Ordered(l, Tail(p), k)
  BY <1>1, <1>2 DEF Ordered
<1>4. ASSUME Head(p).type = "send" PROVE Ordered(Append(l, n), Tail(p), k)
  <2>1. IsSend(p, 1) /\ n \in Nat
    <3>1. p[1] \in UpFrame
      BY <1>1
    <3>2. QED
      BY <1>1, <1>4, <3>1 DEF IsSend, UpFrame
  <2>2. /\ DOMAIN Append(l, n) = 1 .. Len(l) + 1
        /\ \A i \in DOMAIN l : Append(l, n)[i] = l[i]
        /\ Append(l, n)[Len(l) + 1] = n
    BY <1>1, <2>1
  <2>3. /\ \A i \in DOMAIN l : l[i] < n
        /\ \A i \in DOMAIN Tail(p) : IsSend(Tail(p), i) => n < Tail(p)[i].n
        /\ n <= k
    <3>1. 1 \in DOMAIN p /\ p[1].n = n
      BY <1>1
    <3>2. \A i \in DOMAIN p : 1 < i /\ IsSend(p, i) => n < p[i].n
      BY <2>1, <3>1 DEF Ordered
    <3>3. \A i \in DOMAIN Tail(p) : i \in Nat /\ 1 < i + 1
      BY <1>1
    <3>4. (\A i \in DOMAIN l : l[i] < n) /\ n <= k
      BY <2>1, <3>1 DEF Ordered
    <3>5. ASSUME NEW i \in DOMAIN Tail(p), IsSend(Tail(p), i) PROVE n < Tail(p)[i].n
      <4>1. i + 1 \in DOMAIN p /\ IsSend(p, i + 1) /\ Tail(p)[i] = p[i + 1] /\ 1 < i + 1
        BY <1>1, <1>2, <3>3, <3>5
      <4>2. n < p[i + 1].n
        BY <3>2, <4>1
      <4>3. QED
        BY <4>1, <4>2
    <3>6. QED
      BY <3>4, <3>5
  <2> HIDE DEF n
  <2>4. QED
    BY <1>1, <1>3, <2>1, <2>2, <2>3 DEF Ordered
<1>5. QED
  BY <1>3, <1>4

LEMMA WholeSend ==
  ASSUME NEW l \in Seq(Nat), NEW k \in Nat, NEW p \in Seq(UpFrame), NEW live \in BOOLEAN,
         Whole(l, p, k, live), NEW f \in UpFrame
  PROVE  /\ Whole(l, p, k + 1, FALSE)
         /\ f.type # "send" => Whole(l, Append(p, f), k, live)
         /\ f.type = "send" /\ f.n = k + 1 /\ live => Whole(l, Append(p, f), k + 1, live)
<1> DEFINE q == Append(p, f)
<1>1. /\ Len(p) \in Nat /\ DOMAIN p = 1 .. Len(p) /\ Len(l) \in Nat
      /\ DOMAIN q = 1 .. Len(p) + 1 /\ Len(q) = Len(p) + 1
      /\ \A i \in DOMAIN p : q[i] = p[i]
      /\ q[Len(p) + 1] = f
  OBVIOUS
<1> HIDE DEF q
<1>2. \A i \in DOMAIN p : IsSend(p, i) <=> IsSend(q, i)
  BY <1>1 DEF IsSend
<1>3. IsSend(q, Len(p) + 1) <=> f.type = "send"
  BY <1>1 DEF IsSend
<1>4. ASSUME NEW j \in 0 .. Len(p), NEW n, Before(p, j, Len(l), n) PROVE Before(q, j, Len(l), n)
  <2>1. \A i \in 1 .. j : i \in DOMAIN p
    BY <1>1
  <2>2. \A i \in 1 .. j : IsSend(p, i) => IsSend(q, i) /\ q[i] = p[i]
    BY <1>1, <1>2, <2>1
  <2>3. QED
    BY <1>4, <2>2 DEF Before
<1>5. ASSUME NEW j \in DOMAIN p, IsSend(q, j)
      PROVE  q[j].n > Len(l) /\ Before(q, j - 1, Len(l), q[j].n - 1)
  <2>1. p[j].n > Len(l) /\ Before(p, j - 1, Len(l), p[j].n - 1)
    BY <1>2, <1>5 DEF Whole
  <2>2. j - 1 \in 0 .. Len(p) /\ q[j] = p[j]
    BY <1>1
  <2>3. QED
    BY <1>4, <2>1, <2>2
<1>6. Whole(l, p, k + 1, FALSE)
  BY <1>1 DEF Whole
<1>7. ASSUME f.type # "send" PROVE Whole(l, q, k, live)
  <2>1. \A j \in DOMAIN q : IsSend(q, j) => j \in DOMAIN p
    BY <1>1, <1>3, <1>7 DEF IsSend
  <2>2. ASSUME live PROVE Before(q, Len(q), Len(l), k)
    <3>1. Before(p, Len(p), Len(l), k)
      BY <2>2 DEF Whole
    <3>2. QED
      BY <1>1, <1>2, <3>1 DEF Before
  <2>3. QED
    BY <1>5, <2>1, <2>2 DEF Whole
<1>8. ASSUME f.type = "send", f.n = k + 1, live PROVE Whole(l, q, k + 1, live)
  <2>1. Before(p, Len(p), Len(l), k) /\ Len(l) <= k
    BY <1>8 DEF Whole
  <2>2. Before(q, Len(p), Len(l), k)
    BY <1>1, <1>4, <2>1
  <2>3. ASSUME NEW j \in DOMAIN q, IsSend(q, j)
        PROVE  q[j].n > Len(l) /\ Before(q, j - 1, Len(l), q[j].n - 1)
    <3>1. CASE j = Len(p) + 1
      <4>1. q[j].n = k + 1 /\ j - 1 = Len(p) /\ q[j].n - 1 = k
        BY <1>1, <1>8, <3>1
      <4>2. QED
        BY <1>1, <2>1, <2>2, <4>1
    <3>2. QED
      BY <1>1, <1>5, <2>3, <3>1
  <2>4. Before(q, Len(q), Len(l), k + 1)
    <3>1. ASSUME NEW m \in Len(l) + 1 .. k + 1
          PROVE  \E i \in 1 .. Len(q) : IsSend(q, i) /\ q[i].n = m
      <4>1. CASE m = k + 1
        BY <1>1, <1>3, <1>8, <4>1
      <4>2. CASE m # k + 1
        <5>1. m \in Len(l) + 1 .. k
          BY <1>1, <4>2
        <5>2. QED
          BY <1>1, <2>2, <5>1 DEF Before
      <4>3. QED
        BY <4>1, <4>2
    <3>2. QED
      BY <3>1 DEF Before
  <2>5. QED
    BY <1>1, <2>1, <2>3, <2>4 DEF Whole
<1>9. QED
  BY <1>6, <1>7, <1>8 DEF q

LEMMA WholeHello ==
  ASSUME NEW l \in Seq(Nat), NEW k \in Nat, NEW p \in Seq(UpFrame), NEW live \in BOOLEAN,
         Whole(l, p, k, live), NEW f \in UpFrame, f.type # "send"
  PROVE  Whole(l, <<f>> \o p, k, live)
<1> DEFINE q == <<f>> \o p
<1>1. /\ Len(p) \in Nat /\ DOMAIN p = 1 .. Len(p) /\ Len(l) \in Nat
      /\ DOMAIN q = 1 .. Len(p) + 1 /\ Len(q) = Len(p) + 1
      /\ \A i \in DOMAIN p : q[i + 1] = p[i]
      /\ q[1] = f
  OBVIOUS
<1> HIDE DEF q
<1>2. \A i \in DOMAIN q : IsSend(q, i) =>
         i - 1 \in DOMAIN p /\ IsSend(p, i - 1) /\ q[i] = p[i - 1]
  <2> SUFFICES ASSUME NEW i \in DOMAIN q, IsSend(q, i)
               PROVE  i - 1 \in DOMAIN p /\ IsSend(p, i - 1) /\ q[i] = p[i - 1]
    OBVIOUS
  <2>1. i # 1
    BY <1>1 DEF IsSend
  <2>2. i - 1 \in DOMAIN p /\ i = (i - 1) + 1
    BY <1>1, <2>1
  <2>3. q[i] = p[i - 1]
    BY <1>1, <2>2
  <2>4. QED
    BY <2>2, <2>3 DEF IsSend
<1>3. \A i \in DOMAIN p : IsSend(p, i) => IsSend(q, i + 1) /\ q[i + 1] = p[i]
  BY <1>1 DEF IsSend
<1>4. ASSUME NEW j \in 0 .. Len(p), NEW n, Before(p, j, Len(l), n)
      PROVE  Before(q, j + 1, Len(l), n)
  <2>1. \A i \in 1 .. j : i \in DOMAIN p /\ i + 1 \in 1 .. j + 1
    BY <1>1
  <2>2. QED
    BY <1>3, <1>4, <2>1 DEF Before
<1>5. ASSUME NEW j \in DOMAIN q, IsSend(q, j)
      PROVE  q[j].n > Len(l) /\ Before(q, j - 1, Len(l), q[j].n - 1)
  <2>1. j - 1 \in DOMAIN p /\ IsSend(p, j - 1) /\ q[j] = p[j - 1]
    BY <1>2, <1>5
  <2>2. q[j].n > Len(l) /\ Before(p, j - 1 - 1, Len(l), q[j].n - 1)
    BY <2>1 DEF Whole
  <2>3. j - 1 - 1 \in 0 .. Len(p) /\ j - 1 - 1 + 1 = j - 1
    BY <1>1, <2>1
  <2>4. QED
    BY <1>4, <2>2, <2>3
<1>6. ASSUME live PROVE Before(q, Len(q), Len(l), k)
  <2>1. Before(p, Len(p), Len(l), k)
    BY <1>6 DEF Whole
  <2>2. QED
    BY <1>1, <1>4, <2>1
<1>7. QED
  BY <1>5, <1>6 DEF Whole, q

LEMMA WholePrefix ==
  ASSUME NEW l \in Seq(Nat), NEW k \in Nat, NEW p \in Seq(UpFrame), NEW live \in BOOLEAN,
         Whole(l, p, k, live), NEW m \in 0 .. Len(p)
  PROVE  Whole(l, SubSeq(p, 1, m), k, FALSE)
<1> DEFINE q == SubSeq(p, 1, m)
<1>1. /\ DOMAIN q = 1 .. m /\ DOMAIN p = 1 .. Len(p) /\ Len(p) \in Nat
      /\ \A i \in 1 .. m : q[i] = p[i]
  OBVIOUS
<1> HIDE DEF q
<1>2. \A i \in 1 .. m : i \in DOMAIN p /\ (IsSend(q, i) <=> IsSend(p, i))
  BY <1>1 DEF IsSend
<1>3. ASSUME NEW j \in DOMAIN q, IsSend(q, j)
      PROVE  q[j].n > Len(l) /\ Before(q, j - 1, Len(l), q[j].n - 1)
  <2>1. q[j] = p[j] /\ q[j].n > Len(l) /\ Before(p, j - 1, Len(l), q[j].n - 1)
    BY <1>1, <1>2, <1>3 DEF Whole
  <2>2. \A i \in 1 .. j - 1 : i \in 1 .. m
    BY <1>1
  <2>3. QED
    BY <1>1, <1>2, <2>1, <2>2 DEF Before
<1>4. QED
  BY <1>3 DEF Whole, q

\* The payload taken is the next one.
LEMMA WholeTake ==
  ASSUME NEW l \in Seq(Nat), NEW k \in Nat, NEW p \in Seq(UpFrame), NEW live \in BOOLEAN,
         Whole(l, p, k, live), Ordered(l, p, k), p # <<>>
  PROVE  /\ Head(p).type # "send" => Whole(l, Tail(p), k, live)
         /\ Head(p).type = "send" =>
               Head(p).n = Len(l) + 1 /\ Whole(Append(l, Head(p).n), Tail(p), k, live)
<1> DEFINE n == Head(p).n
           q == Tail(p)
<1>1. /\ Len(p) \in Nat \ {0} /\ DOMAIN p = 1 .. Len(p) /\ DOMAIN l = 1 .. Len(l)
      /\ Len(l) \in Nat /\ DOMAIN q = 1 .. Len(p) - 1 /\ Len(q) = Len(p) - 1 /\ Head(p) = p[1]
      /\ \A i \in DOMAIN q : q[i] = p[i + 1]
  OBVIOUS
<1>2. \A i \in DOMAIN p : p[i].n \in Nat
  <2>1. \A i \in DOMAIN p : p[i] \in UpFrame
    OBVIOUS
  <2>2. QED
    BY <2>1 DEF UpFrame
<1> HIDE DEF q
<1>3. \A i \in DOMAIN q : i + 1 \in DOMAIN p /\ (IsSend(q, i) <=> IsSend(p, i + 1))
  BY <1>1 DEF IsSend
\* What came before the j-th frame of p, except the head, comes before the frame
\* in q.
<1>4. ASSUME NEW b \in {Len(l), Len(l) + 1}, NEW j \in 1 .. Len(p), NEW e,
             Before(p, j, Len(l), e), IsSend(p, 1) => p[1].n <= b
      PROVE  Before(q, j - 1, b, e)
  <2>1. ASSUME NEW m \in b + 1 .. e
        PROVE  \E i \in 1 .. j - 1 : IsSend(q, i) /\ q[i].n = m
    <3>1. m \in Len(l) + 1 .. e
      BY <1>1
    <3>2. PICK i \in 1 .. j : IsSend(p, i) /\ p[i].n = m
      BY <1>4, <3>1 DEF Before
    <3>3. i # 1
      BY <1>1, <1>4, <3>2
    <3>4. i - 1 \in 1 .. j - 1 /\ i - 1 \in DOMAIN q /\ i - 1 + 1 = i
      BY <1>1, <3>3
    <3>5. q[i - 1] = p[i] /\ IsSend(q, i - 1)
      BY <1>1, <1>3, <3>2, <3>4
    <3>6. QED
      BY <3>2, <3>4, <3>5
  <2>2. QED
    BY <2>1 DEF Before
<1>5. ASSUME NEW b \in {Len(l), Len(l) + 1}, IsSend(p, 1) => p[1].n <= b,
             NEW j \in DOMAIN q, IsSend(q, j)
      PROVE  Before(q, j - 1, b, q[j].n - 1)
  <2>1. j + 1 \in DOMAIN p /\ IsSend(p, j + 1) /\ q[j] = p[j + 1] /\ j + 1 - 1 = j /\ j \in 1 .. Len(p)
    BY <1>1, <1>3, <1>5
  <2>2. Before(p, j, Len(l), q[j].n - 1)
    BY <2>1 DEF Whole
  <2>3. QED
    BY <1>4, <1>5, <2>1, <2>2
<1>6. ASSUME NEW b \in {Len(l), Len(l) + 1}, IsSend(p, 1) => p[1].n <= b, live
      PROVE  Before(q, Len(q), b, k)
  <2>1. Before(p, Len(p), Len(l), k) /\ Len(p) \in 1 .. Len(p)
    BY <1>1, <1>6 DEF Whole
  <2>2. QED
    BY <1>1, <1>4, <1>6, <2>1
<1>7. ASSUME Head(p).type # "send" PROVE Whole(l, q, k, live)
  <2>1. ~IsSend(p, 1)
    BY <1>1, <1>7 DEF IsSend
  <2>2. \A j \in DOMAIN q : IsSend(q, j) => q[j].n > Len(l)
    BY <1>1, <1>3 DEF Whole
  <2>3. QED
    BY <1>5, <1>6, <2>1, <2>2 DEF Whole
<1>8. ASSUME Head(p).type = "send"
      PROVE  n = Len(l) + 1 /\ Whole(Append(l, n), q, k, live)
  <2>1. IsSend(p, 1) /\ n = p[1].n /\ n \in Nat /\ 1 \in DOMAIN p
    BY <1>1, <1>2, <1>8 DEF IsSend
  <2>2. n > Len(l) /\ Before(p, 0, Len(l), n - 1)
    <3>1. 1 - 1 = 0
      OBVIOUS
    <3>2. QED
      BY <2>1, <3>1 DEF Whole
  <2>3. n = Len(l) + 1
    <3>1. CASE n > Len(l) + 1
      <4>1. Len(l) + 1 \in Len(l) + 1 .. n - 1
        BY <1>1, <2>1, <3>1
      <4>2. \E i \in 1 .. 0 : IsSend(p, i)
        BY <2>2, <4>1 DEF Before
      <4>3. QED
        BY <4>2
    <3>2. QED
      BY <1>1, <2>1, <2>2, <3>1
  <2>4. \A j \in DOMAIN q : IsSend(q, j) => q[j].n > Len(l) + 1
    <3>1. ASSUME NEW j \in DOMAIN q, IsSend(q, j) PROVE q[j].n > n
      <4>1. j + 1 \in DOMAIN p /\ IsSend(p, j + 1) /\ 1 < j + 1 /\ q[j] = p[j + 1]
        BY <1>1, <1>3, <3>1
      <4>2. p[1].n < p[j + 1].n
        BY <2>1, <4>1 DEF Ordered
      <4>3. QED
        BY <1>2, <2>1, <4>1, <4>2
    <3>2. QED
      BY <2>3, <3>1
  <2>5. Len(l) + 1 <= k
    BY <2>1, <2>3 DEF Ordered
  <2>6. /\ Len(Append(l, n)) = Len(l) + 1
        /\ \A i \in DOMAIN Append(l, n) : Append(l, n)[i] = i
    <3>1. /\ DOMAIN Append(l, n) = 1 .. Len(l) + 1 /\ Len(Append(l, n)) = Len(l) + 1
          /\ \A i \in DOMAIN l : Append(l, n)[i] = l[i]
          /\ Append(l, n)[Len(l) + 1] = n
      BY <2>1
    <3>2. \A i \in DOMAIN l : l[i] = i
      BY DEF Whole
    <3> HIDE DEF n
    <3>3. QED
      BY <1>1, <2>3, <3>1, <3>2
  <2>7. p[1].n <= Len(l) + 1
    BY <1>1, <2>1, <2>3
  <2> HIDE DEF n
  <2>8. \A j \in DOMAIN q : IsSend(q, j) => Before(q, j - 1, Len(l) + 1, q[j].n - 1)
    BY <1>5, <2>7
  <2>9. live => Before(q, Len(q), Len(l) + 1, k)
    BY <1>6, <2>7
  <2>10. QED
    BY <2>3, <2>4, <2>5, <2>6, <2>8, <2>9 DEF Whole
<1>9. QED
  BY <1>7, <1>8 DEF q

----------------------------------------------------------------------------
(* What a step does to the queues of a side. *)

LEMMA LineTypes ==
  ASSUME QueueTypes, NEW s \in Side
  PROVE  /\ Handled(s) \in Seq(Nat) /\ Stream(s) \in Seq(Nat) /\ Line(s) \in Seq(Nat)
         /\ server = "broker" => Line(s) = Stream(s) \o queue[s]
         /\ Pending(s) \in Seq(UpFrame)
<1>1. /\ got[s] \in Seq(Nat) /\ backlog[s] \in Seq(Nat) /\ down[s] \in Seq(Nat)
      /\ queue[s] \in Seq(Nat) /\ outQ[s] \in Seq(UpFrame) /\ up[s] \in Seq(UpFrame)
  BY DEF QueueTypes
<1>2. Handled(s) \in Seq(Nat)
  BY <1>1 DEF Handled
<1>3. Stream(s) \in Seq(Nat)
  BY <1>1, <1>2 DEF Stream
<1>4. Line(s) \in Seq(Nat)
  BY <1>1, <1>3 DEF Line, Stream
<1>5. QED
  BY <1>1, <1>2, <1>3, <1>4 DEF Line, Stream, Pending

\* A message event hands the oldest message over; a full backlog or a mailbox
\* that is dead loses one.
LEMMA ReceiveStream ==
  ASSUME QueueTypes, FlagTypes, ClientInv, NEW s \in Side, Receive(s)
  PROVE  /\ alive[s] /\ ~dropped'[s] =>
                /\ Stream(s)' = Stream(s)
                /\ Handled(s)' = Append(Handled(s), Head(down[s]))
         /\ ~alive[s] => Handled(s)' = Handled(s)
         /\ Stream(s)' # Stream(s) => ~alive'[s] \/ dropped'[s]
         /\ \A q \in Seq(Nat) : Stream(s)' \o q = Stream(s) \o q
                                \/ Thins(Stream(s)' \o q, Stream(s) \o q)
<1> DEFINE g == got[s]
           b == backlog[s]
           d == down[s]
           h == Head(down[s])
<1>1. /\ g \in Seq(Nat) /\ b \in Seq(Nat) /\ d \in Seq(Nat) /\ d # <<>>
      /\ h \in Nat /\ Tail(d) \in Seq(Nat) /\ Handled(s) \in Seq(Nat)
  <2>1. g \in Seq(Nat) /\ b \in Seq(Nat) /\ d \in Seq(Nat) /\ d # <<>>
    BY DEF QueueTypes, Receive
  <2>2. QED
    BY <2>1 DEF Handled
<1>2. down'[s] = Tail(d) /\ alive' = alive
  BY DEF Receive, QueueTypes
<1>3. CASE alive[s] /\ listening[s]
  <2>1. b = <<>> /\ backlog'[s] = <<>> /\ got'[s] = Append(g, h)
    <3>1. b = <<>>
      BY <1>3 DEF ClientInv
    <3>2. backlog' = backlog /\ got'[s] = Append(g, h)
      BY <1>3 DEF Receive, Emit, QueueTypes
    <3>3. QED
      BY <3>1, <3>2
  <2>2. Handled(s)' = Append(g, h) /\ Handled(s) = g
    BY <1>1, <2>1 DEF Handled
  <2>3. Stream(s)' = Stream(s)
    BY <1>1, <1>2, <2>2, MoveHead DEF Stream
  <2>4. QED
    BY <1>3, <2>2, <2>3
<1>4. CASE alive[s] /\ ~listening[s] /\ Len(b) < BacklogMax
  <2>1. backlog'[s] = Append(b, h) /\ got'[s] = g
    <3>1. Len(b) # BacklogMax
      BY <1>1, <1>4, LimitsAreNat
    <3>2. backlog' = [backlog EXCEPT ![s] = Append(@, h)] /\ got' = got
      BY <1>4, <3>1 DEF Receive, Emit
    <3>3. QED
      BY <3>2 DEF QueueTypes
  <2>2. Handled(s)' = Append(Handled(s), h)
    <3>1. g \o Append(b, h) = Append(g \o b, h)
      BY <1>1, AppendLast
    <3>2. QED
      BY <2>1, <3>1 DEF Handled
  <2>3. Stream(s)' = Stream(s)
    BY <1>1, <1>2, <2>2, MoveHead DEF Stream
  <2>4. QED
    BY <1>4, <2>2, <2>3
<1>5. CASE alive[s] /\ ~listening[s] /\ Len(b) = BacklogMax
  <2>1. backlog'[s] = Append(Tail(b), h) /\ got'[s] = g /\ dropped'[s]
    <3>1. /\ backlog' = [backlog EXCEPT ![s] = Append(Tail(@), h)]
          /\ dropped' = [dropped EXCEPT ![s] = TRUE] /\ got' = got
      BY <1>5 DEF Receive, Emit
    <3>2. QED
      BY <3>1 DEF QueueTypes, FlagTypes
  <2>2. b # <<>> /\ Tail(b) \in Seq(Nat)
    BY <1>1, <1>5, LimitsAreNat
  <2>3. Stream(s)' = (g \o Tail(b)) \o d
    <3>4. g \o Append(Tail(b), h) = Append(g \o Tail(b), h)
      BY <1>1, <2>2, AppendLast
    <3>1. Handled(s)' = Append(g \o Tail(b), h)
      BY <2>1, <3>4 DEF Handled
    <3>2. g \o Tail(b) \in Seq(Nat)
      BY <1>1, <2>2
    <3>3. QED
      BY <1>1, <1>2, <3>1, <3>2, MoveHead DEF Stream
  <2>4. Stream(s) = (g \o b) \o d
    BY DEF Stream, Handled
  <2>5. ASSUME NEW q \in Seq(Nat) PROVE Thins(Stream(s)' \o q, Stream(s) \o q)
    <3>1. /\ g \o Tail(b) \in Seq(Nat) /\ g \o b \in Seq(Nat) /\ d \o q \in Seq(Nat)
      BY <1>1, <2>2, <2>5
    <3>2. /\ ((g \o Tail(b)) \o d) \o q = (g \o Tail(b)) \o (d \o q)
          /\ ((g \o b) \o d) \o q = (g \o b) \o (d \o q)
      <4>1. d \in Seq(Nat) /\ q \in Seq(Nat)
        BY <1>1, <2>5
      <4> HIDE DEF d
      <4>2. \A r \in Seq(Nat) : (r \o d) \o q = r \o (d \o q)
        BY <4>1, Associative, Zenon
      <4>3. QED
        BY <3>1, <4>2, Zenon
    <3>3. QED
      BY <1>1, <2>2, <2>3, <2>4, <3>1, <3>2, ThinsMiddle
  <2>6. QED
    BY <1>5, <2>1, <2>5
<1>6. CASE ~alive[s]
  <2>1. backlog' = backlog /\ got' = got
    BY <1>6 DEF Receive
  <2>2. Handled(s)' = Handled(s) /\ Stream(s)' = Handled(s) \o Tail(d) /\ Stream(s) = Handled(s) \o d
    BY <1>2, <2>1 DEF Handled, Stream
  <2>3. ASSUME NEW q \in Seq(Nat) PROVE Thins(Stream(s)' \o q, Stream(s) \o q)
    BY <1>1, <2>2, <2>3, ThinsMiddle
  <2>4. QED
    BY <1>2, <1>6, <2>2, <2>3
<1>7. QED
  BY <1>3, <1>4, <1>5, <1>6 DEF Receive, Emit

\* Mailboxes do not come back to life, and what fell to a full queue stays lost.
LEMMA Monotone ==
  ASSUME FlagTypes, NEW s \in Side, [Next]_vars
  PROVE  server' = server /\ (alive'[s] => alive[s]) /\ (dropped[s] => dropped'[s])
<1> USE DEF client, socket, broker, seqSrv, bounds, history
<1>1. server' = server
  <2>1. ASSUME NEW x \in Side, Client(x) PROVE server' = server
    BY <2>1 DEF Client, Send, Opened, Receive, Subscribe, Unsubscribe, AppClose, Flap, Reconnect
  <2>2. ASSUME NEW x \in Side, Server(x) PROVE server' = server
    BY <2>2 DEF Server, Accept, ServerReceives, Push, PushAgain, ServerNotices
  <2>3. QED
    BY <2>1, <2>2 DEF Next, vars
<1>2. alive'[s] => alive[s]
  <2>1. ASSUME NEW x \in Side, AppClose(x) \/ Flap(x) PROVE alive'[s] => alive[s]
    BY <2>1 DEF AppClose, Flap, AliveAfterFlap, FlagTypes
  <2>2. QED
    BY <2>1 DEF Next, Client, Server, vars, Send, Opened, Receive, Subscribe, Unsubscribe,
                Reconnect, Accept, ServerReceives, Push, PushAgain, ServerNotices
<1>3. dropped[s] => dropped'[s]
  <2>1. ASSUME NEW x \in Side, Send(x) PROVE dropped[s] => dropped'[s]
    BY <2>1 DEF Send, FlagTypes
  <2>2. ASSUME NEW x \in Side, Receive(x) PROVE dropped[s] => dropped'[s]
    BY <2>2 DEF Receive, Emit, FlagTypes
  <2>3. QED
    BY <2>1, <2>2 DEF Next, Client, Server, vars, Opened, Subscribe, Unsubscribe, AppClose,
                Flap, Reconnect, Accept, ServerReceives, Push, PushAgain, ServerNotices
<1>4. QED
  BY <1>1, <1>2, <1>3

\* The broker's line of a side loses elements only for a reader that is gone or
\* told of the loss.
Thinned(s) ==
    server = "broker" /\ (~alive'[s] \/ dropped'[s]) /\ Thins(Line(s)', Line(s))

LEMMA LineSteps ==
  ASSUME QueueTypes, FlagTypes, ClientInv, NEW s \in Side, [Next]_vars
  PROVE  Line(s)' = Line(s) \/ Thinned(s) \/ ServerReceives(Other(s))
<1> USE DEF client, socket, broker, seqSrv, bounds, history
<1> DEFINE Goal == Line(s)' = Line(s) \/ Thinned(s) \/ ServerReceives(Other(s))
           Keep == /\ got'[s] = got[s] /\ backlog'[s] = backlog[s]
                   /\ down'[s] = down[s] /\ queue'[s] = queue[s]
<1>1. server' = server
  BY Monotone
<1>2. ASSUME Keep PROVE Goal
  BY <1>1, <1>2 DEF Line, Handled
<1>3. /\ got[s] \in Seq(Nat) /\ backlog[s] \in Seq(Nat) /\ down[s] \in Seq(Nat)
      /\ queue[s] \in Seq(Nat) /\ Handled(s) \in Seq(Nat) /\ Stream(s) \in Seq(Nat)
  BY LineTypes DEF QueueTypes
<1>4. ASSUME NEW x \in Side, Receive(x) PROVE Goal
  <2>1. queue' = queue
    BY <1>4 DEF Receive
  <2>2. CASE x # s
    BY <1>2, <1>4, <2>1, <2>2 DEF Receive, Emit, QueueTypes
  <2>3. CASE x = s /\ server = "broker"
    <3>1. Line(s) = Stream(s) \o queue[s] /\ Line(s)' = Stream(s)' \o queue[s]
      BY <1>1, <2>1, <2>3 DEF Line, Stream
    <3>2. CASE Stream(s)' = Stream(s)
      BY <3>1, <3>2
    <3>3. CASE Stream(s)' # Stream(s)
      <4>1. ~alive'[s] \/ dropped'[s]
        BY <1>4, <2>3, <3>3, ReceiveStream
      <4>2. Line(s)' = Line(s) \/ Thins(Line(s)', Line(s))
        BY <1>3, <1>4, <2>3, <3>1, ReceiveStream
      <4>3. QED
        BY <2>3, <4>1, <4>2 DEF Thinned
    <3>4. QED
      BY <3>2, <3>3
  <2>4. CASE server # "broker"
    BY <1>1, <2>1, <2>4 DEF Line
  <2>5. QED
    BY <2>2, <2>3, <2>4
<1>5. ASSUME NEW x \in Side, Subscribe(x) PROVE Goal
  <2>1. CASE x # s
    BY <1>2, <1>5, <2>1 DEF Subscribe, QueueTypes
  <2>2. CASE x = s
    <3>1. got'[s] = got[s] \o backlog[s] /\ backlog'[s] = <<>> /\ UNCHANGED <<down, queue>>
      BY <1>5, <2>2 DEF Subscribe, QueueTypes
    <3>2. Handled(s)' = Handled(s)
      BY <1>3, <3>1 DEF Handled
    <3>3. QED
      BY <1>1, <3>1, <3>2 DEF Line
  <2>3. QED
    BY <2>1, <2>2
<1>6. ASSUME NEW x \in Side, AppClose(x) \/ Flap(x) PROVE Goal
  <2>1. UNCHANGED <<backlog, queue, got>> /\ down' = [down EXCEPT ![x] = <<>>]
    BY <1>6 DEF AppClose, Flap, SocketEnds
  <2>2. CASE x # s \/ conn[s] \notin {"accepted", "open"}
    BY <1>2, <2>1, <2>2 DEF QueueTypes, ClientInv
  <2>3. CASE server # "broker"
    BY <1>1, <2>1, <2>3 DEF Line
  <2>4. CASE x = s /\ conn[s] \in {"accepted", "open"} /\ server = "broker"
    <3>1. queue[s] = <<>> /\ down'[s] = <<>> /\ ~alive'[s]
      <4>1. alive' = [alive EXCEPT ![s] = FALSE]
        BY <1>6, <2>4 DEF AppClose, Flap, AliveAfterFlap
      <4>2. QED
        BY <2>1, <2>4, <4>1 DEF ClientInv, QueueTypes, FlagTypes
    <3>2. Handled(s)' = Handled(s)
      BY <2>1 DEF Handled
    <3>3. Line(s) = Handled(s) \o down[s] /\ Line(s)' = Handled(s)
      BY <1>1, <1>3, <2>1, <2>4, <3>1, <3>2 DEF Line
    <3>4. QED
      BY <1>3, <2>4, <3>1, <3>3, ThinsPrefix DEF Thinned
  <2>5. QED
    BY <2>2, <2>3, <2>4
<1>7. ASSUME NEW x \in Side, Accept(x) PROVE Goal
  <2>1. UNCHANGED <<backlog, got>> /\ (server # "broker" => queue' = queue)
    BY <1>7 DEF Accept
  <2>2. CASE x # s
    BY <1>2, <1>7, <2>1, <2>2 DEF QueueTypes, Accept
  <2>3. CASE server # "broker"
    BY <1>1, <2>1, <2>3 DEF Line
  <2>4. CASE x = s /\ server = "broker"
    <3>1. down[s] = <<>> /\ down'[s] = queue[s] /\ queue'[s] = <<>>
      BY <1>7, <2>4 DEF Accept, ClientInv, QueueTypes
    <3>2. Handled(s)' = Handled(s)
      BY <2>1 DEF Handled
    <3>3. Line(s) = Handled(s) \o queue[s] /\ Line(s)' = Handled(s) \o queue[s]
      BY <1>1, <1>3, <2>4, <3>1, <3>2 DEF Line
    <3>4. QED
      BY <3>3
  <2>5. QED
    BY <2>2, <2>3, <2>4
<1>8. ASSUME NEW x \in Side, ServerReceives(x) PROVE Goal
  <2>1. CASE x = s
    <3>1. Other(s) # s /\ Other(s) \in Side
      BY SideOther
    <3>2. /\ UNCHANGED <<got, backlog>>
          /\ UNCHANGED <<down, queue>> \/ Route(Other(s), Head(up[s]).n)
      BY <1>8, <2>1 DEF ServerReceives
    <3>3. QED
      BY <1>2, <3>1, <3>2 DEF Route, QueueTypes
  <2>2. CASE x # s
    <3>1. x = Other(s)
      BY <2>2 DEF Side, Other
    <3>2. QED
      BY <1>8, <3>1
  <2>3. QED
    BY <2>1, <2>2
<1>9. ASSUME NEW x \in Side, Push(x) PROVE Goal
  <2>1. server # "broker" /\ queue' = queue
    BY <1>9 DEF Push
  <2>2. QED
    BY <1>1, <2>1 DEF Line
<1>10. QED
  BY <1>2, <1>4, <1>5, <1>6, <1>7, <1>8, <1>9
     DEF Next, Client, Server, vars, Send, Opened, Unsubscribe, Reconnect, PushAgain,
         ServerNotices

\* What a step of a side, other than the server's, does to its pending frames.
PendKept(s)   == Pending(s)' = Pending(s) /\ sent'[s] = sent[s] /\ alive'[s] = alive[s]
PendSent(s)   == \E f \in UpFrame : /\ f.type = "send" /\ f.n = sent[s] + 1 /\ sent'[s] = sent[s] + 1
                                    /\ Pending(s)' = Append(Pending(s), f)
                                    /\ alive[s] /\ alive'[s]
PendLost(s)   == /\ Pending(s)' = Pending(s) /\ sent'[s] = sent[s] + 1
                 /\ (~alive[s] /\ ~alive'[s]) \/ dropped'[Other(s)]
PendHello(s)  == \E f \in UpFrame : /\ f.type # "send" /\ Pending(s)' = <<f>> \o Pending(s)
                                    /\ sent'[s] = sent[s] /\ alive'[s] = alive[s]
PendAck(s)    == \E f \in UpFrame : /\ f.type # "send" /\ Pending(s)' = Append(Pending(s), f)
                                    /\ sent'[s] = sent[s] /\ alive'[s] = alive[s]
PendCut(s)    == /\ \E m \in 0 .. Len(Pending(s)) : Pending(s)' = SubSeq(Pending(s), 1, m)
                 /\ sent'[s] = sent[s] /\ ~alive'[s]

LEMMA PendSteps ==
  ASSUME QueueTypes, FlagTypes, CountTypes, ClientInv, NEW s \in Side, [Next]_vars
  PROVE  \/ PendKept(s) \/ PendSent(s) \/ PendLost(s) \/ PendHello(s) \/ PendAck(s)
         \/ PendCut(s) \/ ServerReceives(s)
<1> USE DEF client, socket, broker, seqSrv, bounds, history
<1> DEFINE Goal == \/ PendKept(s) \/ PendSent(s) \/ PendLost(s) \/ PendHello(s) \/ PendAck(s)
                   \/ PendCut(s) \/ ServerReceives(s)
           Keep == /\ up'[s] = up[s] /\ outQ'[s] = outQ[s] /\ alive'[s] = alive[s]
                   /\ conn'[s] = "open" <=> conn[s] = "open"
                   /\ sent'[s] = sent[s]
<1>1. ASSUME Keep PROVE Goal
  BY <1>1 DEF PendKept, Pending
<1>2. /\ up[s] \in Seq(UpFrame) /\ outQ[s] \in Seq(UpFrame) /\ Pending(s) \in Seq(UpFrame)
      /\ sent[s] \in Nat /\ upTo[s] \in Nat
  BY LineTypes DEF QueueTypes, CountTypes
<1>3. ASSUME NEW x \in Side, Send(x) PROVE Goal
  <2>1. CASE x # s
    BY <1>1, <1>3, <2>1 DEF Send, QueueTypes, CountTypes
  <2>2. CASE x = s
    <3> DEFINE f == [type |-> "send", n |-> sent[s] + 1]
    <3>1. f \in UpFrame /\ f.type = "send" /\ f.n = sent[s] + 1
      BY <1>2 DEF UpFrame
    <3>2. sent'[s] = sent[s] + 1 /\ UNCHANGED <<alive, conn>>
      BY <1>3, <2>2 DEF Send, CountTypes
    <3>3. CASE alive[s] /\ conn[s] = "open"
      <4>1. up'[s] = Append(up[s], f)
        BY <1>3, <2>2, <3>3 DEF Send, QueueTypes
      <4>2. Pending(s)' = Append(Pending(s), f)
        BY <3>2, <3>3, <4>1 DEF Pending
      <4>3. QED
        BY <3>1, <3>2, <3>3, <4>2 DEF PendSent
    <3>4. CASE alive[s] /\ conn[s] # "open" /\ outQ'[s] = Append(outQ[s], f)
      <4>1. Pending(s)' = Append(Pending(s), f)
        BY <3>2, <3>4 DEF Pending
      <4>2. QED
        BY <3>1, <3>2, <3>4, <4>1 DEF PendSent
    <3>5. CASE alive[s] /\ dropped'[Other(s)] /\ UNCHANGED <<outQ, up>>
      BY <3>2, <3>5 DEF PendLost, Pending
    <3>6. CASE ~alive[s] /\ UNCHANGED <<outQ, up>>
      BY <3>2, <3>6 DEF PendLost, Pending
    <3> HIDE DEF f
    <3>7. \/ ~alive[s] /\ UNCHANGED <<outQ, up>>
          \/ alive[s] /\ conn[s] = "open"
          \/ alive[s] /\ conn[s] # "open" /\ outQ'[s] = Append(outQ[s], f)
          \/ alive[s] /\ dropped'[Other(s)] /\ UNCHANGED <<outQ, up>>
      <4>1. Other(s) \in Side
        BY SideOther
      <4>2. \/ ~alive[s] /\ UNCHANGED <<outQ, up>>
            \/ alive[s] /\ conn[s] = "open"
            \/ alive[s] /\ conn[s] # "open" /\ outQ' = [outQ EXCEPT ![s] = Append(@, f)]
            \/ /\ alive[s] /\ dropped' = [dropped EXCEPT ![Other(s)] = TRUE]
               /\ UNCHANGED <<outQ, up>>
        BY <1>3, <2>2 DEF Send, f
      <4>3. QED
        BY <4>1, <4>2 DEF QueueTypes, FlagTypes
    <3>8. QED
      BY <3>3, <3>4, <3>5, <3>6, <3>7
  <2>3. QED
    BY <2>1, <2>2
<1>4. ASSUME NEW x \in Side, Opened(x) PROVE Goal
  <2>1. CASE x # s \/ ~alive[s]
    <3>1. alive' = alive /\ sent' = sent
      BY <1>4 DEF Opened
    <3>2. CASE x # s
      BY <1>1, <1>4, <3>2 DEF Opened, QueueTypes, FlagTypes
    <3>3. CASE x = s /\ ~alive[s]
      BY <1>4, <3>1, <3>3 DEF Opened, PendKept, Pending
    <3>4. QED
      BY <2>1, <3>2, <3>3
  <2>2. CASE x = s /\ alive[s]
    <3> DEFINE f == [type |-> "hello", n |-> upTo[s]]
    <3>1. f \in UpFrame /\ f.type # "send"
      BY <1>2 DEF UpFrame
    <3>2. /\ conn[s] # "open" /\ conn'[s] = "open" /\ up[s] = <<>>
          /\ UNCHANGED <<alive, sent>>
      BY <1>4, <2>2 DEF Opened, FlagTypes, ClientInv
    <3>3. up'[s] = Append(<<>>, f) \o outQ[s]
      BY <1>4, <2>2, <3>2 DEF Opened, QueueTypes
    <3>4. Append(<<>>, f) = <<f>>
      OBVIOUS
    <3>5. Pending(s)' = <<f>> \o Pending(s)
      BY <2>2, <3>2, <3>3, <3>4 DEF Pending
    <3> HIDE DEF f
    <3>6. QED
      BY <3>1, <3>2, <3>5 DEF PendHello
  <2>3. QED
    BY <2>1, <2>2
<1>5. ASSUME NEW x \in Side, Receive(x) PROVE Goal
  <2>1. UNCHANGED <<alive, outQ, conn, sent>>
    BY <1>5 DEF Receive
  <2>2. CASE up'[s] = up[s]
    BY <1>1, <2>1, <2>2
  <2>3. CASE up'[s] # up[s]
    <3> DEFINE f == [type |-> "delivered", n |-> Head(down[s])]
    <3>1. x = s /\ alive[s] /\ conn[s] = "open" /\ up'[s] = Append(up[s], f)
      BY <1>5, <2>3 DEF Receive, QueueTypes
    <3>2. f \in UpFrame /\ f.type # "send"
      <4>1. down[s] \in Seq(Nat) /\ down[s] # <<>>
        BY <1>5, <3>1 DEF Receive, QueueTypes
      <4>2. QED
        BY <4>1 DEF UpFrame
    <3>3. Pending(s)' = Append(Pending(s), f)
      BY <2>1, <3>1 DEF Pending
    <3> HIDE DEF f
    <3>4. QED
      BY <2>1, <3>2, <3>3 DEF PendAck
  <2>4. QED
    BY <2>2, <2>3
<1>6. ASSUME NEW x \in Side, AppClose(x) \/ Flap(x) PROVE Goal
  <2>1. UNCHANGED <<outQ, sent>> /\ alive' = [alive EXCEPT ![x] = FALSE]
    BY <1>6 DEF AppClose, Flap, AliveAfterFlap
  <2>2. CASE x # s
    <3>1. conn'[s] = conn[s] /\ up'[s] = up[s]
      BY <1>6, <2>2 DEF AppClose, Flap, SocketEnds, FlagTypes, QueueTypes
    <3>2. QED
      BY <1>1, <2>1, <2>2, <3>1 DEF FlagTypes
  <2>3. CASE x = s
    <3>1. PICK k \in 0 .. Len(up[s]) : up'[s] = SubSeq(up[s], 1, k)
      BY <1>6, <2>3 DEF AppClose, Flap, SocketEnds, QueueTypes
    <3>2. ~alive'[s] /\ Pending(s)' = SubSeq(up[s], 1, k)
      BY <2>1, <2>3, <3>1 DEF Pending, FlagTypes
    <3>3. CASE alive[s] /\ conn[s] # "open"
      <4>1. up[s] = <<>> /\ Len(<<>>) = 0 /\ Len(Pending(s)) \in Nat
        BY <1>2, <3>3 DEF ClientInv
      <4>2. k = 0 /\ 0 \in 0 .. Len(Pending(s))
        BY <3>1, <4>1
      <4>3. SubSeq(up[s], 1, 0) = SubSeq(Pending(s), 1, 0)
        BY SubSeqEmpty, 0 \in Int, 1 \in Int
      <4>4. QED
        BY <2>1, <3>2, <4>2, <4>3 DEF PendCut
    <3>4. CASE ~(alive[s] /\ conn[s] # "open")
      BY <2>1, <3>2, <3>4 DEF PendCut, Pending
    <3>5. QED
      BY <3>3, <3>4
  <2>4. QED
    BY <2>2, <2>3
<1>7. ASSUME NEW x \in Side, Reconnect(x) PROVE Goal
  BY <1>1, <1>7 DEF Reconnect, FlagTypes
<1>8. ASSUME NEW x \in Side, Accept(x) PROVE Goal
  BY <1>1, <1>8 DEF Accept, FlagTypes
<1>9. ASSUME NEW x \in Side, ServerReceives(x) PROVE Goal
  BY <1>1, <1>9 DEF ServerReceives, QueueTypes
<1>10. QED
  BY <1>1, <1>3, <1>4, <1>5, <1>6, <1>7, <1>8, <1>9
     DEF Next, Client, Server, vars, Subscribe, Unsubscribe, Push, PushAgain, ServerNotices

\* The server takes the oldest frame of a side; a payload goes to the end of the
\* other side's line, or to a socket that has ended and is lost.
LEMMA TakeSteps ==
  ASSUME QueueTypes, FlagTypes, CountTypes, RouteInv, ClientInv, NEW s \in Side,
         ServerReceives(Other(s))
  PROVE  LET o == Other(s)
             f == Head(Pending(o))
         IN  /\ Pending(o) # <<>> /\ Pending(o)' = Tail(Pending(o))
             /\ UNCHANGED <<sent, alive, dropped, server>>
             /\ f.type # "send" => Line(s)' = Line(s)
             /\ f.type = "send" => \/ Line(s)' = Append(Line(s), f.n)
                                   \/ server = "broker" /\ ~alive[s] /\ Line(s)' = Line(s)
<1> USE DEF client, bounds, history, seqSrv
<1> DEFINE o == Other(s)
           n == Head(up[o]).n
<1>1. o \in Side /\ o # s /\ Other(o) = s
  BY SideOther
<1>2. /\ UNCHANGED <<client, conn, history, bounds>>
      /\ up[o] # <<>> /\ up' = [up EXCEPT ![o] = Tail(@)]
  BY DEF ServerReceives
<1>3. Pending(o) = up[o] /\ Pending(o)' = Tail(up[o])
  <2>1. ~(alive[o] /\ conn[o] # "open")
    BY <1>1, <1>2 DEF ClientInv
  <2>2. up'[o] = Tail(up[o])
    BY <1>1, <1>2 DEF QueueTypes
  <2>3. QED
    BY <1>2, <2>1, <2>2 DEF Pending
<1>4. Handled(s)' = Handled(s)
  BY <1>2 DEF Handled
<1>5. /\ Head(up[o]).type # "send" => UNCHANGED <<down, queue>>
      /\ Head(up[o]).type = "send" => Route(s, n)
  BY <1>1 DEF ServerReceives
<1>6. ASSUME UNCHANGED <<down, queue>> PROVE Line(s)' = Line(s)
  BY <1>2, <1>4, <1>6 DEF Line
<1>7. ASSUME Head(up[o]).type = "send"
      PROVE  \/ Line(s)' = Append(Line(s), n)
             \/ server = "broker" /\ ~alive[s] /\ Line(s)' = Line(s)
  <2>1. /\ Handled(s) \in Seq(Nat) /\ down[s] \in Seq(Nat) /\ queue[s] \in Seq(Nat)
        /\ Stream(s) \in Seq(Nat)
    BY LineTypes DEF QueueTypes
  <2>2. n \in Nat
    <3>1. Head(up[o]) \in UpFrame
      <4>1. up[o] \in Seq(UpFrame)
        BY <1>1 DEF QueueTypes
      <4>2. QED
        BY <1>2, <4>1
    <3>2. QED
      BY <3>1 DEF UpFrame
  <2>3. Route(s, n)
    BY <1>5, <1>7
  <2> HIDE DEF n
  <2>4. CASE server = "broker" /\ routed[s] # 0 /\ routed[s] \in gone[s] /\ UNCHANGED <<down, queue>>
    <3>1. ~alive[s]
      BY <2>4 DEF ClientInv
    <3>2. QED
      BY <1>6, <2>4, <3>1
  <2>5. CASE /\ server = "broker" /\ routed[s] # 0 /\ routed[s] \notin gone[s]
             /\ down' = [down EXCEPT ![s] = Append(@, n)] /\ UNCHANGED queue
    <3>1. conn[s] \in {"accepted", "open"}
      BY <2>5 DEF RouteInv
    <3>2. queue[s] = <<>> /\ queue'[s] = <<>>
      BY <2>5, <3>1 DEF ClientInv
    <3>3. down'[s] = Append(down[s], n)
      BY <2>5 DEF QueueTypes
    <3>4. Line(s) = Handled(s) \o down[s]
      BY <2>1, <2>5, <3>2 DEF Line
    <3>5. Line(s)' = Handled(s) \o Append(down[s], n)
      <4>1. (Handled(s) \o Append(down[s], n)) \o <<>> = Handled(s) \o Append(down[s], n)
        BY <2>1, <2>2
      <4>2. Line(s)' = (Handled(s)' \o down'[s]) \o queue'[s]
        BY <1>2, <2>5 DEF Line
      <4>3. QED
        BY <1>4, <3>2, <3>3, <4>1, <4>2
    <3>8. Handled(s) \in Seq(Nat) /\ down[s] \in Seq(Nat)
      BY <2>1
    <3>9. Handled(s) \o Append(down[s], n) = Append(Handled(s) \o down[s], n)
      BY <2>2, <3>8, AppendLast, Zenon
    <3>6. Line(s)' = Append(Line(s), n)
      BY <3>4, <3>5, <3>9
    <3>7. QED
      BY <3>6
  <2>6. CASE queue' = [queue EXCEPT ![s] = Append(@, n)] /\ UNCHANGED down
    <3>1. queue'[s] = Append(queue[s], n) /\ down'[s] = down[s] /\ server' = server
      BY <1>2, <2>6 DEF QueueTypes
    <3>2. CASE server = "broker"
      <4>1. Line(s) = Stream(s) \o queue[s] /\ Line(s)' = Stream(s) \o Append(queue[s], n)
        BY <1>4, <3>1, <3>2 DEF Line, Stream
      <4>3. queue[s] \in Seq(Nat) /\ Stream(s) \in Seq(Nat)
        BY <2>1
      <4>2. Stream(s) \o Append(queue[s], n) = Append(Stream(s) \o queue[s], n)
        BY <2>2, <4>3, AppendLast, Zenon
      <4>4. QED
        BY <4>1, <4>2, Zenon
    <3>3. CASE server # "broker"
      BY <3>1, <3>3 DEF Line
    <3>4. QED
      BY <3>2, <3>3
  <2>7. QED
    BY <2>3, <2>4, <2>5, <2>6 DEF Route
<1>8. QED
  BY <1>2, <1>3, <1>5, <1>6, <1>7

----------------------------------------------------------------------------
(* Order. *)

LEMMA LineInit ==
  ASSUME Init, NEW s \in Side
  PROVE  Line(s) = <<>> /\ Pending(s) = <<>> /\ sent[s] = 0 /\ Handled(s) = <<>> /\ Stream(s) = <<>>
<1>1. got[s] = <<>> /\ backlog[s] = <<>> /\ down[s] = <<>> /\ queue[s] = <<>>
      /\ outQ[s] = <<>> /\ up[s] = <<>> /\ sent[s] = 0
  BY DEF Init, All
<1>2. <<>> \o <<>> = <<>>
  OBVIOUS
<1>3. QED
  BY <1>1, <1>2 DEF Line, Handled, Pending, Stream

LEMMA OrderInit == Init => OrderInv
<1> SUFFICES ASSUME Init, NEW s \in Side PROVE Ordered(Line(s), Pending(Other(s)), sent[Other(s)])
  BY DEF OrderInv
<1>1. Ordered(<<>>, <<>>, 0)
  BY DEF Ordered
<1>2. QED
  BY <1>1, LineInit, SideOther

LEMMA LineTypesNext ==
  ASSUME QueueTypes', NEW s \in Side
  PROVE  Handled(s)' \in Seq(Nat) /\ Stream(s)' \in Seq(Nat) /\ Line(s)' \in Seq(Nat)
<1>1. /\ got'[s] \in Seq(Nat) /\ backlog'[s] \in Seq(Nat) /\ down'[s] \in Seq(Nat)
      /\ queue'[s] \in Seq(Nat)
  BY DEF QueueTypes
<1>2. Handled(s)' \in Seq(Nat)
  BY <1>1 DEF Handled
<1>3. Stream(s)' \in Seq(Nat)
  BY <1>1, <1>2 DEF Stream
<1>4. QED
  BY <1>1, <1>2, <1>3 DEF Line, Stream

\* What was handled is the beginning of the broker's line.
LEMMA HandledInLine ==
  ASSUME QueueTypes, server = "broker", NEW s \in Side
  PROVE  \A a \in DOMAIN Handled(s) : a \in DOMAIN Line(s) /\ Line(s)[a] = Handled(s)[a]
<1>1. Handled(s) \in Seq(Nat) /\ down[s] \in Seq(Nat) /\ queue[s] \in Seq(Nat)
  BY LineTypes DEF QueueTypes
<1>2. Line(s) = (Handled(s) \o down[s]) \o queue[s]
  BY DEF Line
<1>3. ASSUME NEW h \in Seq(Nat), NEW d \in Seq(Nat), NEW q \in Seq(Nat), NEW a \in DOMAIN h
      PROVE  a \in DOMAIN ((h \o d) \o q) /\ ((h \o d) \o q)[a] = h[a]
  <2>1. /\ a \in 1 .. Len(h) /\ Len(h) \in Nat /\ Len(d) \in Nat /\ Len(q) \in Nat
        /\ DOMAIN ((h \o d) \o q) = 1 .. Len(h) + Len(d) + Len(q)
    BY <1>3
  <2>2. QED
    BY <2>1
<1>4. \A h, d, q \in Seq(Nat) : \A a \in DOMAIN h :
         a \in DOMAIN ((h \o d) \o q) /\ ((h \o d) \o q)[a] = h[a]
  BY <1>3
<1>5. \A a \in DOMAIN Handled(s) : LET m == (Handled(s) \o down[s]) \o queue[s]
                                    IN  a \in DOMAIN m /\ m[a] = Handled(s)[a]
  BY <1>1, <1>4, Zenon
<1>6. QED
  BY <1>2, <1>5

LEMMA OrderNext ==
  TypeOK /\ RouteInv /\ ClientInv /\ OrderInv /\ [Next]_vars => OrderInv'
<1> SUFFICES ASSUME QueueTypes, FlagTypes, CountTypes, RouteInv, ClientInv, OrderInv,
                    [Next]_vars, QueueTypes', NEW s \in Side
             PROVE  Ordered(Line(s), Pending(Other(s)), sent[Other(s)])'
  BY TypeNext DEF OrderInv, TypeOK, QueueTypes, FlagTypes, CountTypes
<1> DEFINE o == Other(s)
           l == Line(s)
           p == Pending(o)
           k == sent[o]
<1>1. o \in Side /\ Other(o) = s
  BY SideOther
<1>2. l \in Seq(Nat) /\ p \in Seq(UpFrame) /\ k \in Nat
  BY <1>1, LineTypes DEF CountTypes
<1>3. Line(s)' \in Seq(Nat)
  BY LineTypesNext
<1>4. Ordered(l, p, k)
  BY DEF OrderInv
<1> HIDE DEF l, p, k
<1>5. CASE ServerReceives(o)
  <2>1. /\ p # <<>> /\ Pending(o)' = Tail(p) /\ sent'[o] = k
        /\ \/ Line(s)' = l
           \/ Head(p).type = "send" /\ Line(s)' = Append(l, Head(p).n)
    BY <1>5, TakeSteps DEF l, p, k
  <2>2. QED
    BY <1>2, <1>4, <2>1, OrderedTake
<1>6. CASE ~ServerReceives(o)
  <2>1. Line(s)' = l \/ Thins(Line(s)', l)
    BY <1>6, LineSteps DEF Thinned, l
  <2>2. Ordered(Line(s)', p, k)
    BY <1>2, <1>3, <1>4, <2>1, OrderedThins
  <2>3. CASE PendKept(o)
    BY <2>2, <2>3 DEF PendKept, p, k
  <2>4. CASE PendSent(o)
    <3>1. PICK f \in UpFrame : /\ f.type = "send" /\ f.n = k + 1 /\ sent'[o] = k + 1
                               /\ Pending(o)' = Append(p, f)
      BY <2>4 DEF PendSent, p, k
    <3>2. QED
      BY <1>2, <1>3, <2>2, <3>1, OrderedSend
  <2>5. CASE PendLost(o)
    <3>1. Pending(o)' = p /\ sent'[o] = k + 1
      BY <2>5 DEF PendLost, p, k
    <3>2. [type |-> "send", n |-> k + 1] \in UpFrame
      BY <1>2 DEF UpFrame
    <3>3. Ordered(Line(s)', p, k + 1)
      BY <1>2, <1>3, <2>2, <3>2, OrderedSend
    <3>4. QED
      BY <3>1, <3>3
  <2>6. CASE PendHello(o)
    <3>1. PICK f \in UpFrame : f.type # "send" /\ sent'[o] = k /\ Pending(o)' = <<f>> \o p
      BY <2>6 DEF PendHello, p, k
    <3>2. QED
      BY <1>2, <1>3, <2>2, <3>1, OrderedHello
  <2>7. CASE PendAck(o)
    <3>1. PICK f \in UpFrame : f.type # "send" /\ sent'[o] = k /\ Pending(o)' = Append(p, f)
      BY <2>7 DEF PendAck, p, k
    <3>2. QED
      BY <1>2, <1>3, <2>2, <3>1, OrderedSend
  <2>8. CASE PendCut(o)
    <3>1. PICK m \in 0 .. Len(p) : sent'[o] = k /\ Pending(o)' = SubSeq(p, 1, m)
      BY <2>8 DEF PendCut, p, k
    <3>2. QED
      BY <1>2, <1>3, <2>2, <3>1, OrderedPrefix
  <2>9. QED
    BY <1>1, <1>6, <2>3, <2>4, <2>5, <2>6, <2>7, <2>8, PendSteps
<1>7. QED
  BY <1>5, <1>6

\* The broker delivers in the order of the sends and at most once, through any
\* number of disconnects and however the sockets of a side overlap.
THEOREM DeliversInOrder == Spec => []InOrderOnce
<1>1. QueueTypes /\ OrderInv => InOrderOnce
  <2> SUFFICES ASSUME QueueTypes, OrderInv, server = "broker", NEW s \in Side,
                      NEW i \in DOMAIN Handled(s), NEW j \in DOMAIN Handled(s), i < j
               PROVE  Handled(s)[i] < Handled(s)[j]
    BY DEF InOrderOnce
  <2>1. Handled(s) \in Seq(Nat) /\ down[s] \in Seq(Nat) /\ queue[s] \in Seq(Nat)
    BY LineTypes DEF QueueTypes
  <2>2. \A a \in DOMAIN Handled(s) : a \in DOMAIN Line(s) /\ Line(s)[a] = Handled(s)[a]
    BY <2>1, HandledInLine
  <2>3. QED
    BY <2>2 DEF OrderInv, Ordered
<1>2. TypeOK => QueueTypes
  BY DEF TypeOK, QueueTypes
<1>3. Init => TypeOK /\ RouteInv /\ ClientInv /\ OrderInv
  BY TypeInit, RouteInit, ClientInit, OrderInit
<1>4. /\ TypeOK /\ RouteInv /\ ClientInv /\ OrderInv /\ [Next]_vars
      => (TypeOK /\ RouteInv /\ ClientInv /\ OrderInv)'
  BY TypeNext, RouteNext, ClientNext, OrderNext
<1>5. QED
  BY <1>1, <1>2, <1>3, <1>4, PTL DEF Spec

----------------------------------------------------------------------------
(* Nothing is missing. *)

LEMMA WholeInit == Init => WholeInv
<1> SUFFICES ASSUME Init, NEW s \in Side
             PROVE  Whole(Line(s), Pending(Other(s)), sent[Other(s)], alive[Other(s)])
  BY DEF WholeInv
<1>1. \A b \in BOOLEAN : Whole(<<>>, <<>>, 0, b)
  <2>1. Len(<<>>) = 0 /\ DOMAIN <<>> = {}
    OBVIOUS
  <2>2. QED
    BY <2>1 DEF Whole, Before
<1>2. alive[Other(s)] \in BOOLEAN
  BY SideOther DEF Init, All
<1>3. QED
  BY <1>1, <1>2, LineInit, SideOther

LEMMA WholeNext ==
  TypeOK /\ RouteInv /\ ClientInv /\ OrderInv /\ WholeInv /\ [Next]_vars => WholeInv'
<1> SUFFICES ASSUME QueueTypes, FlagTypes, CountTypes, RouteInv, ClientInv, OrderInv, WholeInv,
                    [Next]_vars, QueueTypes', FlagTypes', NEW s \in Side,
                    ~dropped'[s], server' = "broker" => alive'[s]
             PROVE  Whole(Line(s), Pending(Other(s)), sent[Other(s)], alive[Other(s)])'
  BY TypeNext DEF WholeInv, TypeOK, QueueTypes, FlagTypes, CountTypes
<1> DEFINE o == Other(s)
           l == Line(s)
           p == Pending(o)
           k == sent[o]
           live == alive[o]
<1>1. o \in Side /\ Other(o) = s
  BY SideOther
<1>2. l \in Seq(Nat) /\ p \in Seq(UpFrame) /\ k \in Nat /\ live \in BOOLEAN
  BY <1>1, LineTypes DEF CountTypes, FlagTypes
<1>3. server' = server /\ ~dropped[s] /\ (server = "broker" => alive[s])
  BY Monotone
<1>4. Ordered(l, p, k) /\ Whole(l, p, k, live)
  BY <1>3 DEF OrderInv, WholeInv
<1> HIDE DEF l, p, k, live
<1>5. CASE ServerReceives(o)
  <2>1. /\ p # <<>> /\ Pending(o)' = Tail(p) /\ sent'[o] = k /\ alive'[o] = live
        /\ Head(p).type # "send" => Line(s)' = l
        /\ Head(p).type = "send" => Line(s)' = Append(l, Head(p).n)
    BY <1>3, <1>5, TakeSteps DEF l, p, k, live
  <2>2. QED
    BY <1>2, <1>4, <2>1, WholeTake
<1>6. CASE ~ServerReceives(o)
  <2>1. Line(s)' = l
    BY <1>3, <1>6, LineSteps DEF Thinned, l
  <2>2. CASE PendKept(o)
    BY <1>4, <2>1, <2>2 DEF PendKept, p, k, live
  <2>3. CASE PendSent(o)
    <3>1. PICK f \in UpFrame : /\ f.type = "send" /\ f.n = k + 1 /\ sent'[o] = k + 1
                               /\ Pending(o)' = Append(p, f) /\ live /\ alive'[o]
      BY <2>3 DEF PendSent, p, k, live
    <3>2. alive'[o] = live
      <4>1. alive'[o] \in BOOLEAN
        BY <1>1 DEF FlagTypes
      <4>2. QED
        BY <1>2, <3>1, <4>1
    <3>3. QED
      BY <1>2, <1>4, <2>1, <3>1, <3>2, WholeSend
  <2>4. CASE PendLost(o)
    <3>1. Pending(o)' = p /\ sent'[o] = k + 1 /\ ~live /\ ~alive'[o]
      BY <1>1, <2>4 DEF PendLost, p, k, live
    <3>2. [type |-> "send", n |-> k + 1] \in UpFrame
      BY <1>2 DEF UpFrame
    <3>3. Whole(l, p, k + 1, FALSE)
      BY <1>2, <1>4, <3>2, WholeSend
    <3>4. QED
      BY <2>1, <3>1, <3>3 DEF Whole
  <2>5. CASE PendHello(o)
    <3>1. PICK f \in UpFrame : /\ f.type # "send" /\ sent'[o] = k /\ Pending(o)' = <<f>> \o p
                               /\ alive'[o] = live
      BY <2>5 DEF PendHello, p, k, live
    <3>2. QED
      BY <1>2, <1>4, <2>1, <3>1, WholeHello
  <2>6. CASE PendAck(o)
    <3>1. PICK f \in UpFrame : /\ f.type # "send" /\ sent'[o] = k /\ Pending(o)' = Append(p, f)
                               /\ alive'[o] = live
      BY <2>6 DEF PendAck, p, k, live
    <3>2. QED
      BY <1>2, <1>4, <2>1, <3>1, WholeSend
  <2>7. CASE PendCut(o)
    <3>1. PICK m \in 0 .. Len(p) : sent'[o] = k /\ Pending(o)' = SubSeq(p, 1, m) /\ ~alive'[o]
      BY <2>7 DEF PendCut, p, k
    <3>2. Whole(l, SubSeq(p, 1, m), k, FALSE)
      BY <1>2, <1>4, WholePrefix
    <3>3. QED
      BY <2>1, <3>1, <3>2 DEF Whole
  <2>8. QED
    BY <1>1, <1>6, <2>2, <2>3, <2>4, <2>5, <2>6, <2>7, PendSteps
<1>7. QED
  BY <1>5, <1>6

PipeInv == TypeOK /\ RouteInv /\ ClientInv /\ OrderInv /\ WholeInv

LEMMA PipeInvariant == Spec => []PipeInv
<1>1. Init => PipeInv
  BY TypeInit, RouteInit, ClientInit, OrderInit, WholeInit DEF PipeInv
<1>2. PipeInv /\ [Next]_vars => PipeInv'
  BY TypeNext, RouteNext, ClientNext, OrderNext, WholeNext DEF PipeInv
<1>3. QED
  BY <1>1, <1>2, PTL DEF Spec

\* As long as no socket breaks and no queue overflows, every payload of either
\* side is in exactly one place between send() and the listener, in order.
THEOREM EverythingIsSomewhere == Spec => []NothingLost
<1>1. ASSUME PipeInv, Undisturbed, server = "broker", NEW s \in Side
      PROVE  LET routedTo == Handled(s) \o down[s] \o queue[s]
                 before == up[Other(s)] \o outQ[Other(s)]
             IN  /\ routedTo = [i \in 1 .. Len(routedTo) |-> i]
                 /\ InTurn(before, Len(routedTo), sent[Other(s)])
  <2> DEFINE o == Other(s)
             l == Line(s)
             p == Pending(o)
             k == sent[o]
  <2>1. o \in Side /\ QueueTypes /\ CountTypes
    BY <1>1, SideOther DEF PipeInv, TypeOK, QueueTypes, CountTypes
  <2>2. l \in Seq(Nat) /\ p \in Seq(UpFrame) /\ k \in Nat
    BY <2>1, LineTypes DEF CountTypes
  <2>3. alive[o] /\ alive[s] /\ ~dropped[s]
    BY <1>1, <2>1 DEF PipeInv, ClientInv, Undisturbed
  <2>4. Ordered(l, p, k) /\ Whole(l, p, k, TRUE)
    BY <1>1, <2>1, <2>3 DEF PipeInv, OrderInv, WholeInv, Whole
  <2>5. Handled(s) \o down[s] \o queue[s] = l
    BY <1>1 DEF Line
  <2>6. up[o] \o outQ[o] = p
    <3>1. up[o] \in Seq(UpFrame) /\ outQ[o] \in Seq(UpFrame)
      BY <2>1 DEF QueueTypes
    <3>2. CASE conn[o] = "open"
      <4>1. outQ[o] = <<>> /\ p = up[o]
        BY <1>1, <2>1, <2>3, <3>2 DEF PipeInv, ClientInv, Pending
      <4>2. QED
        BY <3>1, <4>1
    <3>3. CASE conn[o] # "open"
      <4>1. up[o] = <<>> /\ p = outQ[o]
        BY <1>1, <2>1, <2>3, <3>3 DEF PipeInv, ClientInv, Pending
      <4>2. QED
        BY <3>1, <4>1
    <3>4. QED
      BY <3>2, <3>3
  <2> HIDE DEF l, p, k
  <2>7. l = [i \in 1 .. Len(l) |-> i]
    <3>1. l = [i \in 1 .. Len(l) |-> l[i]] /\ DOMAIN l = 1 .. Len(l)
      BY <2>2
    <3>2. QED
      BY <2>4, <3>1 DEF Whole
  <2>8. InTurn(p, Len(l), k)
    <3> DEFINE at == {i \in DOMAIN p : p[i].type = "send"}
    <3>1. \A i \in at : IsSend(p, i)
      BY DEF IsSend
    <3>2. \A i, j \in at : i < j => p[i].n < p[j].n
      BY <2>4, <3>1 DEF Ordered
    <3>3. ASSUME NEW i \in at PROVE p[i].n \in Len(l) + 1 .. k
      <4>1. p[i].n > Len(l) /\ p[i].n <= k
        BY <2>4, <3>1 DEF Ordered, Whole
      <4>2. p[i] \in UpFrame /\ Len(l) \in Nat
        BY <2>2
      <4>3. p[i].n \in Nat
        BY <4>2 DEF UpFrame
      <4>4. QED
        BY <2>2, <4>1, <4>2, <4>3
    <3>4. ASSUME NEW m \in Len(l) + 1 .. k PROVE \E i \in at : p[i].n = m
      BY <2>4 DEF Whole, Before, IsSend
    <3>5. {p[i].n : i \in at} = Len(l) + 1 .. k
      BY <3>3, <3>4
    <3>6. QED
      BY <3>2, <3>5 DEF InTurn
  <2>9. QED
    BY <2>5, <2>6, <2>7, <2>8 DEF k
<1>2. PipeInv => NothingLost
  BY <1>1 DEF NothingLost
<1>3. QED
  BY <1>2, PipeInvariant, PTL

----------------------------------------------------------------------------
(* What is acknowledged. *)

LEMMA FrameSets ==
  ASSUME NEW u \in Nat, NEW v \in Nat, u <= v
  PROVE  SendFrame \subseteq FrameUpTo(u) /\ FrameUpTo(u) \subseteq FrameUpTo(v)
BY DEF SendFrame, FrameUpTo, UpFrame

\* What a socket's end leaves of a side's frames.
LEMMA PrefixTyped ==
  ASSUME NEW S, NEW q \in Seq(S), NEW k \in 0 .. Len(q)
  PROVE  SubSeq(q, 1, k) \in Seq(S)
OBVIOUS

LEMMA FrameInit == Init => FrameInv
BY DEF Init, All, FrameInv

\* An acknowledgement is never more than what its sender has seen, whatever
\* remains of a broken socket's frames.
LEMMA FrameNext ==
  TypeOK /\ ClientInv /\ FrameInv /\ [Next]_vars => FrameInv'
<1> SUFFICES ASSUME QueueTypes, FlagTypes, CountTypes, ClientInv, FrameInv, [Next]_vars,
                    NEW s \in Side
             PROVE  /\ outQ'[s] \in Seq(SendFrame) /\ up'[s] \in Seq(FrameUpTo(upTo'[s]))
                    /\ server' = "broker" => upTo'[s] = 0
                    /\ acked'[s] <= upTo'[s]
  BY DEF FrameInv, TypeOK, QueueTypes, FlagTypes, CountTypes
<1> USE DEF client, socket, broker, seqSrv, bounds, history
<1> DEFINE Goal == /\ outQ'[s] \in Seq(SendFrame) /\ up'[s] \in Seq(FrameUpTo(upTo'[s]))
                   /\ server' = "broker" => upTo'[s] = 0
                   /\ acked'[s] <= upTo'[s]
           Keep == /\ outQ'[s] = outQ[s] /\ up'[s] = up[s]
                   /\ upTo'[s] = upTo[s] /\ acked'[s] = acked[s]
<1>1. /\ outQ[s] \in Seq(SendFrame) /\ up[s] \in Seq(FrameUpTo(upTo[s]))
      /\ server = "broker" => upTo[s] = 0
      /\ acked[s] <= upTo[s] /\ acked[s] \in Nat /\ upTo[s] \in Nat
  BY DEF FrameInv, CountTypes
<1>2. server' = server
  BY Monotone
<1>3. ASSUME Keep PROVE Goal
  BY <1>1, <1>2, <1>3
<1>4. SendFrame \subseteq FrameUpTo(upTo[s])
  BY <1>1, FrameSets
<1>5. ASSUME NEW x \in Side, Send(x) PROVE Goal
  <2>1. UNCHANGED <<upTo, acked>>
    BY <1>5 DEF Send
  <2>2. CASE x # s
    BY <1>3, <1>5, <2>1, <2>2 DEF Send, QueueTypes
  <2>3. CASE x = s
    <3> DEFINE f == [type |-> "send", n |-> sent[s] + 1]
    <3>1. f \in SendFrame
      BY DEF SendFrame, UpFrame, CountTypes
    <3>2. f \in FrameUpTo(upTo[s])
      BY <1>4, <3>1
    <3>3. /\ up'[s] = up[s] \/ up'[s] = Append(up[s], f)
          /\ outQ'[s] = outQ[s] \/ outQ'[s] = Append(outQ[s], f)
      BY <1>5, <2>3 DEF Send, QueueTypes
    <3> HIDE DEF f
    <3>4. /\ Append(outQ[s], f) \in Seq(SendFrame)
          /\ Append(up[s], f) \in Seq(FrameUpTo(upTo[s]))
      BY <1>1, <3>1, <3>2, AppendProperties
    <3>6. outQ'[s] \in Seq(SendFrame) /\ up'[s] \in Seq(FrameUpTo(upTo[s]))
      BY <1>1, <3>3, <3>4
    <3>5. QED
      BY <1>1, <1>2, <2>1, <3>6
  <2>4. QED
    BY <2>2, <2>3
<1>6. ASSUME NEW x \in Side, Opened(x) PROVE Goal
  <2>1. UNCHANGED <<upTo, acked>>
    BY <1>6 DEF Opened
  <2>2. CASE x # s \/ ~alive[s]
    BY <1>3, <1>6, <2>1, <2>2 DEF Opened, QueueTypes
  <2>3. CASE x = s /\ alive[s]
    <3> DEFINE f == [type |-> "hello", n |-> upTo[s]]
    <3>1. upTo[s] = 0 /\ up'[s] = Append(up[s], f) \o outQ[s] /\ outQ'[s] = <<>>
      BY <1>6, <2>3 DEF Opened, QueueTypes, ClientInv
    <3>2. f \in FrameUpTo(upTo[s])
      BY <1>1, <3>1 DEF FrameUpTo, UpFrame
    <3>3. outQ[s] \in Seq(FrameUpTo(upTo[s]))
      BY <1>1, <1>4, SeqMonotonic
    <3> HIDE DEF f
    <3>4. up'[s] \in Seq(FrameUpTo(upTo[s])) /\ outQ'[s] \in Seq(SendFrame)
      BY <1>1, <3>1, <3>2, <3>3
    <3>5. QED
      BY <1>1, <1>2, <2>1, <3>4
  <2>4. QED
    BY <2>2, <2>3
<1>7. ASSUME NEW x \in Side, Receive(x) PROVE Goal
  <2>1. UNCHANGED <<outQ, acked>>
    BY <1>7 DEF Receive
  <2>2. CASE up'[s] = up[s] /\ upTo'[s] = upTo[s]
    BY <1>3, <2>1, <2>2
  <2>3. CASE ~(up'[s] = up[s] /\ upTo'[s] = upTo[s])
    <3> DEFINE n == Head(down[s])
               f == [type |-> "delivered", n |-> n]
    <3>1. /\ x = s /\ server = "sequenced" /\ n > upTo[s] /\ down[s] # <<>>
          /\ upTo'[s] = n /\ up'[s] = Append(up[s], f)
      BY <1>7, <2>3 DEF Receive, QueueTypes, CountTypes
    <3>2. n \in Nat
      <4>1. down[s] \in Seq(Nat)
        BY DEF QueueTypes
      <4>2. QED
        BY <3>1, <4>1
    <3>3. f \in FrameUpTo(n)
      BY <3>2 DEF FrameUpTo, UpFrame
    <3> HIDE DEF n
    <3>4. FrameUpTo(upTo[s]) \subseteq FrameUpTo(n)
      BY <1>1, <3>1, <3>2, FrameSets
    <3>5. up[s] \in Seq(FrameUpTo(n))
      BY <1>1, <3>4, SeqMonotonic
    <3> HIDE DEF f
    <3>6. up'[s] \in Seq(FrameUpTo(n))
      BY <3>1, <3>3, <3>5
    <3>7. QED
      BY <1>1, <1>2, <2>1, <3>1, <3>2, <3>6
  <2>4. QED
    BY <2>2, <2>3
<1>8. ASSUME NEW x \in Side, AppClose(x) \/ Flap(x) PROVE Goal
  <2>1. UNCHANGED <<upTo, acked, outQ>>
    BY <1>8 DEF AppClose, Flap
  <2>2. \E k \in 0 .. Len(up[x]) : up' = [up EXCEPT ![x] = SubSeq(@, 1, k)]
    BY <1>8 DEF AppClose, Flap, SocketEnds
  <2>3. up'[s] = up[s] \/ \E k \in 0 .. Len(up[s]) : up'[s] = SubSeq(up[s], 1, k)
    BY <2>2 DEF QueueTypes
  <2>4. up'[s] \in Seq(FrameUpTo(upTo[s]))
    BY <1>1, <2>3, PrefixTyped
  <2>5. QED
    BY <1>1, <1>2, <2>1, <2>4
<1>9. ASSUME NEW x \in Side, ServerReceives(x) PROVE Goal
  <2>1. UNCHANGED <<upTo, outQ>>
    BY <1>9 DEF ServerReceives
  <2>2. CASE x # s
    BY <1>3, <1>9, <2>1, <2>2 DEF ServerReceives, QueueTypes, CountTypes
  <2>3. CASE x = s
    <3>1. up[s] # <<>> /\ up'[s] = Tail(up[s])
      BY <1>9, <2>3 DEF ServerReceives, QueueTypes
    <3>2. up'[s] \in Seq(FrameUpTo(upTo[s])) /\ Head(up[s]) \in FrameUpTo(upTo[s])
      BY <1>1, <3>1, HeadTailProperties
    <3>3. acked'[s] = acked[s] \/ /\ Head(up[s]).type = "delivered"
                                  /\ acked'[s] = Head(up[s]).n
      BY <1>9, <2>3 DEF ServerReceives, CountTypes
    <3>4. acked'[s] <= upTo[s]
      BY <1>1, <3>2, <3>3 DEF FrameUpTo
    <3>5. QED
      BY <1>1, <1>2, <2>1, <3>2, <3>4
  <2>4. QED
    BY <2>2, <2>3
<1>10. QED
  BY <1>3, <1>5, <1>6, <1>7, <1>8, <1>9
     DEF Next, Client, Server, vars, Subscribe, Unsubscribe, Reconnect, Accept, Push, PushAgain,
         ServerNotices

----------------------------------------------------------------------------
(* Gaps. *)

LEMMA GaplessPrefix ==
  ASSUME NEW p \in Seq(Nat), NEW d \in Seq(Nat), Gapless(p \o d)
  PROVE  Gapless(p)
<1>1. /\ DOMAIN p \subseteq DOMAIN (p \o d)
      /\ \A i \in DOMAIN p : (p \o d)[i] = p[i]
  OBVIOUS
<1>2. ASSUME NEW i \in DOMAIN p, NEW m \in 1 .. p[i] - 1 PROVE \E j \in 1 .. i - 1 : p[j] = m
  <2>1. PICK j \in 1 .. i - 1 : (p \o d)[j] = m
    BY <1>1, <1>2 DEF Gapless
  <2>2. j \in DOMAIN p
    BY <1>2, <2>1
  <2>3. QED
    BY <1>1, <2>1, <2>2
<1>3. QED
  BY <1>2 DEF Gapless

LEMMA GaplessLast ==
  ASSUME NEW q \in Seq(Nat), NEW n \in Nat, Gapless(Append(q, n))
  PROVE  Holds(Append(q, n), n)
<1> DEFINE a == Append(q, n)
<1>1. /\ DOMAIN a = 1 .. Len(q) + 1 /\ Len(q) \in Nat /\ a[Len(q) + 1] = n
  OBVIOUS
<1> HIDE DEF a
<1>2. Len(q) + 1 \in DOMAIN a
  BY <1>1
<1>3. \A m \in 1 .. n - 1 : \E j \in 1 .. Len(q) : a[j] = m
  <2>1. Gapless(a)
    BY DEF a
  <2>2. \A m \in 1 .. n - 1 : \E j \in 1 .. (Len(q) + 1) - 1 : a[j] = m
    BY <1>1, <1>2, <2>1 DEF Gapless
  <2>3. QED
    BY <1>1, <2>2
<1>4. ASSUME NEW m \in 1 .. n PROVE \E i \in DOMAIN a : a[i] = m
  <2>1. CASE m = n
    BY <1>1, <1>2, <2>1
  <2>2. CASE m # n
    <3>1. m \in 1 .. n - 1
      BY <1>4, <2>2
    <3>2. PICK j \in 1 .. Len(q) : a[j] = m
      BY <1>3, <3>1
    <3>3. j \in DOMAIN a
      BY <1>1, <3>2
    <3>4. QED
      BY <3>2, <3>3
  <2>3. QED
    BY <2>1, <2>2
<1>5. Holds(a, n)
  BY <1>4 DEF Holds
<1>6. QED
  BY <1>5 DEF a

LEMMA HoldsAppend ==
  ASSUME NEW q \in Seq(Nat), NEW n \in Nat, NEW u \in Nat, Holds(q, u)
  PROVE  Holds(Append(q, n), u)
<1>1. DOMAIN q \subseteq DOMAIN Append(q, n) /\ \A i \in DOMAIN q : Append(q, n)[i] = q[i]
  OBVIOUS
<1>2. QED
  BY <1>1 DEF Holds

LEMMA GaplessAppend ==
  ASSUME NEW q \in Seq(Nat), NEW u \in Nat, Gapless(q), Holds(q, u)
  PROVE  Gapless(Append(q, u + 1)) /\ Holds(Append(q, u + 1), u + 1)
<1> DEFINE a == Append(q, u + 1)
<1>1. /\ DOMAIN q = 1 .. Len(q) /\ Len(q) \in Nat /\ DOMAIN a = 1 .. Len(q) + 1
      /\ \A i \in DOMAIN q : a[i] = q[i]
      /\ a[Len(q) + 1] = u + 1
  OBVIOUS
<1> HIDE DEF a
<1>2. ASSUME NEW i \in DOMAIN a, NEW m \in 1 .. a[i] - 1 PROVE \E j \in 1 .. i - 1 : a[j] = m
  <2>1. CASE i \in DOMAIN q
    <3>1. m \in 1 .. q[i] - 1
      BY <1>1, <1>2, <2>1
    <3>2. PICK j \in 1 .. i - 1 : q[j] = m
      BY <2>1, <3>1 DEF Gapless
    <3>3. j \in DOMAIN q
      BY <1>1, <2>1, <3>2
    <3>4. QED
      BY <1>1, <3>2, <3>3
  <2>2. CASE i = Len(q) + 1
    <3>1. m \in 1 .. u
      BY <1>1, <1>2, <2>2
    <3>2. PICK j \in DOMAIN q : q[j] = m
      BY <3>1 DEF Holds
    <3>3. QED
      BY <1>1, <2>2, <3>2
  <2>3. QED
    BY <1>1, <1>2, <2>1, <2>2
<1>3. Gapless(a)
  BY <1>2 DEF Gapless
<1>4. Holds(a, u + 1)
  BY <1>3, GaplessLast DEF a
<1>5. QED
  BY <1>3, <1>4 DEF a

\* A side handles what it receives while it lives.
LEMMA HandledSteps ==
  ASSUME QueueTypes, FlagTypes, CountTypes, ClientInv, NEW s \in Side, [Next]_vars
  PROVE  \/ Handled(s)' = Handled(s) /\ upTo'[s] = upTo[s]
         \/ Receive(s) /\ alive[s]
<1> USE DEF client, socket, broker, seqSrv, bounds, history
<1> DEFINE Goal == \/ Handled(s)' = Handled(s) /\ upTo'[s] = upTo[s]
                   \/ Receive(s) /\ alive[s]
           Keep == got'[s] = got[s] /\ backlog'[s] = backlog[s] /\ upTo'[s] = upTo[s]
<1>1. ASSUME Keep PROVE Goal
  BY <1>1 DEF Handled
<1>2. ASSUME NEW x \in Side, Receive(x) PROVE Goal
  <2>1. CASE x # s \/ ~alive[s]
    BY <1>1, <1>2, <2>1 DEF Receive, Emit, QueueTypes, CountTypes
  <2>2. QED
    BY <1>2, <2>1
<1>3. ASSUME NEW x \in Side, Subscribe(x) PROVE Goal
  <2>1. UNCHANGED upTo
    BY <1>3 DEF Subscribe
  <2>2. CASE x # s
    BY <1>1, <1>3, <2>2 DEF Subscribe, QueueTypes
  <2>3. CASE x = s
    <3>1. got'[s] = got[s] \o backlog[s] /\ backlog'[s] = <<>>
      BY <1>3, <2>3 DEF Subscribe, QueueTypes
    <3>2. got[s] \o backlog[s] \in Seq(Nat)
      BY DEF QueueTypes
    <3>3. Handled(s)' = Handled(s)
      BY <3>1, <3>2 DEF Handled
    <3>4. QED
      BY <2>1, <3>3
  <2>4. QED
    BY <2>2, <2>3
<1>4. ASSUME NEW x \in Side,
             Send(x) \/ Opened(x) \/ Unsubscribe(x) \/ AppClose(x) \/ Flap(x) \/ Reconnect(x)
      PROVE  Keep
  BY <1>4 DEF Send, Opened, Unsubscribe, AppClose, Flap, Reconnect
<1>5. ASSUME NEW x \in Side, Server(x) PROVE Keep
  BY <1>5 DEF Server, Accept, ServerReceives, Push, PushAgain, ServerNotices
<1>6. UNCHANGED vars => Keep
  BY DEF vars
<1> HIDE DEF Keep, Goal
<1>7. Goal
  BY <1>1, <1>2, <1>3, <1>4, <1>5, <1>6 DEF Next, Client
<1>8. QED
  BY <1>7 DEF Goal

\* Whatever is on its way to a side that lives has no gap either.
LEMMA StreamGapless ==
  ASSUME QueueTypes, CountTypes, WholeInv, PushInv, NEW s \in Side, alive[s], ~dropped[s]
  PROVE  Gapless(Stream(s))
<1>1. Stream(s) \in Seq(Nat) /\ queue[s] \in Seq(Nat)
  BY LineTypes DEF QueueTypes
<1>2. CASE server = "broker"
  <2>1. Line(s) = Stream(s) \o queue[s] /\ \A i \in DOMAIN Line(s) : Line(s)[i] = i
    BY <1>2, LineTypes DEF WholeInv, Whole
  <2>2. ASSUME NEW p \in Seq(Nat), NEW d \in Seq(Nat),
               \A i \in DOMAIN (p \o d) : (p \o d)[i] = i
        PROVE  Gapless(p)
    <3>1. /\ DOMAIN p \subseteq DOMAIN (p \o d) /\ DOMAIN p = 1 .. Len(p) /\ Len(p) \in Nat
          /\ \A i \in DOMAIN p : (p \o d)[i] = p[i]
      OBVIOUS
    <3>2. \A i \in DOMAIN p : p[i] = i
      BY <2>2, <3>1
    <3>3. ASSUME NEW i \in DOMAIN p, NEW m \in 1 .. p[i] - 1 PROVE m \in 1 .. i - 1 /\ p[m] = m
      <4>1. i \in 1 .. Len(p) /\ p[i] = i
        BY <3>1, <3>2
      <4>2. m \in 1 .. i - 1
        BY <4>1, <3>3
      <4>3. m \in DOMAIN p
        BY <3>1, <4>1, <4>2
      <4>4. QED
        BY <3>2, <4>2, <4>3
    <3>4. QED
      BY <3>3 DEF Gapless
  <2>3. QED
    BY <1>1, <2>1, <2>2
<1>3. CASE server = "sequenced"
  BY <1>3 DEF PushInv
<1>4. server \in {"broker", "sequenced"}
  BY ServersAreKnown DEF CountTypes
<1>5. QED
  BY <1>2, <1>3, <1>4

LEMMA HeardInit == Init => HeardInv
<1>1. Gapless(<<>>) /\ Holds(<<>>, 0)
  BY DEF Gapless, Holds
<1>2. ASSUME Init, NEW s \in Side PROVE Handled(s) = <<>> /\ upTo[s] = 0
  BY <1>2, LineInit DEF Init, All
<1>3. QED
  BY <1>1, <1>2 DEF HeardInv

LEMMA HeardNext ==
  TypeOK /\ ClientInv /\ WholeInv /\ PushInv /\ HeardInv /\ [Next]_vars => HeardInv'
<1> SUFFICES ASSUME QueueTypes, FlagTypes, CountTypes, ClientInv, WholeInv, PushInv, HeardInv,
                    [Next]_vars, QueueTypes', NEW s \in Side, ~dropped'[s]
             PROVE  Holds(Handled(s)', upTo'[s]) /\ Gapless(Handled(s)')
  BY TypeNext DEF HeardInv, Holds, Gapless, TypeOK, QueueTypes, FlagTypes, CountTypes
<1>1. ~dropped[s] /\ Handled(s) \in Seq(Nat) /\ upTo[s] \in Nat
  BY Monotone, LineTypes DEF CountTypes
<1>2. Holds(Handled(s), upTo[s]) /\ Gapless(Handled(s))
  BY <1>1 DEF HeardInv
<1>3. CASE Receive(s) /\ alive[s]
  <2> DEFINE n == Head(down[s])
  <2>1. down[s] \in Seq(Nat) /\ down[s] # <<>> /\ n \in Nat
    <3>1. down[s] \in Seq(Nat) /\ down[s] # <<>>
      BY <1>3 DEF QueueTypes, Receive
    <3>2. QED
      BY <3>1
  <2>2. /\ Stream(s)' = Stream(s) /\ Handled(s)' = Append(Handled(s), n)
    BY <1>3, ReceiveStream
  <2>3. upTo'[s] = upTo[s] \/ upTo'[s] = n
    BY <1>3 DEF Receive, CountTypes
  <2> HIDE DEF n
  <2>4. Gapless(Handled(s)')
    <3>1. Gapless(Stream(s)')
      BY <1>1, <1>3, <2>2, StreamGapless
    <3>2. Stream(s)' = Handled(s)' \o down'[s]
      BY DEF Stream
    <3>3. Handled(s)' \in Seq(Nat) /\ down'[s] \in Seq(Nat)
      BY LineTypesNext DEF QueueTypes
    <3>4. QED
      BY <3>1, <3>2, <3>3, GaplessPrefix
  <2>5. Holds(Append(Handled(s), n), n)
    BY <1>1, <2>1, <2>2, <2>4, GaplessLast
  <2>6. Holds(Append(Handled(s), n), upTo[s])
    BY <1>1, <1>2, <2>1, HoldsAppend
  <2>7. QED
    BY <2>2, <2>3, <2>4, <2>5, <2>6
<1>4. CASE Handled(s)' = Handled(s) /\ upTo'[s] = upTo[s]
  BY <1>2, <1>4
<1>5. QED
  BY <1>3, <1>4, HandledSteps

----------------------------------------------------------------------------
(* What is pushed. *)

\* A server that keeps a log grows the way to a living side by Push alone.
LEMMA StreamSteps ==
  ASSUME QueueTypes, FlagTypes, CountTypes, ClientInv, NEW s \in Side, [Next]_vars,
         server = "sequenced", alive'[s], ~dropped'[s]
  PROVE  Stream(s)' = Stream(s) \/ Push(s)
<1> USE DEF client, socket, broker, seqSrv, bounds, history
<1> DEFINE Goal == Stream(s)' = Stream(s) \/ Push(s)
           Keep == Handled(s)' = Handled(s) /\ down'[s] = down[s]
<1>1. ASSUME Keep PROVE Goal
  BY <1>1 DEF Stream
<1>2. Receive(s) \/ Handled(s)' = Handled(s)
  BY HandledSteps
<1>3. ASSUME Receive(s) PROVE Goal
  BY <1>3, ReceiveStream
<1>4. ASSUME NEW x \in Side, Receive(x), x # s PROVE down'[s] = down[s]
  BY <1>4 DEF Receive, QueueTypes
<1>5. ASSUME NEW x \in Side, AppClose(x) \/ Flap(x) PROVE down'[s] = down[s]
  <2>1. down' = [down EXCEPT ![x] = <<>>] /\ alive' = [alive EXCEPT ![x] = FALSE]
    BY <1>5 DEF AppClose, Flap, SocketEnds, AliveAfterFlap
  <2>2. x # s
    BY <2>1 DEF FlagTypes
  <2>3. QED
    BY <2>1, <2>2 DEF QueueTypes
<1>6. ASSUME NEW x \in Side, Accept(x) PROVE down'[s] = down[s]
  BY <1>6 DEF Accept
<1>7. ASSUME NEW x \in Side, ServerReceives(x) PROVE down'[s] = down[s]
  BY <1>7 DEF ServerReceives, Route
<1>8. ASSUME NEW x \in Side, Push(x), x # s PROVE down'[s] = down[s]
  BY <1>8 DEF Push, QueueTypes
<1>9. Receive(s) \/ Push(s) \/ down'[s] = down[s]
  BY <1>4, <1>5, <1>6, <1>7, <1>8
     DEF Next, Client, Server, vars, Send, Opened, Subscribe, Unsubscribe, Reconnect,
         PushAgain, ServerNotices
<1>10. QED
  BY <1>1, <1>2, <1>3, <1>9

\* The log never shrinks; another step than Push never raises how far it is pushed.
LEMMA LogSteps ==
  ASSUME QueueTypes, FlagTypes, CountTypes, FrameInv, NEW s \in Side, [Next]_vars,
         server = "sequenced"
  PROVE  /\ Len(queue'[s]) >= Len(queue[s])
         /\ next'[s] <= next[s] \/ Push(s)
<1> USE DEF client, socket, broker, seqSrv, bounds, history
<1>1. queue[s] \in Seq(Nat) /\ Len(queue[s]) \in Nat /\ next[s] \in Nat
  BY DEF QueueTypes, CountTypes
<1>2. Len(queue'[s]) >= Len(queue[s])
  <2>1. ASSUME NEW x \in Side, Accept(x) PROVE queue'[s] = queue[s]
    BY <2>1 DEF Accept
  <2>2. ASSUME NEW x \in Side, ServerReceives(x)
        PROVE  queue'[s] = queue[s] \/ queue'[s] = Append(queue[s], Head(up[x]).n)
    BY <2>2 DEF ServerReceives, Route, QueueTypes
  <2>3. \A n : Len(Append(queue[s], n)) = Len(queue[s]) + 1
    BY <1>1
  <2>4. queue'[s] = queue[s] \/ \E n : queue'[s] = Append(queue[s], n)
    BY <2>1, <2>2
       DEF Next, Client, Server, vars, Send, Opened, Receive, Subscribe, Unsubscribe, AppClose,
           Flap, Reconnect, Push, PushAgain, ServerNotices
  <2>5. QED
    BY <1>1, <2>3, <2>4
<1>3. next'[s] <= next[s] \/ Push(s)
  <2>1. ASSUME NEW x \in Side, ServerReceives(x) PROVE next'[s] <= next[s]
    <3>1. next'[s] = next[s] \/ /\ x = s /\ up[s] # <<>> /\ Head(up[s]).type = "hello"
                                /\ next'[s] = Head(up[s]).n
      BY <2>1 DEF ServerReceives, CountTypes
    <3>2. up[s] # <<>> => Head(up[s]) \in FrameUpTo(upTo[s])
      BY HeadTailProperties DEF FrameInv
    <3>3. QED
      BY <1>1, <3>1, <3>2 DEF FrameUpTo
  <2>2. ASSUME NEW x \in Side, PushAgain(x) PROVE next'[s] <= next[s]
    <3>1. next'[s] = next[s] \/ (next'[s] = acked[s] /\ acked[s] < next[s])
      BY <2>2 DEF PushAgain, CountTypes
    <3>2. acked[s] \in Nat /\ next[s] \in Nat
      BY DEF CountTypes
    <3>3. QED
      BY <3>1, <3>2
  <2>3. ASSUME NEW x \in Side, Push(x), x # s PROVE next'[s] <= next[s]
    BY <1>1, <2>3 DEF Push, CountTypes
  <2>4. UNCHANGED next => next'[s] <= next[s]
    BY <1>1
  <2>5. QED
    BY <2>1, <2>2, <2>3, <2>4
       DEF Next, Client, Server, vars, Send, Opened, Receive, Subscribe, Unsubscribe, AppClose,
           Flap, Reconnect, Accept, ServerNotices
<1>4. QED
  BY <1>2, <1>3

LEMMA PushInit == Init => PushInv
<1>1. Gapless(<<>>) /\ Holds(<<>>, 0) /\ Len(<<>>) = 0
  BY DEF Gapless, Holds
<1>2. ASSUME Init, NEW s \in Side
      PROVE  Stream(s) = <<>> /\ next[s] = 0 /\ queue[s] = <<>>
  BY <1>2, LineInit DEF Init, All
<1>3. QED
  BY <1>1, <1>2 DEF PushInv

LEMMA PushNext ==
  TypeOK /\ ClientInv /\ WholeInv /\ FrameInv /\ PushInv /\ [Next]_vars => PushInv'
<1> SUFFICES ASSUME QueueTypes, FlagTypes, CountTypes, ClientInv, WholeInv, FrameInv, PushInv,
                    [Next]_vars, QueueTypes', CountTypes', server' = "sequenced", NEW s \in Side
             PROVE  /\ next'[s] <= Len(queue'[s])
                    /\ alive'[s] /\ ~dropped'[s] =>
                          Gapless(Stream(s)') /\ Holds(Stream(s)', next'[s])
  BY TypeNext DEF PushInv, Holds, Gapless, TypeOK, QueueTypes, FlagTypes, CountTypes
<1>1. /\ queue[s] \in Seq(Nat) /\ Len(queue[s]) \in Nat /\ queue'[s] \in Seq(Nat)
      /\ Len(queue'[s]) \in Nat /\ next[s] \in Nat /\ next'[s] \in Nat /\ Stream(s) \in Seq(Nat)
  <2>1. next[s] \in Nat /\ next'[s] \in Nat
    BY DEF CountTypes
  <2>2. queue[s] \in Seq(Nat) /\ queue'[s] \in Seq(Nat)
    BY DEF QueueTypes
  <2>3. Stream(s) \in Seq(Nat)
    BY LineTypes
  <2>4. QED
    BY <2>1, <2>2, <2>3
<1>2. server = "sequenced" /\ (alive'[s] => alive[s]) /\ (dropped[s] => dropped'[s])
  BY Monotone
<1>3. next[s] <= Len(queue[s])
  BY <1>2 DEF PushInv
<1>4. CASE ~Push(s)
  <2>1. next'[s] <= next[s] /\ Len(queue'[s]) >= Len(queue[s])
    BY <1>2, <1>4, LogSteps
  <2>2. ASSUME alive'[s], ~dropped'[s] PROVE Gapless(Stream(s)') /\ Holds(Stream(s)', next'[s])
    <3>1. Stream(s)' = Stream(s)
      BY <1>2, <1>4, <2>2, StreamSteps
    <3>2. Gapless(Stream(s)) /\ Holds(Stream(s), next[s])
      BY <1>2, <2>2 DEF PushInv
    <3>3. Holds(Stream(s), next'[s])
      <4>1. 1 .. next'[s] \subseteq 1 .. next[s]
        BY <1>1, <2>1
      <4>2. QED
        BY <3>2, <4>1 DEF Holds
    <3>4. QED
      BY <3>1, <3>2, <3>3
  <2>3. QED
    BY <1>1, <1>3, <2>1, <2>2
<1>5. CASE Push(s)
  <2>1. /\ next[s] < Len(queue[s]) /\ next'[s] = next[s] + 1 /\ queue'[s] = queue[s]
        /\ down'[s] = Append(down[s], queue[s][next[s] + 1])
        /\ UNCHANGED <<got, backlog, alive, dropped>>
    BY <1>5 DEF Push, client, broker, history, QueueTypes, CountTypes
  <2>2. ASSUME alive'[s], ~dropped'[s] PROVE Gapless(Stream(s)') /\ Holds(Stream(s)', next'[s])
    <3>1. alive[s] /\ ~dropped[s]
      BY <1>2, <2>2
    <3>2. queue[s][next[s] + 1] = next[s] + 1
      <4>1. next[s] + 1 \in DOMAIN queue[s]
        BY <1>1, <2>1
      <4>2. \A i \in DOMAIN Line(s) : Line(s)[i] = i
        BY <1>2, <3>1 DEF WholeInv, Whole
      <4>3. QED
        BY <1>2, <4>1, <4>2 DEF Line
    <3>3. Stream(s)' = Handled(s) \o Append(down[s], next[s] + 1)
      BY <2>1, <3>2 DEF Stream, Handled
    <3>4. Handled(s) \in Seq(Nat) /\ down[s] \in Seq(Nat) /\ next[s] + 1 \in Nat
      <4>1. Handled(s) \in Seq(Nat)
        BY LineTypes, Zenon
      <4>2. down[s] \in Seq(Nat)
        BY DEF QueueTypes
      <4>3. QED
        BY <1>1, <4>1, <4>2
    <3>5. Handled(s) \o Append(down[s], next[s] + 1) = Append(Handled(s) \o down[s], next[s] + 1)
      BY <3>4, AppendLast, Zenon
    <3>6. Stream(s)' = Append(Stream(s), next[s] + 1)
      BY <3>3, <3>5 DEF Stream
    <3>7. Gapless(Stream(s)) /\ Holds(Stream(s), next[s])
      BY <1>2, <3>1 DEF PushInv
    <3>8. Gapless(Append(Stream(s), next[s] + 1)) /\ Holds(Append(Stream(s), next[s] + 1), next[s] + 1)
      BY <1>1, <3>7, GaplessAppend
    <3>9. QED
      BY <2>1, <3>6, <3>8
  <2>3. QED
    BY <1>1, <2>1, <2>2
<1>6. QED
  BY <1>4, <1>5

----------------------------------------------------------------------------

\* Two mailboxes and their server stay in the inductive invariant.
THEOREM MailboxInvariant == Spec => []IInv
<1>1. Init => IInv
  BY TypeInit, RouteInit, ClientInit, OrderInit, WholeInit, FrameInit, PushInit, HeardInit
     DEF IInv
<1>2. IInv /\ [Next]_vars => IInv'
  BY TypeNext, RouteNext, ClientNext, OrderNext, WholeNext, FrameNext, PushNext, HeardNext
     DEF IInv
<1>3. QED
  BY <1>1, <1>2, PTL DEF Spec

\* A side that lost nothing to a full queue never sees a payload without having
\* seen those sent before it, with either server, however sockets break.
THEOREM NothingIsSkipped == Spec => []NoGap
<1>1. ASSUME IInv, NEW s \in Side, ~dropped[s], NEW i \in DOMAIN Handled(s), Handled(s)[i] > 1
      PROVE  \E j \in 1 .. i - 1 : Handled(s)[j] = Handled(s)[i] - 1
  <2>1. Gapless(Handled(s)) /\ Handled(s) \in Seq(Nat)
    <3>1. QueueTypes
      BY <1>1 DEF IInv, TypeOK, QueueTypes
    <3>2. QED
      BY <1>1, <3>1, LineTypes DEF IInv, HeardInv
  <2>2. Handled(s)[i] - 1 \in 1 .. Handled(s)[i] - 1
    BY <1>1, <2>1
  <2>3. QED
    BY <1>1, <2>1, <2>2 DEF Gapless
<1>2. IInv => NoGap
  BY <1>1 DEF NoGap
<1>3. QED
  BY <1>2, MailboxInvariant, PTL

\* What a side tells the sequenced server it has is with its listener or waits
\* for one, whatever the server repeats and whatever is cut off.
THEOREM AcknowledgedIsHandled == Spec => []AckedIsHandled
<1>1. ASSUME IInv, NEW s \in Side, ~dropped[s], NEW n \in 1 .. acked[s]
      PROVE  \E i \in DOMAIN Handled(s) : Handled(s)[i] = n
  <2>1. acked[s] <= upTo[s] /\ acked[s] \in Nat /\ upTo[s] \in Nat
    BY <1>1 DEF IInv, FrameInv, TypeOK
  <2>2. n \in 1 .. upTo[s]
    BY <1>1, <2>1
  <2>3. QED
    BY <1>1, <2>2 DEF IInv, HeardInv, Holds
<1>2. IInv => AckedIsHandled
  BY <1>1 DEF AckedIsHandled
<1>3. QED
  BY <1>2, MailboxInvariant, PTL

=============================================================================
