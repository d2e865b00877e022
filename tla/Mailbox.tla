------------------------------ MODULE Mailbox ------------------------------
(***************************************************************************)
(* packages/transport/src/ws: two mailboxTransport clients, "A" and "B",   *)
(* each over a WebSocket that reconnects for ever, and the server between  *)
(* them: the broker of packages/test-helpers, which forwards bare payloads *)
(* and queues for an absent side, or the sequenced mailbox mailbox.js also *)
(* speaks to (hello, deliver, delivered), which is not in the repository.  *)
(*                                                                         *)
(* A payload is the number of the send() call it was given to.  Payloads   *)
(* reach a sequenced server in that order, so the number is also the seq   *)
(* of the "deliver" envelope.                                              *)
(***************************************************************************)
EXTENDS Naturals, Sequences

CONSTANTS
    Servers,     \* the servers considered
    BacklogMax,  \* BACKLOG_MAX, 16 in the code
    MaxQ,        \* MAX_Q, 10000 in the code
    Senders,     \* the sides that send
    MaxSend,     \* bound: send() calls of each of them
    MaxFlaps,    \* bound: sockets the network breaks
    MaxAgain     \* bound: times the sequenced server starts over

ASSUME ServersAreKnown == Servers \subseteq {"broker", "sequenced"}
ASSUME SendersAreSides == Senders \subseteq {"A", "B"}
ASSUME LimitsAreNat ==
    /\ BacklogMax \in Nat \ {0} /\ MaxQ \in Nat
    /\ MaxSend \in Nat /\ MaxFlaps \in Nat /\ MaxAgain \in Nat

Side == {"A", "B"}
Other(s) == IF s = "A" THEN "B" ELSE "A"

VARIABLES
    \* mailboxTransport, per side
    alive, closedByApp, outQ, listening, backlog,
    upTo,        \* deliveredUpTo
    \* browserWSWithReconnect, per side
    conn,        \* the socket: connecting, accepted by the server, open, waiting, shut
    epoch,       \* sockets created; the last one is the current one
    up, down,    \* frames on their way to the server, and back
    \* the server
    server,
    routed,      \* r[side]: the socket payloads for a side go to, 0 = null
    gone,        \* sockets that ended without the server having noticed
    queue,       \* the broker's qA and qB, the sequenced server's log
    acked,       \* sequenced: what a side has acknowledged
    next,        \* sequenced: how far it has pushed on this socket, 0 until hello
    greeted,     \* sequenced: hello arrived on this socket
    flaps, again,
    \* history
    sent,        \* calls of send()
    got,         \* payloads handed to a listener
    dropped      \* a payload for this side fell to a full queue

client  == <<alive, closedByApp, outQ, listening, backlog, upTo>>
socket  == <<conn, epoch, up, down>>
broker  == <<routed, gone, queue>>
seqSrv  == <<acked, next, greeted>>
bounds  == <<server, flaps, again>>
history == <<sent, got, dropped>>
vars == <<client, socket, broker, seqSrv, bounds, history>>

UpFrame == [type : {"hello", "send", "delivered"}, n : Nat]

All(x) == [s \in Side |-> x]

Init ==
    /\ alive = All(TRUE) /\ closedByApp = All(FALSE)
    /\ outQ = All(<<>>) /\ listening = All(FALSE) /\ backlog = All(<<>>) /\ upTo = All(0)
    /\ conn = All("connecting") /\ epoch = All(1) /\ up = All(<<>>) /\ down = All(<<>>)
    /\ server \in Servers
    /\ routed = All(0) /\ gone = All({}) /\ queue = All(<<>>)
    /\ acked = All(0) /\ next = All(0) /\ greeted = All(FALSE)
    /\ flaps = 0 /\ again = 0
    /\ sent = All(0) /\ got = All(<<>>) /\ dropped = All(FALSE)

----------------------------------------------------------------------------
(* The client. *)

\* send(): a mailbox that is no longer alive swallows the frame; an open socket
\* takes it; otherwise it is queued while there is room.
Send(s) ==
    /\ s \in Senders /\ sent[s] < MaxSend
    /\ sent' = [sent EXCEPT ![s] = @ + 1]
    /\ LET frame == [type |-> "send", n |-> sent[s] + 1]
       IN  \/ /\ ~alive[s]
              /\ UNCHANGED <<outQ, up, dropped>>
           \/ /\ alive[s] /\ conn[s] = "open"
              /\ up' = [up EXCEPT ![s] = Append(@, frame)]
              /\ UNCHANGED <<outQ, dropped>>
           \/ /\ alive[s] /\ conn[s] # "open" /\ Len(outQ[s]) < MaxQ
              /\ outQ' = [outQ EXCEPT ![s] = Append(@, frame)]
              /\ UNCHANGED <<up, dropped>>
           \/ /\ alive[s] /\ conn[s] # "open" /\ Len(outQ[s]) = MaxQ
              /\ dropped' = [dropped EXCEPT ![Other(s)] = TRUE]
              /\ UNCHANGED <<outQ, up>>
    /\ UNCHANGED <<alive, closedByApp, listening, backlog, upTo, conn, epoch, down,
                   broker, seqSrv, bounds, got>>

\* Mutant: the queue waits for another occasion.
OpenedWithoutFlush(s) ==
    /\ conn[s] = "accepted"
    /\ conn' = [conn EXCEPT ![s] = "open"]
    /\ up' = [up EXCEPT ![s] = Append(@, [type |-> "hello", n |-> upTo[s]])]
    /\ UNCHANGED <<client, epoch, down, broker, seqSrv, bounds, history>>

\* The open event: hello, then everything queued.
Opened(s) ==
    /\ conn[s] = "accepted"
    /\ conn' = [conn EXCEPT ![s] = "open"]
    /\ IF alive[s]
         THEN /\ up' = [up EXCEPT ![s] = Append(@, [type |-> "hello", n |-> upTo[s]])
                                           \o outQ[s]]
              /\ outQ' = [outQ EXCEPT ![s] = <<>>]
         ELSE UNCHANGED <<up, outQ>>
    /\ UNCHANGED <<alive, closedByApp, listening, backlog, upTo, epoch, down, broker, seqSrv,
                   bounds, history>>

\* Mutant: the early backlog is not bounded.
EmitUnbounded(s, n) ==
    IF listening[s]
      THEN got' = [got EXCEPT ![s] = Append(@, n)] /\ UNCHANGED <<backlog, dropped>>
      ELSE backlog' = [backlog EXCEPT ![s] = Append(@, n)] /\ UNCHANGED <<got, dropped>>

\* Mutant: what nobody listens for is not kept.
EmitUnheard(s, n) ==
    /\ got' = IF listening[s] THEN [got EXCEPT ![s] = Append(@, n)] ELSE got
    /\ UNCHANGED <<backlog, dropped>>

\* emit(): to the listeners, or into the backlog, whose oldest entry makes room.
Emit(s, n) ==
    \/ /\ listening[s]
       /\ got' = [got EXCEPT ![s] = Append(@, n)]
       /\ UNCHANGED <<backlog, dropped>>
    \/ /\ ~listening[s] /\ Len(backlog[s]) < BacklogMax
       /\ backlog' = [backlog EXCEPT ![s] = Append(@, n)]
       /\ UNCHANGED <<got, dropped>>
    \/ /\ ~listening[s] /\ Len(backlog[s]) = BacklogMax
       /\ backlog' = [backlog EXCEPT ![s] = Append(Tail(@), n)]
       /\ dropped' = [dropped EXCEPT ![s] = TRUE]
       /\ UNCHANGED got

\* A message event.  An envelope is emitted whatever its seq, and acknowledged
\* when it is new; the broker's payloads are emitted as they are.
Receive(s) ==
    /\ conn[s] = "open" /\ down[s] # <<>>
    /\ down' = [down EXCEPT ![s] = Tail(@)]
    /\ LET n == Head(down[s])
       IN  IF alive[s]
             THEN /\ Emit(s, n)
                  /\ IF server = "sequenced" /\ n > upTo[s]
                       THEN /\ upTo' = [upTo EXCEPT ![s] = n]
                            /\ up' = [up EXCEPT ![s] =
                                        Append(@, [type |-> "delivered", n |-> n])]
                       ELSE UNCHANGED <<upTo, up>>
             ELSE UNCHANGED <<backlog, got, dropped, upTo, up>>
    /\ UNCHANGED <<alive, closedByApp, outQ, listening, conn, epoch, broker, seqSrv, bounds,
                   sent>>

\* Mutant: the backlog waits for the next message.
SubscribeLater(s) ==
    /\ alive[s] /\ ~listening[s]
    /\ listening' = [listening EXCEPT ![s] = TRUE]
    /\ UNCHANGED <<alive, closedByApp, outQ, backlog, upTo, socket, broker, seqSrv, bounds,
                   history>>

\* Mutant: the backlog is replayed to every new listener.
SubscribeReplaying(s) ==
    /\ alive[s] /\ ~listening[s]
    /\ listening' = [listening EXCEPT ![s] = TRUE]
    /\ got' = [got EXCEPT ![s] = @ \o backlog[s]]
    /\ UNCHANGED <<alive, closedByApp, outQ, backlog, upTo, socket, broker, seqSrv, bounds,
                   sent, dropped>>

\* onMessage(cb): the new listener gets the backlog first.
Subscribe(s) ==
    /\ alive[s] /\ ~listening[s]
    /\ listening' = [listening EXCEPT ![s] = TRUE]
    /\ got' = [got EXCEPT ![s] = @ \o backlog[s]]
    /\ backlog' = [backlog EXCEPT ![s] = <<>>]
    /\ UNCHANGED <<alive, closedByApp, outQ, upTo, socket, broker, seqSrv, bounds,
                   sent, dropped>>

\* The last listener leaves, as between two protocols on one transport.
Unsubscribe(s) ==
    /\ listening[s]
    /\ listening' = [listening EXCEPT ![s] = FALSE]
    /\ UNCHANGED <<alive, closedByApp, outQ, backlog, upTo, socket, broker, seqSrv, bounds,
                   history>>

\* The current socket ends: the server may still read what was on its way, and
\* what it sends to it from now on is lost.
SocketEnds(s) ==
    /\ \E k \in 0 .. Len(up[s]) : up' = [up EXCEPT ![s] = SubSeq(@, 1, k)]
    /\ down' = [down EXCEPT ![s] = <<>>]
    /\ gone' = IF conn[s] \in {"accepted", "open"}
                 THEN [gone EXCEPT ![s] = @ \cup {epoch[s]}] ELSE gone

\* Mutant: the mailbox lives on until reconnecting is given up.
AliveAfterClose(s) == alive[s]

\* ws.js emits onClose on every close event, also of an attempt that failed, so
\* the mailbox takes the first one for the last.
AliveAfterFlap(s) == FALSE

\* close(): returns at once when a disconnect has already ended the mailbox.
AppClose(s) ==
    /\ alive[s]
    /\ alive' = [alive EXCEPT ![s] = FALSE]
    /\ closedByApp' = [closedByApp EXCEPT ![s] = TRUE]
    /\ conn' = [conn EXCEPT ![s] = "shut"]
    /\ SocketEnds(s)
    /\ UNCHANGED <<outQ, listening, backlog, upTo, epoch, routed, queue, seqSrv, bounds,
                   history>>

Flap(s) ==
    /\ flaps < MaxFlaps /\ flaps' = flaps + 1
    /\ conn[s] \in {"connecting", "accepted", "open"}
    /\ conn' = [conn EXCEPT ![s] = "waiting"]
    /\ alive' = [alive EXCEPT ![s] = AliveAfterFlap(s)]
    /\ SocketEnds(s)
    /\ UNCHANGED <<closedByApp, outQ, listening, backlog, upTo, epoch, routed, queue, seqSrv,
                   server, again, history>>

\* scheduleReconnect: the socket goes on reconnecting under a dead mailbox.
Reconnect(s) ==
    /\ conn[s] = "waiting"
    /\ conn' = [conn EXCEPT ![s] = "connecting"]
    /\ epoch' = [epoch EXCEPT ![s] = @ + 1]
    /\ UNCHANGED <<client, up, down, broker, seqSrv, bounds, history>>

----------------------------------------------------------------------------
(* The server. *)

\* The connection event: the newest socket of a side replaces any older one,
\* and the broker hands it the queue.
Accept(s) ==
    /\ conn[s] = "connecting"
    /\ conn' = [conn EXCEPT ![s] = "accepted"]
    /\ routed' = [routed EXCEPT ![s] = epoch[s]]
    /\ IF server = "broker"
         THEN down' = [down EXCEPT ![s] = queue[s]] /\ queue' = [queue EXCEPT ![s] = <<>>]
         ELSE UNCHANGED <<down, queue>>
    /\ greeted' = [greeted EXCEPT ![s] = FALSE]
    /\ UNCHANGED <<client, epoch, up, gone, acked, next, bounds, history>>

\* A payload for side o: to its socket, which may be dead already, or queued.  The
\* broker queues too once it knows that the socket is closing.
Route(o, n) ==
    \/ /\ server = "broker" /\ routed[o] # 0
       /\ down' = IF routed[o] \in gone[o] THEN down
                  ELSE [down EXCEPT ![o] = Append(@, n)]
       /\ UNCHANGED queue
    \/ /\ server = "sequenced" \/ routed[o] \in {0} \cup gone[o]
       /\ queue' = [queue EXCEPT ![o] = Append(@, n)]
       /\ UNCHANGED down

\* A frame of side s.  The broker ignores all but payloads.
ServerReceives(s) ==
    /\ up[s] # <<>>
    /\ up' = [up EXCEPT ![s] = Tail(@)]
    /\ LET f == Head(up[s])
       IN  \/ /\ f.type = "send"
              /\ Route(Other(s), f.n)
              /\ UNCHANGED seqSrv
           \/ /\ f.type = "hello"
              /\ next' = [next EXCEPT ![s] = f.n]
              /\ greeted' = [greeted EXCEPT ![s] = TRUE]
              /\ UNCHANGED <<down, queue, acked>>
           \/ /\ f.type = "delivered"
              /\ acked' = [acked EXCEPT ![s] = f.n]
              /\ UNCHANGED <<down, queue, next, greeted>>
    /\ UNCHANGED <<client, conn, epoch, routed, gone, bounds, history>>

\* Mutant: the close event forgets the side, whichever socket it was.
RoutedWithout(s, e) == 0

\* The close handler compares the socket with the one registered.
RoutedAfter(s, e) == IF routed[s] = e THEN 0 ELSE routed[s]

\* The close event of a socket comes after its last message, and may come after
\* its successor has connected.
ServerNotices(s, e) ==
    /\ e \in gone[s] /\ up[s] = <<>>
    /\ gone' = [gone EXCEPT ![s] = @ \ {e}]
    /\ routed' = [routed EXCEPT ![s] = RoutedAfter(s, e)]
    /\ UNCHANGED <<client, socket, queue, seqSrv, bounds, history>>

\* The sequenced server pushes its log from where hello said.
Push(s) ==
    /\ server = "sequenced" /\ greeted[s]
    /\ conn[s] = "open" /\ next[s] < Len(queue[s])
    /\ next' = [next EXCEPT ![s] = @ + 1]
    /\ down' = [down EXCEPT ![s] = Append(@, queue[s][next[s] + 1])]
    /\ UNCHANGED <<client, conn, epoch, up, broker, acked, greeted, bounds, history>>

\* At-least-once delivery: it starts over after what was acknowledged.
PushAgain(s) ==
    /\ server = "sequenced" /\ greeted[s] /\ again < MaxAgain
    /\ acked[s] < next[s]
    /\ next' = [next EXCEPT ![s] = acked[s]]
    /\ again' = again + 1
    /\ UNCHANGED <<client, socket, broker, acked, greeted, server, flaps, history>>

----------------------------------------------------------------------------

Client(s) ==
    \/ Send(s) \/ Opened(s) \/ Receive(s) \/ Subscribe(s) \/ Unsubscribe(s)
    \/ AppClose(s) \/ Flap(s) \/ Reconnect(s)

Server(s) ==
    \/ Accept(s) \/ ServerReceives(s) \/ Push(s) \/ PushAgain(s)
    \/ \E e \in gone[s] : ServerNotices(s, e)

Next == \E s \in Side : Client(s) \/ Server(s)

Spec == Init /\ [][Next]_vars

\* Sockets connect and deliver while nothing breaks them, the server runs, and
\* the application listens again and again.  It need not send or close.
FairSpec ==
    /\ Spec
    /\ \A s \in Side :
          /\ WF_vars(Accept(s)) /\ WF_vars(Opened(s)) /\ WF_vars(Receive(s))
          /\ WF_vars(Reconnect(s)) /\ SF_vars(Subscribe(s))
          /\ WF_vars(ServerReceives(s)) /\ WF_vars(Push(s))

----------------------------------------------------------------------------
(* Properties. *)

\* Every variable stays in its type and every queue of the client in its limit.
TypeOK ==
    /\ alive \in [Side -> BOOLEAN] /\ closedByApp \in [Side -> BOOLEAN]
    /\ listening \in [Side -> BOOLEAN] /\ greeted \in [Side -> BOOLEAN]
    /\ dropped \in [Side -> BOOLEAN]
    /\ outQ \in [Side -> Seq(UpFrame)] /\ up \in [Side -> Seq(UpFrame)]
    /\ \A s \in Side : Len(outQ[s]) <= MaxQ /\ Len(backlog[s]) <= BacklogMax
    /\ backlog \in [Side -> Seq(Nat)] /\ down \in [Side -> Seq(Nat)]
    /\ queue \in [Side -> Seq(Nat)] /\ got \in [Side -> Seq(Nat)]
    /\ conn \in [Side -> {"connecting", "accepted", "open", "waiting", "shut"}]
    /\ epoch \in [Side -> Nat] /\ routed \in [Side -> Nat] /\ gone \in [Side -> SUBSET Nat]
    /\ upTo \in [Side -> Nat] /\ acked \in [Side -> Nat] /\ next \in [Side -> Nat]
    /\ server \in Servers /\ flaps \in Nat /\ again \in Nat /\ sent \in [Side -> Nat]

\* What a side has been given, or will be given when it listens again.
Handled(s) == got[s] \o backlog[s]

\* Through disconnects, replaced sockets and late close events, a side never
\* sees a payload without having seen those sent before it, unless one fell to
\* a full queue.
NoGap ==
    \A s \in Side : ~dropped[s] =>
        \A i \in DOMAIN Handled(s) :
            Handled(s)[i] > 1 => \E j \in 1 .. (i - 1) : Handled(s)[j] = Handled(s)[i] - 1

\* The broker delivers every payload at most once and in the order of the sends,
\* whether it was forwarded, queued for an absent side or kept in a backlog.
InOrderOnce ==
    server = "broker" =>
        \A s \in Side : \A i, j \in DOMAIN Handled(s) : i < j => Handled(s)[i] < Handled(s)[j]

\* Nothing broke, was closed or was full.
Undisturbed == flaps = 0 /\ \A s \in Side : ~closedByApp[s] /\ ~dropped[s]

\* The payloads among the frames of q are k + 1 .. m, one of each and in that order.
InTurn(q, k, m) ==
    LET at == {i \in DOMAIN q : q[i].type = "send"}
    IN  /\ {q[i].n : i \in at} = k + 1 .. m
        /\ \A i, j \in at : i < j => q[i].n < q[j].n

\* As long as no socket breaks, every payload is in exactly one of the places
\* between send() and the listener, in order, whoever connects or listens first.
NothingLost ==
    Undisturbed /\ server = "broker" =>
        \A s \in Side :
            LET routedTo == Handled(s) \o down[s] \o queue[s]
                before == up[Other(s)] \o outQ[Other(s)]
            IN  /\ routedTo = [i \in 1 .. Len(routedTo) |-> i]
                /\ InTurn(before, Len(routedTo), sent[Other(s)])

\* A close event of an old socket never takes the route of its successor.
OpenMeansRouted ==
    \A s \in Side : conn[s] \in {"accepted", "open"} => routed[s] = epoch[s]

\* A payload the server was told is delivered has reached a listener or waits in
\* the backlog for one, unless it fell to a full queue.
AckedIsHandled ==
    \A s \in Side : ~dropped[s] =>
        \A n \in 1 .. acked[s] : \E i \in DOMAIN Handled(s) : Handled(s)[i] = n

\* Everything sent reaches the peer's listener as long as no socket breaks.
AllDelivered ==
    \A s \in Side : \A n \in 1 .. MaxSend :
        sent[s] = n ~> (\E i \in DOMAIN got[Other(s)] : got[Other(s)][i] = n) \/ ~Undisturbed

\* "Durable: queues outbound frames while disconnected (bounded)" (mailbox.js:15):
\* until the application closes the mailbox, a frame given to send() is on the
\* socket or in the queue when send() returns, or the queue is full.
SendsAreKept ==
    [][\A s \in Side : sent'[s] # sent[s] /\ ~closedByApp[s] =>
          \/ Len(up'[s]) + Len(outQ'[s]) > Len(up[s]) + Len(outQ[s])
          \/ dropped'[Other(s)]]_vars

=============================================================================
