------------------------------- MODULE Channel -------------------------------
(***************************************************************************)
(* packages/transport: one RTCDataChannel behind wrapDataChannel (dc.js),  *)
(* the notices it gives to listeners, flush(tx) (flush.js), and the ways   *)
(* to close it: close(), which drains for a while, and forceCloseNoFlush   *)
(* (teardown.js), both of which end in hardCloseRTC.                       *)
(*                                                                         *)
(* A message is a unit of bufferedAmount.  A timer may fire at any time    *)
(* after it was armed.  The connection is not closed behind the wrapper's  *)
(* back, and closing it fires no event (W3C WebRTC, close the connection). *)
(***************************************************************************)
EXTENDS Integers

CONSTANTS
    Surfaces,      \* what flush finds on tx: "wrapped" (flush, bufferedAmount), "dc"
    LowThreshold,  \* lowThreshold of flush, in messages
    MaxSent,       \* bound: messages
    MaxPcChanges   \* bound: changes of the connection's state

ASSUME SurfacesAreKnown == Surfaces \subseteq {"wrapped", "dc"}
ASSUME BoundsAreNat     == LowThreshold \in Nat /\ MaxSent \in Nat /\ MaxPcChanges \in Nat

Callers == {"close", "force"}

VARIABLES
    dc,         \* dc.readyState
    pc,         \* pc.connectionState
    pcChanges,  \* how often it changed
    sent,       \* messages given to dc.send
    buffered,   \* dc.bufferedAmount; it stays when the channel closes
    attached,   \* the wrapper's event listeners are
    isUp,
    regs,       \* which of onUp, onDown, onClose the application has called
    told,       \* what its onUp and onDown listeners heard last
    late,       \* an event called a listener after close() had been called
    surface,
    flushed,    \* the promise of flush(tx)
    work,       \* where its work is: it goes on after the promise timed out
    mark,       \* messages sent when flush was called
    closing     \* per caller, how far closing is

network  == <<dc, pc, pcChanges>>
traffic  == <<sent, buffered>>
wrapper  == <<attached, isUp, regs, told, late>>
flushing == <<surface, flushed, work, mark>>
vars     == <<network, traffic, wrapper, flushing, closing>>

Init ==
    /\ dc \in {"connecting", "open"} /\ pc = "connected" /\ pcChanges = 0
    /\ sent = 0 /\ buffered = 0
    /\ attached = TRUE /\ isUp = (dc = "open")
    /\ regs = {} /\ told = "none" /\ late = FALSE
    /\ surface \in Surfaces /\ flushed = "none" /\ work = "none" /\ mark = 0
    /\ closing = [c \in Callers |-> "no"]

----------------------------------------------------------------------------
(* Listeners. *)

\* Calls the listeners of the kinds that are registered, in this order.
Tell(kinds) ==
    LET heard == kinds \cap regs
    IN  /\ late' = (late \/ (heard # {} /\ \E c \in Callers : closing[c] # "no"))
        /\ told' = CASE "up" \in heard -> "up" [] "down" \in heard -> "down" [] OTHER -> told
        /\ UNCHANGED regs

\* Mutant: an error is reported to nobody.
DownSilent == isUp' = FALSE /\ UNCHANGED <<regs, told, late>>

\* Down is told only by who was up.
Down ==
    /\ isUp' = FALSE
    /\ Tell(IF isUp THEN {"down"} ELSE {})

\* The handler of an event runs while the listeners are attached.
Handled(handler) ==
    /\ UNCHANGED attached
    /\ IF attached THEN handler ELSE UNCHANGED <<isUp, regs, told, late>>

DcOpens ==
    /\ dc = "connecting" /\ dc' = "open"
    /\ Handled(isUp' = TRUE /\ Tell(IF isUp THEN {} ELSE {"up"}))
    /\ UNCHANGED <<pc, pcChanges, traffic, flushing, closing>>

DcErrors ==
    /\ dc = "open"
    /\ Handled(Down)
    /\ UNCHANGED <<network, traffic, flushing, closing>>

\* The peer closed the channel, or the transport under it is gone.
DcCloses ==
    /\ dc \in {"connecting", "open"} /\ dc' = "closed"
    /\ Handled(/\ isUp' = FALSE
               /\ Tell({"close"} \cup IF isUp THEN {"down"} ELSE {}))
    /\ UNCHANGED <<pc, pcChanges, traffic, flushing, closing>>

\* connectionstatechange: recovering brings isUp back in no case.
PcChanges ==
    /\ pc # "closed" /\ pcChanges < MaxPcChanges
    /\ pcChanges' = pcChanges + 1
    /\ \E st \in {"connected", "disconnected", "failed"} \ {pc} :
          /\ pc' = st
          /\ Handled(IF st = "connected" THEN UNCHANGED <<isUp, regs, told, late>> ELSE Down)
    /\ UNCHANGED <<dc, traffic, flushing, closing>>

\* onUp, onDown, onClose: a late listener is called at once; onClose also when the
\* channel is only not up yet.
Register(kind) ==
    /\ kind \notin regs /\ regs' = regs \cup {kind}
    /\ LET now == IF kind = "up" THEN isUp ELSE ~isUp
       IN  told' = IF now /\ kind # "close" THEN kind ELSE told
    /\ UNCHANGED <<network, traffic, attached, isUp, late, flushing, closing>>

----------------------------------------------------------------------------
(* Traffic. *)

\* send throws unless the channel is open: it may be on its way to be closed.
Send ==
    /\ dc = "open" /\ sent < MaxSent
    /\ sent' = sent + 1 /\ buffered' = buffered + 1
    /\ UNCHANGED <<network, wrapper, flushing, closing>>

\* The transport takes a message off the buffer.
Leaves ==
    /\ dc = "open" /\ pc = "connected" /\ buffered > 0
    /\ buffered' = buffered - 1
    /\ UNCHANGED <<network, sent, wrapper, flushing, closing>>

----------------------------------------------------------------------------
(* flush(tx). *)

\* Mutant: the default lowThreshold is good enough for the native drain, too.
DrainedLow == dc # "open" \/ buffered <= LowThreshold

\* waitForDrain resolves, by an event or by polling.
Drained == dc # "open" \/ buffered = 0

\* Only a channel that is found on tx tells that it is closed.
IsClosed == surface = "dc" /\ dc \in {"closing", "closed"}

WorkDone ==
    /\ work' = "done"
    /\ flushed' = IF flushed = "pending" THEN "ok" ELSE flushed

CallFlush ==
    /\ flushed = "none"
    /\ flushed' = "pending" /\ mark' = sent
    /\ work' = IF surface = "wrapped" THEN "native" ELSE "poll"
    /\ UNCHANGED <<network, traffic, wrapper, surface, closing>>

NativeDone ==
    /\ work = "native" /\ Drained
    /\ work' = "poll"
    /\ UNCHANGED <<network, traffic, wrapper, surface, flushed, mark, closing>>

\* A turn of pollNumber that does not just sleep.
Poll ==
    /\ work = "poll"
    /\ \/ buffered <= LowThreshold /\ work' = "settle" /\ UNCHANGED flushed
       \/ buffered > LowThreshold /\ IsClosed /\ WorkDone
    /\ UNCHANGED <<network, traffic, wrapper, surface, mark, closing>>

\* The end of maybeSettle: at zero, or after 100 ms.
SettleEnds ==
    /\ work = "settle"
    /\ IF buffered <= LowThreshold \/ IsClosed THEN WorkDone ELSE work' = "poll" /\ UNCHANGED flushed
    /\ UNCHANGED <<network, traffic, wrapper, surface, mark, closing>>

\* The guard rejects; nothing stops the work.
FlushTimesOut ==
    /\ flushed = "pending" /\ flushed' = "timeout"
    /\ UNCHANGED <<network, traffic, wrapper, surface, work, mark, closing>>

----------------------------------------------------------------------------
(* Closing. *)

\* Mutant: the connection is left to close by itself.
HardCloseChannelOnly(c) ==
    /\ dc' = "closing"
    /\ closing' = [closing EXCEPT ![c] = "paused"]
    /\ UNCHANGED <<pc, pcChanges, traffic, flushing>>

\* hardCloseRTC, up to its pause: the connection closes the channel abruptly.
HardClose(c) ==
    /\ dc' = "closed" /\ pc' = "closed"
    /\ closing' = [closing EXCEPT ![c] = "paused"]
    /\ UNCHANGED <<pcChanges, traffic, flushing>>

\* Mutant: the listeners are removed only when the channel has closed.
CallCloseListening(c) ==
    /\ closing[c] = "no"
    /\ UNCHANGED wrapper
    /\ IF dc = "open"
         THEN closing' = [closing EXCEPT ![c] = "draining"] /\ UNCHANGED <<network, traffic, flushing>>
         ELSE HardClose(c)

\* close(), called by the application or from forceCloseNoFlush.
CallClose(c) ==
    /\ closing[c] = "no"
    /\ attached' = FALSE /\ UNCHANGED <<isUp, regs, told, late>>
    /\ IF dc = "open"
         THEN closing' = [closing EXCEPT ![c] = "draining"] /\ UNCHANGED <<network, traffic, flushing>>
         ELSE HardClose(c)

\* Mutant: close waits for the drain without the 200 ms.
CloseDrainedOnly(c) ==
    /\ closing[c] = "draining" /\ Drained
    /\ HardClose(c)
    /\ UNCHANGED wrapper

\* The race of the drain with 200 ms is over.
CloseGoesOn(c) ==
    /\ closing[c] = "draining"
    /\ HardClose(c)
    /\ UNCHANGED wrapper

\* The pauses of hardCloseRTC and forceCloseNoFlush, which finds neither channel
\* nor connection on a wrapper, are over.
CloseEnds(c) ==
    /\ closing[c] = "paused"
    /\ closing' = [closing EXCEPT ![c] = "done"]
    /\ UNCHANGED <<network, traffic, wrapper, flushing>>

----------------------------------------------------------------------------

Application ==
    \/ Send \/ CallFlush
    \/ \E kind \in {"up", "down", "close"} : Register(kind)
    \/ \E c \in Callers : CallClose(c)

Environment == DcOpens \/ DcErrors \/ DcCloses \/ PcChanges \/ Leaves

FlushWork == NativeDone \/ Poll \/ SettleEnds

Closes == \E c \in Callers : CloseGoesOn(c) \/ CloseEnds(c)

Next == Application \/ Environment \/ FlushWork \/ FlushTimesOut \/ Closes

Spec == Init /\ [][Next]_vars

\* Timers fire and jobs run.  The network owes nothing: a buffer may never drain.
FairSpec ==
    /\ Spec
    /\ WF_vars(FlushWork) /\ WF_vars(FlushTimesOut)
    /\ \A c \in Callers : WF_vars(CloseGoesOn(c)) /\ WF_vars(CloseEnds(c))

----------------------------------------------------------------------------

\* The state is of the shape the wrapper and its callers keep it in.
TypeOK ==
    /\ dc \in {"connecting", "open", "closed"}
    /\ pc \in {"connected", "disconnected", "failed", "closed"} /\ pcChanges \in 0 .. MaxPcChanges
    /\ sent \in 0 .. MaxSent /\ buffered \in 0 .. sent
    /\ attached \in BOOLEAN /\ isUp \in BOOLEAN
    /\ regs \subseteq {"up", "down", "close"} /\ told \in {"none", "up", "down"} /\ late \in BOOLEAN
    /\ surface \in Surfaces /\ mark \in 0 .. sent
    /\ flushed \in {"none", "pending", "ok", "timeout"}
    /\ work \in {"none", "native", "poll", "settle", "done"}
    /\ closing \in [Callers -> {"no", "draining", "paused", "done"}]

\* An application that listens for both, from whenever on, knows whether the
\* channel is up: opening, errors, closes and states of the connection in any order
\* leave its last notice true.
ToldIsCurrent ==
    attached /\ {"up", "down"} \subseteq regs => told = (IF isUp THEN "up" ELSE "down")

\* What close() sets off reaches no listener: after the call only a registration
\* calls one, whatever becomes of the channel while it drains.
NothingToldAfterClose == ~late

\* flush resolves on an open channel only when all that was sent before it was
\* called has left the process, or, where the channel is polled and not drained,
\* all but lowThreshold.
FlushedMeansSent ==
    [][flushed = "pending" /\ flushed' = "ok" /\ dc = "open" =>
           mark - (sent - buffered) <= (IF surface = "wrapped" THEN 0 ELSE LowThreshold)]_vars

\* Whatever the peer and the network do, flush settles and close() returns; and
\* the work of a flush that sees its channel close ends.
CallsSettle ==
    /\ (flushed = "pending") ~> (flushed # "pending")
    /\ \A c \in Callers : (closing[c] # "no") ~> (closing[c] = "done")
    /\ (surface = "dc" /\ dc = "closed" /\ work # "none") ~> (work = "done")

\* flush.js:18 of resolveOnClose: a channel that closes while it is drained ends
\* the work of flush, by default.
FlushEndsOnClose == (dc = "closed" /\ work # "none") ~> (work = "done")

=============================================================================
