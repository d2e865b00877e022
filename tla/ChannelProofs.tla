---------------------------- MODULE ChannelProofs ----------------------------
(***************************************************************************)
(* What holds of a channel, its listeners and flush for every number of    *)
(* messages and of changes of the connection.                              *)
(***************************************************************************)
EXTENDS Channel, TLAPS

\* What was heard last is true of a listener for either kind by itself.
ToldInv ==
    attached => /\ "up" \in regs /\ isUp => told = "up"
                /\ "down" \in regs /\ ~isUp => told = "down"

\* close() removes the listeners first, so nothing is late.
LateInv ==
    /\ \A c \in Callers : closing[c] # "no" => ~attached
    /\ ~late

\* Past the native drain, what was sent before flush was called is gone, unless
\* the channel closed.
FlushInv ==
    /\ dc = "connecting" => sent = 0
    /\ surface = "wrapped" /\ work \in {"poll", "settle", "done"} /\ dc = "open" =>
           mark <= sent - buffered

IInv == TypeOK /\ ToldInv /\ LateInv /\ FlushInv

----------------------------------------------------------------------------
(* Type correctness. *)

LEMMA TypeInit == Init => TypeOK
<1> SUFFICES ASSUME Init PROVE TypeOK
  OBVIOUS
<1>1. isUp \in BOOLEAN /\ attached \in BOOLEAN /\ late \in BOOLEAN
  BY Zenon DEF Init
<1>2. closing \in [Callers -> {"no", "draining", "paused", "done"}]
  BY DEF Init
<1>3. QED
  BY <1>1, <1>2, BoundsAreNat DEF Init, TypeOK

\* What a notice can change.
LEMMA TellEffect ==
  ASSUME TypeOK, NEW kinds \in SUBSET {"up", "down", "close"}, Tell(kinds)
  PROVE  /\ late' \in BOOLEAN /\ regs' = regs
         /\ told' \in {"none", "up", "down"}
         /\ kinds \cap regs = {} => late' = late /\ told' = told
         /\ "up" \in kinds \cap regs /\ "down" \notin kinds => told' = "up"
         /\ "down" \in kinds \cap regs /\ "up" \notin kinds => told' = "down"
         /\ "down" \notin kinds \cap regs /\ "up" \notin kinds \cap regs => told' = told
         /\ (\A c \in Callers : closing[c] = "no") => late' = late
<1>1. regs' = regs /\ told' \in {"none", "up", "down"}
  BY DEF Tell, TypeOK
<1>2. late' \in BOOLEAN /\ ((\A c \in Callers : closing[c] = "no") => late' = late)
  BY DEF Tell, TypeOK
<1>3. kinds \cap regs = {} => late' = late
  BY DEF Tell, TypeOK
<1>4. /\ "up" \in kinds \cap regs /\ "down" \notin kinds => told' = "up"
      /\ "down" \in kinds \cap regs /\ "up" \notin kinds => told' = "down"
      /\ "down" \notin kinds \cap regs /\ "up" \notin kinds \cap regs => told' = told
  BY DEF Tell
<1>5. QED
  BY <1>1, <1>2, <1>3, <1>4

LEMMA TypeNext == TypeOK /\ [Next]_vars => TypeOK'
<1> SUFFICES ASSUME TypeOK, [Next]_vars PROVE TypeOK'
  OBVIOUS
<1> USE SurfacesAreKnown, BoundsAreNat DEF network, traffic, wrapper, flushing, Callers
<1>1. CASE Send
  BY <1>1 DEF TypeOK, Send
<1>2. CASE CallFlush
  BY <1>2 DEF TypeOK, CallFlush
<1>3. ASSUME NEW kind \in {"up", "down", "close"}, Register(kind) PROVE TypeOK'
  BY <1>3 DEF TypeOK, Register
<1>4. ASSUME NEW c \in Callers, CallClose(c) PROVE TypeOK'
  <2> USE DEF CallClose, HardClose
  <2>1. UNCHANGED <<pcChanges, traffic, isUp, regs, told, late, surface, flushed, work, mark>>
    BY <1>4
  <2>2. /\ dc' \in {"connecting", "open", "closed"} /\ attached' \in BOOLEAN
        /\ pc' \in {"connected", "disconnected", "failed", "closed"}
    BY <1>4 DEF TypeOK
  <2>3. closing' \in [Callers -> {"no", "draining", "paused", "done"}]
    BY <1>4 DEF TypeOK
  <2> HIDE DEF CallClose, HardClose
  <2>4. QED
    BY <2>1, <2>2, <2>3 DEF TypeOK
<1>5. CASE DcOpens
  <2>1. /\ dc' = "open"
        /\ UNCHANGED <<pc, pcChanges, sent, buffered, surface, flushed, work, mark, closing>>
        /\ Handled(isUp' = TRUE /\ Tell(IF isUp THEN {} ELSE {"up"}))
    BY <1>5 DEF DcOpens
  <2>2. (IF isUp THEN {} ELSE {"up"}) \in SUBSET {"up", "down", "close"}
    OBVIOUS
  <2>3. /\ attached' \in BOOLEAN /\ isUp' \in BOOLEAN
        /\ regs' \subseteq {"up", "down", "close"} /\ told' \in {"none", "up", "down"}
        /\ late' \in BOOLEAN
    BY <2>1, <2>2, TellEffect DEF Handled, TypeOK
  <2>4. QED
    BY <2>1, <2>3 DEF TypeOK
<1>6. CASE DcErrors
  BY <1>6, TellEffect DEF TypeOK, DcErrors, Handled, Down
<1>7. CASE DcCloses
  <2>1. ({"close"} \cup IF isUp THEN {"down"} ELSE {}) \in SUBSET {"up", "down", "close"}
    OBVIOUS
  <2>2. QED
    BY <1>7, <2>1, TellEffect DEF TypeOK, DcCloses, Handled
<1>8. CASE PcChanges
  <2>1. PICK st \in {"connected", "disconnected", "failed"} :
           /\ pc' = st
           /\ Handled(IF st = "connected" THEN UNCHANGED <<isUp, regs, told, late>> ELSE Down)
    BY <1>8 DEF PcChanges
  <2>2. (IF isUp THEN {"down"} ELSE {}) \in SUBSET {"up", "down", "close"}
    OBVIOUS
  <2>3. UNCHANGED <<dc, sent, buffered, surface, flushed, work, mark, closing>>
        /\ pcChanges' \in 0 .. MaxPcChanges
    BY <1>8 DEF PcChanges, TypeOK
  <2>4. /\ attached' \in BOOLEAN /\ isUp' \in BOOLEAN
        /\ regs' \subseteq {"up", "down", "close"} /\ told' \in {"none", "up", "down"}
        /\ late' \in BOOLEAN
    BY <2>1, <2>2, TellEffect DEF Handled, Down, TypeOK
  <2>5. QED
    BY <2>1, <2>3, <2>4 DEF TypeOK
<1>9. CASE Leaves
  BY <1>9 DEF TypeOK, Leaves
<1>10. CASE FlushWork
  <2>1. UNCHANGED <<network, traffic, wrapper, surface, mark, closing>>
    BY <1>10 DEF FlushWork, NativeDone, Poll, SettleEnds
  <2>2. /\ work' \in {"none", "native", "poll", "settle", "done"}
        /\ flushed' \in {"none", "pending", "ok", "timeout"}
    BY <1>10 DEF FlushWork, NativeDone, Poll, SettleEnds, WorkDone, TypeOK
  <2>3. QED
    BY <2>1, <2>2 DEF TypeOK
<1>11. CASE FlushTimesOut
  BY <1>11 DEF TypeOK, FlushTimesOut
<1>12. ASSUME NEW c \in Callers, CloseGoesOn(c) \/ CloseEnds(c) PROVE TypeOK'
  <2>1. CASE CloseGoesOn(c)
    BY <2>1 DEF TypeOK, CloseGoesOn, HardClose
  <2>2. CASE CloseEnds(c)
    BY <2>2 DEF TypeOK, CloseEnds
  <2>3. QED
    BY <1>12, <2>1, <2>2
<1>13. CASE UNCHANGED vars
  BY <1>13 DEF TypeOK, vars
<1>14. QED
  BY <1>1, <1>2, <1>3, <1>4, <1>5, <1>6, <1>7, <1>8, <1>9, <1>10, <1>11, <1>12, <1>13
     DEF Next, Application, Environment, Closes

\* The state keeps the shape the wrapper and its callers give it: in particular
\* the buffer never holds more than was sent.
THEOREM TypeCorrect == Spec => []TypeOK
<1>1. QED
  BY TypeInit, TypeNext, PTL DEF Spec

----------------------------------------------------------------------------
(* Notices. *)

LEMMA NoticeInit == Init => ToldInv /\ LateInv
  BY DEF Init, ToldInv, LateInv

\* A notice of an event comes while the listeners are attached, before any close.
LEMMA HandledNotice ==
  ASSUME TypeOK, LateInv, NEW kinds \in SUBSET {"up", "down", "close"},
         attached, Tell(kinds), UNCHANGED closing, UNCHANGED attached
  PROVE  LateInv'
<1>1. \A c \in Callers : closing[c] = "no"
  BY DEF LateInv
<1>2. late' = late
  BY <1>1, TellEffect
<1>3. QED
  BY <1>2 DEF LateInv

\* Who was up and listens hears of it; who was not is as informed as before.
LEMMA DownTells ==
  ASSUME TypeOK, ToldInv, LateInv, attached, Down, UNCHANGED <<attached, closing>>
  PROVE  ToldInv' /\ LateInv'
<1> DEFINE kinds == IF isUp THEN {"down"} ELSE {}
<1>1. kinds \in SUBSET {"up", "down", "close"} /\ Tell(kinds) /\ ~isUp'
  BY DEF Down
<1>2. regs' = regs /\ ("down" \in regs /\ isUp => told' = "down")
      /\ (~isUp => told' = told)
  BY <1>1, TellEffect
<1>3. ToldInv'
  BY <1>1, <1>2 DEF ToldInv, TypeOK
<1>4. LateInv'
  BY <1>1, HandledNotice
<1>5. QED
  BY <1>3, <1>4

LEMMA NoticeNext == IInv /\ [Next]_vars => ToldInv' /\ LateInv'
<1> SUFFICES ASSUME TypeOK, ToldInv, LateInv, [Next]_vars PROVE ToldInv' /\ LateInv'
  BY DEF IInv
<1> USE DEF network, traffic, wrapper, flushing
<1>1. CASE UNCHANGED <<attached, isUp, regs, told, late, closing>>
  BY <1>1 DEF ToldInv, LateInv
<1>2. ASSUME NEW kind \in {"up", "down", "close"}, Register(kind) PROVE ToldInv' /\ LateInv'
  BY <1>2 DEF Register, ToldInv, LateInv, TypeOK
<1>3. ASSUME NEW c \in Callers, CallClose(c) PROVE ToldInv' /\ LateInv'
  BY <1>3 DEF CallClose, ToldInv, LateInv
<1>4. CASE DcOpens
  <2>1. CASE ~attached
    BY <1>4, <2>1 DEF DcOpens, Handled, ToldInv, LateInv
  <2>2. CASE attached
    <3> DEFINE kinds == IF isUp THEN {} ELSE {"up"}
    <3>1. kinds \in SUBSET {"up", "down", "close"} /\ Tell(kinds) /\ isUp' = TRUE
          /\ UNCHANGED attached /\ UNCHANGED closing
      BY <1>4, <2>2 DEF DcOpens, Handled
    <3>2. regs' = regs /\ ("up" \in regs /\ ~isUp => told' = "up") /\ (isUp => told' = told)
      BY <3>1, TellEffect
    <3>3. QED
      BY <2>2, <3>1, <3>2, HandledNotice DEF ToldInv
  <2>3. QED
    BY <2>1, <2>2
<1>5. CASE DcErrors
  BY <1>5, DownTells DEF DcErrors, Handled, ToldInv, LateInv
<1>6. CASE DcCloses
  <2>1. CASE ~attached
    BY <1>6, <2>1 DEF DcCloses, Handled, ToldInv, LateInv
  <2>2. CASE attached
    <3> DEFINE kinds == {"close"} \cup IF isUp THEN {"down"} ELSE {}
    <3>1. kinds \in SUBSET {"up", "down", "close"} /\ Tell(kinds) /\ isUp' = FALSE
          /\ UNCHANGED attached /\ UNCHANGED closing
      BY <1>6, <2>2 DEF DcCloses, Handled
    <3>2. regs' = regs /\ ("down" \in regs /\ isUp => told' = "down") /\ (~isUp => told' = told)
      BY <3>1, TellEffect
    <3>3. QED
      BY <2>2, <3>1, <3>2, HandledNotice DEF ToldInv, TypeOK
  <2>3. QED
    BY <2>1, <2>2
<1>7. CASE PcChanges
  <2>1. PICK st : Handled(IF st = "connected" THEN UNCHANGED <<isUp, regs, told, late>> ELSE Down)
    BY <1>7 DEF PcChanges
  <2>2. UNCHANGED closing
    BY <1>7 DEF PcChanges
  <2>3. CASE attached /\ st # "connected"
    BY <2>1, <2>2, <2>3, DownTells DEF Handled
  <2>4. CASE ~(attached /\ st # "connected")
    BY <2>1, <2>2, <2>4 DEF Handled, ToldInv, LateInv
  <2>5. QED
    BY <2>3, <2>4
<1>8. ASSUME NEW c \in Callers, CloseGoesOn(c) \/ CloseEnds(c) PROVE ToldInv' /\ LateInv'
  BY <1>8 DEF CloseGoesOn, CloseEnds, HardClose, ToldInv, LateInv, TypeOK
<1>9. CASE Send \/ CallFlush \/ Leaves \/ FlushWork \/ FlushTimesOut \/ UNCHANGED vars
  BY <1>1, <1>9
     DEF Send, CallFlush, Leaves, FlushWork, NativeDone, Poll, SettleEnds, FlushTimesOut, vars
<1>10. QED
  BY <1>2, <1>3, <1>4, <1>5, <1>6, <1>7, <1>8, <1>9
     DEF Next, Application, Environment, Closes

----------------------------------------------------------------------------
(* flush. *)

LEMMA FlushNext == IInv /\ [Next]_vars => FlushInv'
<1> SUFFICES ASSUME TypeOK, FlushInv, [Next]_vars PROVE FlushInv'
  BY DEF IInv
<1> USE DEF network, traffic, wrapper, flushing
<1>1. CASE Send
  BY <1>1 DEF Send, FlushInv, TypeOK
<1>2. CASE CallFlush
  BY <1>2 DEF CallFlush, FlushInv, TypeOK
<1>3. CASE Leaves
  BY <1>3 DEF Leaves, FlushInv, TypeOK
<1>4. CASE NativeDone
  BY <1>4 DEF NativeDone, Drained, FlushInv, TypeOK
<1>5. CASE Poll
  BY <1>5 DEF Poll, WorkDone, FlushInv, TypeOK
<1>6. CASE SettleEnds
  BY <1>6 DEF SettleEnds, WorkDone, FlushInv, TypeOK
<1>7. CASE FlushTimesOut
  BY <1>7 DEF FlushTimesOut, FlushInv
<1>8. CASE /\ UNCHANGED <<sent, buffered, flushing>>
           /\ dc' = "open" => dc = "open"
           /\ dc' = "connecting" => dc = "connecting"
  BY <1>8 DEF FlushInv
<1>9. CASE DcOpens
  BY <1>9 DEF DcOpens, FlushInv, TypeOK
<1>10. ASSUME \/ DcErrors \/ DcCloses \/ PcChanges \/ UNCHANGED vars
              \/ \E kind \in {"up", "down", "close"} : Register(kind)
              \/ \E c \in Callers : CallClose(c) \/ CloseGoesOn(c) \/ CloseEnds(c)
       PROVE  /\ UNCHANGED <<sent, buffered, flushing>>
              /\ dc' = "open" => dc = "open"
              /\ dc' = "connecting" => dc = "connecting"
  BY <1>10 DEF DcErrors, DcCloses, PcChanges, Register, CallClose, CloseGoesOn, CloseEnds,
               HardClose, vars
<1>11. QED
  BY <1>1, <1>2, <1>3, <1>4, <1>5, <1>6, <1>7, <1>8, <1>9, <1>10
     DEF Next, Application, Environment, FlushWork, Closes

----------------------------------------------------------------------------

\* The inductive invariant: the last notices are true, close() comes before the
\* listeners are silent, and a drained flush has let everything out.
THEOREM ChannelInvariant == Spec => []IInv
<1>1. Init => IInv
  BY TypeInit, NoticeInit DEF IInv, FlushInv, Init
<1>2. IInv /\ [Next]_vars => IInv'
  BY TypeNext, NoticeNext, FlushNext DEF IInv
<1>3. QED
  BY <1>1, <1>2, PTL DEF Spec

\* An application that listens for both kinds, from whenever on, was last told
\* what isUp is, whatever order the channel's and the connection's events come in.
THEOREM NoticesAreTrue == Spec => []ToldIsCurrent
<1>1. IInv => ToldIsCurrent
  BY DEF IInv, TypeOK, ToldInv, ToldIsCurrent
<1>2. QED
  BY <1>1, ChannelInvariant, PTL

\* After close() was called, by the application or by forceCloseNoFlush, no event
\* calls a listener.
THEOREM SilentAfterClose == Spec => []NothingToldAfterClose
<1>1. IInv => NothingToldAfterClose
  BY DEF IInv, LateInv, NothingToldAfterClose
<1>2. QED
  BY <1>1, ChannelInvariant, PTL

\* flush(tx) resolves on an open channel only when what was sent before it has
\* left, but for lowThreshold messages where it finds the channel itself.
THEOREM FlushIsHonest == Spec => FlushedMeansSent
<1> DEFINE Left == mark - (sent - buffered) <= (IF surface = "wrapped" THEN 0 ELSE LowThreshold)
<1>1. IInv /\ [Next]_vars =>
        [flushed = "pending" /\ flushed' = "ok" /\ dc = "open" => Left]_vars
  <2> SUFFICES ASSUME TypeOK, FlushInv, [Next]_vars,
                      flushed = "pending", flushed' = "ok", dc = "open"
               PROVE  Left
    BY DEF IInv
  <2> USE DEF network, traffic, wrapper, flushing
  <2>1. CASE Poll
    BY <2>1, SurfacesAreKnown, BoundsAreNat DEF Poll, IsClosed
  <2>2. CASE SettleEnds
    BY <2>2, SurfacesAreKnown, BoundsAreNat DEF SettleEnds, IsClosed, FlushInv, TypeOK
  <2>3. ~(Poll \/ SettleEnds) => UNCHANGED flushed \/ flushed' # "ok"
    BY DEF Next, Application, Environment, FlushWork, Closes, Send, CallFlush, Register,
           CallClose, CloseGoesOn, CloseEnds, HardClose, DcOpens, DcErrors, DcCloses, PcChanges,
           Leaves, NativeDone, FlushTimesOut, vars
  <2>4. QED
    BY <2>1, <2>2, <2>3
<1>2. QED
  BY <1>1, ChannelInvariant, PTL DEF Spec, FlushedMeansSent

============================================================================
