---------------------------- MODULE WebrtcProofs ----------------------------
(***************************************************************************)
(* What holds of the signalling and of the data channel it leads to for   *)
(* every number of candidates and of failures, in both modes.              *)
(***************************************************************************)
EXTENDS Webrtc, SequenceTheorems, TLAPS

----------------------------------------------------------------------------
(* The invariant. *)

\* What really travels: only candidates that exist, and an answer only once the
\* responder has sent it.
Wire == [type : {"offer", "answer", "ice"}, n : Cand]
Posted == {m \in Wire : m.type = "answer" => rBody = "answered"}
WireInv == net \in [Side -> Seq(Posted)]

\* How far the two sides are, one relative to the other: a remote description is
\* set before anything drains, and the initiator's only after the answer was sent.
StageInv ==
    /\ haveRemote \/ iAnswer = "draining" => remote["I"]
    /\ rBody = "draining" => remote["R"]
    /\ iAnswer # "none" \/ remote["I"] => rBody = "answered"
    /\ pc["R"] \in {"connected", "disconnected"} => rBody = "answered"
    /\ rBody \in {"none", "waiting"} => pc["R"] = "none" /\ ch["R"] = "none"
    /\ rBody = "none" => ~timer["R"] /\ ~hasClosed

\* A side that has signalled the end signals nothing more: it has gathered all,
\* or it is an initiator that no longer listens for candidates.
EndInv ==
    \A s \in Side :
        /\ eocSent[s] => gath[s] = MaxCand + 1 \/ (s = "I" /\ ~trickling["I"])
        /\ \A i \in DOMAIN out[s] : out[s][i] = End => eocSent[s] /\ i = Len(out[s])

\* The responder's channel: what is sent goes to it while it is up, and neither
\* the watchdog nor a close under way can end it behind the back of send.
LiveInv ==
    /\ live => connected /\ wrapped /\ ch["R"] = "open" /\ ~timer["R"] /\ ~closing
    /\ wrapped \/ closing => ch["R"] # "none" /\ rBody = "answered"

\* After onClose nothing can bring the responder up again.
ClosedInv ==
    /\ hasClosed => ~listening["R"] /\ ~connected /\ pc["R"] \in {"none", "closed"}
    /\ fired = IF hasClosed THEN 1 ELSE 0

IInv == TypeOK /\ WireInv /\ StageInv /\ EndInv /\ LiveInv /\ ClosedInv /\ ~early

----------------------------------------------------------------------------
(* Type correctness. *)

\* Every leaf below may take a step apart into the actions, and the tuples of
\* variables they leave unchanged.
USE DEF platform, both, initiator, signals, facade, responder, history, vars,
        Next, Initiator, Responder, Platform

LEMMA Sides ==
  /\ "I" \in Side /\ "R" \in Side /\ "I" # "R"
  /\ \A s \in Side : Other(s) \in Side /\ (s = "I" \/ s = "R")
BY DEF Side, Other

LEMMA Bounds ==
  /\ MaxCand \in Nat /\ MaxCand + 1 \in Nat /\ Cand = 0 .. MaxCand
  /\ End = 0 /\ End \in Cand /\ MaxCand \in Cand /\ Cand \subseteq Nat
BY BoundsAreNat DEF Cand, End

\* The parts of TypeOK, by who changes them.
EnvTypes == env \in Env /\ faults \in 0 .. MaxFaults /\ undisturbed \in BOOLEAN
PcTypes ==
    /\ pc \in [Side -> {"none", "new", "connected", "disconnected", "failed", "closed"}]
    /\ ch \in [Side -> {"none", "connecting", "open", "closed"}]
    /\ local \in [Side -> BOOLEAN] /\ remote \in [Side -> BOOLEAN]
CandTypes ==
    /\ gath \in [Side -> 0 .. MaxCand + 1] /\ added \in [Side -> SUBSET Cand]
    /\ sdpN \in [Side -> Cand]
FlagTypes ==
    /\ listening \in [Side -> BOOLEAN] /\ trickling \in [Side -> BOOLEAN]
    /\ eocSent \in [Side -> BOOLEAN] /\ timer \in [Side -> BOOLEAN]
QueueTypes ==
    /\ pending \in Seq(Cand) /\ prePending \in Seq(Cand) /\ deferred \in Seq(Cand)
    /\ out \in [Side -> Seq(Cand)]
InitiatorTypes ==
    /\ iBody \in {"offer", "local", "done"}
    /\ iAnswer \in {"none", "setting", "draining", "done"}
    /\ iPromise \in {"pending", "resolved", "rejected"}
    /\ haveRemote \in BOOLEAN /\ eocPending \in BOOLEAN /\ eocApplied \in BOOLEAN
ResponderTypes ==
    /\ rBody \in {"none", "waiting", "remote", "draining", "answer", "local", "answered",
                  "failed"}
    /\ preEoc \in BOOLEAN
    /\ wrapped \in BOOLEAN /\ live \in BOOLEAN /\ connected \in BOOLEAN
    /\ hasClosed \in BOOLEAN /\ closing \in BOOLEAN
    /\ early \in BOOLEAN /\ fired \in Nat

LEMMA TypeParts ==
  TypeOK <=> /\ EnvTypes /\ PcTypes /\ CandTypes /\ FlagTypes /\ QueueTypes
             /\ InitiatorTypes /\ ResponderTypes /\ net \in [Side -> Seq(Message)]
BY DEF TypeOK, EnvTypes, PcTypes, CandTypes, FlagTypes, QueueTypes, InitiatorTypes,
       ResponderTypes

LEMMA WireIsMessage ==
  /\ WireInv => net \in [Side -> Seq(Message)]
  /\ WireInv' => net' \in [Side -> Seq(Message)]
<1>1. Posted \subseteq Message /\ Posted' \subseteq Message
  BY Bounds DEF Posted, Wire, Message
<1>2. WireInv => net \in [Side -> Seq(Message)]
  BY <1>1, SeqMonotonic DEF WireInv
<1>3. WireInv' => net' \in [Side -> Seq(Message)]
  BY <1>1, SeqMonotonic DEF WireInv
<1>4. QED
  BY <1>2, <1>3

LEMMA TypeInit == Init => TypeOK /\ WireInv
<1> SUFFICES ASSUME Init PROVE TypeOK /\ WireInv
  OBVIOUS
<1> USE Bounds, BoundsAreNat DEF Init, All
<1>1. EnvTypes
  BY DEF EnvTypes
<1>2. PcTypes
  BY DEF PcTypes, Side
<1>3. CandTypes
  BY DEF CandTypes
<1>4. FlagTypes
  <2>1. \A S : \A a, b \in S : [I |-> a, R |-> b] \in [Side -> S]
    BY DEF Side
  <2>2. Trickle \in BOOLEAN /\ TRUE \in BOOLEAN /\ FALSE \in BOOLEAN
    BY DEF Trickle
  <2>3. /\ listening = [I |-> TRUE, R |-> FALSE] /\ timer = [I |-> TRUE, R |-> FALSE]
        /\ trickling = [I |-> Trickle, R |-> FALSE]
    BY DEF Trickle
  <2>4. /\ listening \in [Side -> BOOLEAN] /\ timer \in [Side -> BOOLEAN]
        /\ trickling \in [Side -> BOOLEAN]
    BY <2>1, <2>2, <2>3, Zenon
  <2>5. eocSent \in [Side -> BOOLEAN]
    OBVIOUS
  <2>6. QED
    BY <2>4, <2>5 DEF FlagTypes
<1>5. QueueTypes
  BY DEF QueueTypes
<1>6. InitiatorTypes
  BY DEF InitiatorTypes
<1>7. ResponderTypes
  BY DEF ResponderTypes
<1>8. WireInv
  BY DEF WireInv
<1>9. QED
  BY <1>1, <1>2, <1>3, <1>4, <1>5, <1>6, <1>7, <1>8, TypeParts, WireIsMessage

LEMMA TypeNext == TypeOK /\ WireInv /\ [Next]_vars => TypeOK' /\ WireInv'
<1> SUFFICES ASSUME EnvTypes, PcTypes, CandTypes, FlagTypes, QueueTypes, InitiatorTypes,
                    ResponderTypes, WireInv, [Next]_vars
             PROVE  TypeOK' /\ WireInv'
  BY TypeParts
<1> USE DEF LocalOffer, SendOffer, OfferFails, InitiatorMisses, HearAnswer, HearCandidate,
            AnswerSet, AnswerFails, DrainPending, InitiatorTimesOut, InitiatorOpens,
            InitiatorCloses, Start, ResponderMisses, HearOffer, ResponderHearsIce, OfferSet,
            DrainEarly, LocalAnswer, SendAnswer, OfferRefused, ResponderTimesOut, Announce,
            ResponderCloses, ChannelClosed, ResponderClosesEarly, Candidate, GatheringEnds,
            Disconnects, Recovers, Connects, InitiatorFails, ResponderFails,
            InitiatorChannelErrs, InitiatorLosesChannel, ResponderLosesChannel
<1>1. EnvTypes'
  <2>1. env' = env /\ (undisturbed' = undisturbed \/ undisturbed' = FALSE)
    BY DEF Fault, FailureCause, ClosingCause
  <2>2. faults' = faults \/ (faults < MaxFaults /\ faults' = faults + 1)
    BY DEF Fault, FailureCause, ClosingCause
  <2>3. faults' \in 0 .. MaxFaults
    BY <2>2, BoundsAreNat DEF EnvTypes
  <2>4. QED
    BY <2>1, <2>3 DEF EnvTypes
<1>2. PcTypes'
  <2>1. pc' \in [Side -> {"none", "new", "connected", "disconnected", "failed", "closed"}]
    BY Sides DEF PcTypes, Described, FireClose, All
  <2>2. ch' \in [Side -> {"none", "connecting", "open", "closed"}]
    BY Sides DEF PcTypes, Described, FireClose, All
  <2>3. local' \in [Side -> BOOLEAN] /\ remote' \in [Side -> BOOLEAN]
    BY Sides DEF PcTypes, Described
  <2>4. QED
    BY <2>1, <2>2, <2>3 DEF PcTypes
<1>3. FlagTypes'
  <2> USE DEF Trickle, SendEnd, StopSignalling, TricklingEnds, ArmWatchdog, WatchdogCleared,
              FireClose
  <2>1. listening' \in [Side -> BOOLEAN]
    <3> USE Sides DEF FlagTypes
    <3> HIDE DEF Next, vars
    <3>1. CASE Initiator
      BY <3>1
    <3>2. CASE Responder
      BY <3>2
    <3>3. CASE Platform
      BY <3>3
    <3>4. CASE UNCHANGED vars
      BY <3>4 DEF vars
    <3> HIDE DEF Initiator, Responder, Platform
    <3>5. QED
      BY <3>1, <3>2, <3>3, <3>4, Zenon DEF Next
  <2>2. trickling' \in [Side -> BOOLEAN]
    <3> USE Sides DEF FlagTypes
    <3> HIDE DEF Next, vars
    <3>1. CASE Initiator
      BY <3>1
    <3>2. CASE Responder
      BY <3>2
    <3>3. CASE Platform
      BY <3>3
    <3>4. CASE UNCHANGED vars
      BY <3>4 DEF vars
    <3> HIDE DEF Initiator, Responder, Platform
    <3>5. QED
      BY <3>1, <3>2, <3>3, <3>4, Zenon DEF Next
  <2>3. eocSent' \in [Side -> BOOLEAN]
    <3> USE Sides DEF FlagTypes
    <3> HIDE DEF Next, vars
    <3>1. CASE Initiator
      BY <3>1
    <3>2. CASE Responder
      BY <3>2
    <3>3. CASE Platform
      BY <3>3
    <3>4. CASE UNCHANGED vars
      BY <3>4 DEF vars
    <3> HIDE DEF Initiator, Responder, Platform
    <3>5. QED
      BY <3>1, <3>2, <3>3, <3>4, Zenon DEF Next
  <2>4. timer' \in [Side -> BOOLEAN]
    <3> USE Sides DEF FlagTypes
    <3> HIDE DEF Next, vars
    <3>1. CASE Initiator
      BY <3>1
    <3>2. CASE Responder
      BY <3>2
    <3>3. CASE Platform
      BY <3>3
    <3>4. CASE UNCHANGED vars
      BY <3>4 DEF vars
    <3> HIDE DEF Initiator, Responder, Platform
    <3>5. QED
      BY <3>1, <3>2, <3>3, <3>4, Zenon DEF Next
  <2>5. QED
    BY <2>1, <2>2, <2>3, <2>4 DEF FlagTypes
<1>4. InitiatorTypes'
  <2>1. /\ iBody' \in {"offer", "local", "done"}
        /\ iAnswer' \in {"none", "setting", "draining", "done"}
        /\ iPromise' \in {"pending", "resolved", "rejected"}
    <3>1. iBody' \in {"offer", "local", "done"}
      BY DEF InitiatorTypes
    <3>2. iAnswer' \in {"none", "setting", "draining", "done"}
      BY DEF InitiatorTypes
    <3>3. iPromise' \in {"pending", "resolved", "rejected"}
      BY DEF InitiatorTypes, Settle
    <3>4. QED
      BY <3>1, <3>2, <3>3
  <2>2. /\ haveRemote' = haveRemote \/ haveRemote' = TRUE
        /\ eocPending' = eocPending \/ eocPending' = TRUE
    BY DEF InitiatorTakes
  <2>3. \/ UNCHANGED eocApplied \/ eocApplied' = TRUE
        \/ eocApplied' = (eocApplied \/ Head(net["I"]).n = End)
    BY DEF InitiatorTakes
  <2>4. QED
    BY <2>1, <2>2, <2>3 DEF InitiatorTypes
<1>5. ResponderTypes'
  <2>1. rBody' \in {"none", "waiting", "remote", "draining", "answer", "local", "answered",
                    "failed"}
    <3> USE DEF ResponderTypes
    <3> HIDE DEF Next, vars
    <3>1. CASE Initiator
      BY <3>1
    <3>2. CASE Responder
      BY <3>2
    <3>3. CASE Platform
      BY <3>3
    <3>4. CASE UNCHANGED vars
      BY <3>4 DEF vars
    <3> HIDE DEF Initiator, Responder, Platform
    <3>5. QED
      BY <3>1, <3>2, <3>3, <3>4, Zenon DEF Next
  <2>2. /\ preEoc' = preEoc \/ preEoc' = TRUE \/ preEoc' = FALSE
        /\ wrapped' = wrapped \/ wrapped' = TRUE \/ wrapped' = FALSE
        /\ live' = live \/ live' = TRUE \/ live' = FALSE
        /\ connected' = connected \/ connected' = TRUE \/ connected' = FALSE
        /\ hasClosed' = hasClosed \/ hasClosed' = TRUE \/ hasClosed' = FALSE
        /\ closing' = closing \/ closing' = TRUE \/ closing' = FALSE
    BY DEF KeepEarly, FireClose, GoesDown
  <2>3. fired' = fired \/ fired' = fired + 1
    BY DEF FireClose
  <2>4. early' = early \/ \E s \in Side : early' = (early \/ (Alive(s) /\ ~remote[s]))
    BY Sides DEF Hand, InitiatorTakes
  <2>5. early' \in BOOLEAN
    <3>1. early \in BOOLEAN
      BY DEF ResponderTypes
    <3>2. QED
      BY <2>4, <3>1, Zenon
  <2>6. /\ preEoc' \in BOOLEAN /\ wrapped' \in BOOLEAN /\ live' \in BOOLEAN
        /\ connected' \in BOOLEAN /\ hasClosed' \in BOOLEAN /\ closing' \in BOOLEAN
    <3>1. /\ preEoc \in BOOLEAN /\ wrapped \in BOOLEAN /\ live \in BOOLEAN
          /\ connected \in BOOLEAN /\ hasClosed \in BOOLEAN /\ closing \in BOOLEAN
      BY DEF ResponderTypes
    <3>2. \A b \in BOOLEAN : \A c : c = b \/ c = TRUE \/ c = FALSE => c \in BOOLEAN
      OBVIOUS
    <3>3. preEoc' \in BOOLEAN /\ wrapped' \in BOOLEAN
      BY <2>2, <3>1, <3>2, Zenon
    <3>4. live' \in BOOLEAN /\ connected' \in BOOLEAN
      BY <2>2, <3>1, <3>2, Zenon
    <3>5. hasClosed' \in BOOLEAN /\ closing' \in BOOLEAN
      BY <2>2, <3>1, <3>2, Zenon
    <3>6. QED
      BY <3>3, <3>4, <3>5
  <2>7. fired' \in Nat
    BY <2>3 DEF ResponderTypes
  <2>8. QED
    BY <2>1, <2>5, <2>6, <2>7 DEF ResponderTypes
<1>6. /\ \A s \in Side : net[s] \in Seq(Posted) /\ InSdp(s) \in Cand /\ sdpN[s] \in Cand
      /\ \A s \in Side : net[s] # <<>> =>
             /\ Head(net[s]) \in Posted /\ Head(net[s]).n \in Cand
             /\ Tail(net[s]) \in Seq(Posted)
  <2>1. \A s \in Side : net[s] \in Seq(Posted)
    BY DEF WireInv
  <2>2. \A s \in Side : InSdp(s) \in Cand /\ sdpN[s] \in Cand
    BY Bounds DEF InSdp, Complete, CandTypes
  <2>3. \A s \in Side : net[s] # <<>> =>
             Head(net[s]) \in Posted /\ Tail(net[s]) \in Seq(Posted)
    BY <2>1, HeadTailProperties
  <2>4. \A m \in Posted : m.n \in Cand
    BY DEF Posted, Wire
  <2>5. QED
    BY <2>1, <2>2, <2>3, <2>4
<1>7. CandTypes'
  <2>1. gath' \in [Side -> 0 .. MaxCand + 1]
    <3>1. \/ gath' = gath
          \/ \E s \in Side : /\ gath[s] < MaxCand /\ gath' = [gath EXCEPT ![s] = @ + 1]
          \/ \E s \in Side : gath' = [gath EXCEPT ![s] = MaxCand + 1]
      OBVIOUS
    <3>2. ASSUME NEW s \in Side, gath[s] < MaxCand PROVE gath[s] + 1 \in 0 .. MaxCand + 1
      BY <3>2, Bounds DEF CandTypes
    <3>3. MaxCand + 1 \in 0 .. MaxCand + 1
      BY Bounds
    <3>4. QED
      BY <3>1, <3>2, <3>3 DEF CandTypes
  <2>2. added' \in [Side -> SUBSET Cand]
    <3>1. \/ added' = added
          \/ \E s \in Side : \E c \in Cand : added' = [added EXCEPT ![s] = @ \cup {c}]
          \/ \E s \in Side : added' = [added EXCEPT ![s] = @ \cup 1 .. sdpN[s]]
      <4>1. ASSUME NEW s \in Side, NEW c \in Cand, Hand(s, c)
            PROVE  added' = added \/ added' = [added EXCEPT ![s] = @ \cup {c}]
        BY <4>1 DEF Hand, CandTypes
      <4>2. /\ pending # <<>> => Head(pending) \in Cand
            /\ prePending # <<>> => Head(prePending) \in Cand
        BY HeadTailProperties DEF QueueTypes
      <4>3. \/ added' = added
            \/ \E s \in Side : \E c \in Cand : Hand(s, c)
            \/ \E s \in Side : Described(s)
        BY <1>6, <4>2, Sides, Bounds DEF InitiatorTakes
      <4>4. QED
        BY <4>1, <4>3 DEF Described
    <3>2. \A s \in Side : 1 .. sdpN[s] \subseteq Cand
      BY <1>6, Bounds
    <3>3. QED
      BY <3>1, <3>2 DEF CandTypes
  <2>3. sdpN' \in [Side -> Cand]
    <3>1. \/ sdpN' = sdpN
          \/ \E s \in Side : net[s] # <<>> /\ sdpN' = [sdpN EXCEPT ![s] = Head(net[s]).n]
      BY Sides
    <3>2. QED
      BY <1>6, <3>1 DEF CandTypes
  <2>4. QED
    BY <2>1, <2>2, <2>3 DEF CandTypes
<1>8. QueueTypes'
  <2>1. pending' \in Seq(Cand)
    <3>1. \/ pending' = pending
          \/ pending # <<>> /\ pending' = Tail(pending)
          \/ \E c \in Cand : pending' = Append(pending, c)
      BY <1>6, Sides DEF InitiatorTakes
    <3>2. pending \in Seq(Cand)
      BY DEF QueueTypes
    <3>3. QED
      BY <3>1, <3>2
  <2>2. prePending' \in Seq(Cand)
    <3>1. \/ prePending' = prePending
          \/ prePending # <<>> /\ prePending' = Tail(prePending)
          \/ \E c \in Cand : prePending' = Append(prePending, c)
      BY <1>6, Sides DEF KeepEarly
    <3>2. prePending \in Seq(Cand)
      BY DEF QueueTypes
    <3>3. QED
      BY <3>1, <3>2
  <2>3. deferred' \in Seq(Cand)
    <3>1. \/ deferred' = deferred
          \/ \E c \in Cand : deferred' = Append(deferred, c)
      BY <1>6, Sides
    <3>2. deferred \in Seq(Cand)
      BY DEF QueueTypes
    <3>3. QED
      BY <3>1, <3>2
  <2>4. out' \in [Side -> Seq(Cand)]
    <3>1. \/ out' = out
          \/ \E s \in Side : out' = [out EXCEPT ![s] = Append(@, End)]
          \/ \E s \in Side : /\ gath[s] < MaxCand
                             /\ out' = [out EXCEPT ![s] = Append(@, gath[s] + 1)]
      BY Sides DEF SendEnd
    <3>2. \A s \in Side : gath[s] < MaxCand => gath[s] + 1 \in Cand
      BY Bounds DEF CandTypes
    <3>3. \A s \in Side : \A c \in Cand : Append(out[s], c) \in Seq(Cand)
      BY AppendProperties DEF QueueTypes
    <3>4. out' = out \/ \E s \in Side : \E c \in Cand : out' = [out EXCEPT ![s] = Append(@, c)]
      BY <3>1, <3>2, Bounds
    <3>5. out \in [Side -> Seq(Cand)]
      BY DEF QueueTypes
    <3>6. ASSUME NEW s \in Side, NEW c \in Cand, out' = [out EXCEPT ![s] = Append(@, c)]
          PROVE  out' \in [Side -> Seq(Cand)]
      <4>1. Append(out[s], c) \in Seq(Cand)
        BY <3>3
      <4>2. QED
        BY <3>5, <3>6, <4>1
    <3>7. QED
      BY <3>4, <3>5, <3>6
  <2>5. QED
    BY <2>1, <2>2, <2>3, <2>4 DEF QueueTypes
<1>9. WireInv'
  <2>1. rBody = "answered" => rBody' = "answered"
    OBVIOUS
  <2>2. Posted \subseteq Posted'
    BY <2>1 DEF Posted
  <2>3. \/ net' = net
        \/ \E s \in Side : net[s] # <<>> /\ Heard(s)
        \/ \E s \in Side : Post(s, Ice(End))
        \/ \E s \in Side : gath[s] < MaxCand /\ Post(s, Ice(gath[s] + 1))
        \/ Post("I", [type |-> "offer", n |-> InSdp("I")])
        \/ rBody' = "answered" /\ Post("R", [type |-> "answer", n |-> InSdp("R")])
    BY Sides DEF SendEnd
  <2>4. ASSUME NEW s \in Side, net[s] # <<>>, Heard(s) PROVE WireInv'
    <3>1. Tail(net[s]) \in Seq(Posted')
      BY <1>6, <2>2, <2>4, SeqMonotonic
    <3>2. \A t \in Side : net[t] \in Seq(Posted')
      BY <1>6, <2>2, SeqMonotonic
    <3>3. QED
      BY <2>4, <3>1, <3>2 DEF Heard, WireInv
  <2>5. ASSUME NEW s \in Side, NEW m \in Posted', Post(s, m) PROVE WireInv'
    <3>1. \A t \in Side : net[t] \in Seq(Posted')
      BY <1>6, <2>2, SeqMonotonic
    <3>2. Append(net[Other(s)], m) \in Seq(Posted')
      BY <2>5, <3>1, Sides, AppendProperties
    <3>3. QED
      BY <2>5, <3>1, <3>2 DEF Post, WireInv
  <2>6. /\ \A c \in Cand : Ice(c) \in Posted'
        /\ [type |-> "offer", n |-> InSdp("I")] \in Posted'
        /\ rBody' = "answered" => [type |-> "answer", n |-> InSdp("R")] \in Posted'
    BY <1>6, Sides DEF Ice, Posted, Wire
  <2>7. \A s \in Side : gath[s] < MaxCand => gath[s] + 1 \in Cand
    BY Bounds DEF CandTypes
  <2>8. CASE net' = net
    <3>1. \A t \in Side : net[t] \in Seq(Posted')
      BY <1>6, <2>2, SeqMonotonic
    <3>2. QED
      BY <2>8, <3>1 DEF WireInv
  <2>9. QED
    BY <2>3, <2>4, <2>5, <2>6, <2>7, <2>8, Sides, Bounds
<1>10. QED
  BY <1>1, <1>2, <1>3, <1>4, <1>5, <1>7, <1>8, <1>9, WireIsMessage
     DEF TypeOK, EnvTypes, PcTypes, CandTypes, FlagTypes, QueueTypes, InitiatorTypes,
         ResponderTypes

\* Every variable keeps its type, and only candidates that exist travel.
THEOREM TypeCorrect == Spec => []TypeOK
<1>1. TypeOK /\ WireInv /\ [Next]_vars => (TypeOK /\ WireInv)'
  BY TypeNext
<1>2. QED
  BY <1>1, TypeInit, PTL DEF Spec

----------------------------------------------------------------------------
(* How far the sides are. *)

LEMMA StageInit == Init => StageInv /\ LiveInv /\ ClosedInv /\ ~early
BY Sides DEF Init, All, StageInv, LiveInv, ClosedInv

\* The responder answers before the initiator has a description, and both have one
\* before they drain what waited for it or are connected.
LEMMA StageNext == TypeOK /\ WireInv /\ StageInv /\ LiveInv /\ [Next]_vars => StageInv'
<1> SUFFICES ASSUME PcTypes, FlagTypes, WireInv, StageInv, LiveInv, [Next]_vars
             PROVE  StageInv'
  BY TypeParts
<1> USE DEF LocalOffer, SendOffer, OfferFails, InitiatorMisses, HearAnswer, HearCandidate,
            AnswerSet, AnswerFails, DrainPending, InitiatorTimesOut, InitiatorOpens,
            InitiatorCloses, Start, ResponderMisses, HearOffer, ResponderHearsIce, OfferSet,
            DrainEarly, LocalAnswer, SendAnswer, OfferRefused, ResponderTimesOut, Announce,
            ResponderCloses, ChannelClosed, ResponderClosesEarly, Candidate, GatheringEnds,
            Disconnects, Recovers, Connects, InitiatorFails, ResponderFails,
            InitiatorChannelErrs, InitiatorLosesChannel, ResponderLosesChannel
<1>1. /\ remote["I"] => remote'["I"]
      /\ remote["R"] => remote'["R"]
      /\ rBody = "answered" => rBody' = "answered"
  BY Sides DEF Described, PcTypes
<1>2. /\ haveRemote' \/ iAnswer' = "draining" => remote'["I"]
      /\ rBody' = "draining" => remote'["R"]
  <2>1. /\ haveRemote' \/ iAnswer' = "draining" =>
               haveRemote \/ iAnswer = "draining" \/ Described("I")
        /\ rBody' = "draining" => rBody = "draining" \/ Described("R")
    <3>1. haveRemote' = haveRemote \/ Described("I")
      OBVIOUS
    <3>2. iAnswer' = "draining" => iAnswer = "draining" \/ Described("I")
      OBVIOUS
    <3>3. rBody' = "draining" => rBody = "draining" \/ Described("R")
      OBVIOUS
    <3>4. QED
      BY <3>1, <3>2, <3>3
  <2>2. \A s \in Side : Described(s) => remote'[s]
    BY DEF Described, PcTypes
  <2>3. QED
    BY <1>1, <2>1, <2>2, Sides DEF StageInv
<1>3. iAnswer' # "none" \/ remote'["I"] => rBody' = "answered"
  <2>1. net["I"] # <<>> /\ Head(net["I"]).type = "answer" => rBody = "answered"
    <3>1. net["I"] # <<>> => Head(net["I"]) \in Posted
      BY Sides, HeadTailProperties DEF WireInv
    <3>2. QED
      BY <3>1 DEF Posted
  <2>2. iAnswer' # "none" => rBody = "answered"
    BY <2>1 DEF StageInv
  <2>3. remote'["I"] => remote["I"] \/ iAnswer = "setting"
    BY Sides DEF Described, PcTypes
  <2>4. QED
    BY <1>1, <2>2, <2>3 DEF StageInv
<1>4. pc'["R"] \in {"connected", "disconnected"} => rBody' = "answered"
  <2>1. pc'["R"] \in {"connected", "disconnected"} =>
            pc["R"] \in {"connected", "disconnected"} \/ remote["I"]
    <3> USE Sides DEF FireClose, All, PcTypes
    <3> HIDE DEF Next, vars
    <3>1. CASE Initiator
      BY <3>1
    <3>2. CASE Responder
      BY <3>2
    <3>3. CASE Platform
      BY <3>3
    <3>4. CASE UNCHANGED vars
      BY <3>4 DEF vars
    <3> HIDE DEF Initiator, Responder, Platform
    <3>5. QED
      BY <3>1, <3>2, <3>3, <3>4, Zenon DEF Next
  <2>2. QED
    BY <1>1, <2>1 DEF StageInv
<1>5. rBody' \in {"none", "waiting"} => pc'["R"] = "none" /\ ch'["R"] = "none"
  <2>1. rBody' \in {"none", "waiting"} => rBody \in {"none", "waiting"}
    OBVIOUS
  <2>2. ASSUME rBody' \in {"none", "waiting"}, pc["R"] = "none", ch["R"] = "none"
        PROVE  pc'["R"] = "none" /\ ch'["R"] = "none"
    <3> USE <2>2, Sides DEF FireClose, All, PcTypes
    <3> HIDE DEF Next, vars
    <3>1. CASE Initiator
      BY <3>1
    <3>2. CASE Responder
      BY <3>2
    <3>3. CASE Platform
      BY <3>3
    <3>4. CASE UNCHANGED vars
      BY <3>4 DEF vars
    <3> HIDE DEF Initiator, Responder, Platform
    <3>5. QED
      BY <3>1, <3>2, <3>3, <3>4, Zenon DEF Next
  <2>3. QED
    BY <2>1, <2>2 DEF StageInv
<1>6. rBody' = "none" => ~timer'["R"] /\ ~hasClosed'
  <2>1. rBody' = "none" => rBody = "none"
    OBVIOUS
  <2>2. ASSUME rBody = "none", rBody' = "none", pc["R"] = "none", ch["R"] = "none",
               ~timer["R"], ~hasClosed, ~wrapped, ~closing
        PROVE  ~timer'["R"] /\ ~hasClosed'
    BY <2>2, Sides DEF FireClose, FlagTypes, FailureCause, Alive, TricklingEnds, ArmWatchdog,
                       WatchdogCleared
  <2>3. QED
    BY <2>1, <2>2 DEF StageInv, LiveInv
<1>7. QED
  BY <1>2, <1>3, <1>4, <1>5, <1>6 DEF StageInv

\* The datachannel event brings the responder up or ends it.
LEMMA AnnounceSteps ==
  ASSUME Announce
  PROVE  /\ pc["R"] = "connected" /\ ch["R"] = "none" /\ closing' = closing
         /\ \/ /\ ch' = [ch EXCEPT !["R"] = "open"] /\ wrapped' /\ connected'
               /\ timer' = [timer EXCEPT !["R"] = FALSE]
            \/ wrapped' = wrapped /\ live' = live
<1>1. pc["R"] = "connected" /\ ch["R"] = "none" /\ closing' = closing
  BY DEF Announce
<1>2. \/ /\ ch' = [ch EXCEPT !["R"] = "open"] /\ wrapped' = TRUE /\ connected' = TRUE
         /\ timer' = [timer EXCEPT !["R"] = FALSE]
      \/ wrapped' = wrapped /\ live' = live
  BY DEF Announce, WatchdogCleared
<1>3. QED
  BY <1>1, <1>2

\* The responder's send is the channel's only while nothing is about to end it.
LEMMA LiveNext ==
  TypeOK /\ StageInv /\ LiveInv /\ [Next]_vars => LiveInv'
<1> SUFFICES ASSUME PcTypes, FlagTypes, StageInv, LiveInv, [Next]_vars PROVE LiveInv'
  BY TypeParts
<1> USE DEF LocalOffer, SendOffer, OfferFails, InitiatorMisses, HearAnswer, HearCandidate,
            AnswerSet, AnswerFails, DrainPending, InitiatorTimesOut, InitiatorOpens,
            InitiatorCloses, Start, ResponderMisses, HearOffer, ResponderHearsIce, OfferSet,
            DrainEarly, LocalAnswer, SendAnswer, OfferRefused, ResponderTimesOut, Announce,
            ResponderCloses, ChannelClosed, ResponderClosesEarly, Candidate, GatheringEnds,
            Disconnects, Recovers, Connects, InitiatorFails, ResponderFails,
            InitiatorChannelErrs, InitiatorLosesChannel, ResponderLosesChannel
<1>1. rBody = "answered" => rBody' = "answered"
  OBVIOUS
<1>2. ch["R"] # "none" => ch'["R"] # "none"
  BY Sides DEF FireClose, PcTypes
<1>3. wrapped' \/ closing' => ch'["R"] # "none" /\ rBody' = "answered"
  <2>1. wrapped' \/ closing' => wrapped \/ closing \/ Announce
    BY DEF FireClose
  <2>2. ASSUME Announce, ~wrapped, ~closing, wrapped' \/ closing'
        PROVE  ch'["R"] # "none" /\ rBody = "answered"
    <3>1. ~closing' /\ pc["R"] = "connected"
      BY <2>2
    <3>2. ch' = [ch EXCEPT !["R"] = "open"]
      <4> HIDE DEF Announce
      <4>1. ~(wrapped' = wrapped)
        BY <2>2, <3>1
      <4>2. QED
        BY <2>2, <4>1, AnnounceSteps
    <3>3. QED
      BY <3>1, <3>2, Sides DEF StageInv, PcTypes
  <2>3. QED
    BY <1>1, <1>2, <2>1, <2>2 DEF LiveInv
<1>4. live' => connected' /\ wrapped' /\ ch'["R"] = "open" /\ ~timer'["R"] /\ ~closing'
  <2>1. ASSUME Announce, live'
        PROVE  connected' /\ wrapped' /\ ch'["R"] = "open" /\ ~timer'["R"] /\ ~closing'
    <3>1. ch["R"] = "none" /\ ~live /\ ~closing /\ closing' = closing
      BY <2>1 DEF LiveInv
    <3>2. /\ ch' = [ch EXCEPT !["R"] = "open"] /\ wrapped' /\ connected'
          /\ timer' = [timer EXCEPT !["R"] = FALSE]
      BY <2>1, <3>1 DEF WatchdogCleared
    <3>3. QED
      BY <3>1, <3>2, Sides DEF PcTypes, FlagTypes
  <2>2. ASSUME ~Announce, live, live'
        PROVE  connected' /\ wrapped' /\ ch'["R"] = "open" /\ ~timer'["R"] /\ ~closing'
    <3>1. /\ connected /\ wrapped /\ ch["R"] = "open" /\ ~timer["R"] /\ ~closing
          /\ rBody = "answered"
      BY <2>2 DEF LiveInv
    <3>2. connected' /\ wrapped' /\ ~closing'
      <4>1. ~closing'
        BY <2>2, <3>1
      <4>2. wrapped'
        BY <2>2, <3>1
      <4>3. /\ ~OfferRefused /\ ~ResponderTimesOut /\ ~ChannelClosed /\ ~ResponderClosesEarly
            /\ ~ResponderFails /\ ~ResponderLosesChannel
        BY <2>2, <3>1
      <4>4. connected'
        BY <2>2, <3>1, <4>3 DEF GoesDown
      <4>5. QED
        BY <4>1, <4>2, <4>4
    <3>3. ch'["R"] = "open"
      BY <2>2, <3>1, Sides DEF FireClose, PcTypes
    <3>4. ~timer'["R"]
      BY <2>2, <3>1, Sides DEF FireClose, FlagTypes
    <3>5. QED
      BY <3>2, <3>3, <3>4
  <2>3. CASE ~Announce /\ ~live
    BY <2>3 DEF GoesDown
  <2>4. QED
    BY <2>1, <2>2, <2>3
<1>5. QED
  BY <1>3, <1>4 DEF LiveInv

\* What is over stays over.
LEMMA ClosedNext ==
  /\ TypeOK /\ StageInv /\ ClosedInv /\ [Next]_vars
  => ClosedInv' /\ (hasClosed => hasClosed' /\ ~connected' /\ fired' = fired)
<1> SUFFICES ASSUME PcTypes, FlagTypes, StageInv, ClosedInv, hasClosed \in BOOLEAN, fired \in Nat,
                    [Next]_vars
             PROVE  ClosedInv' /\ (hasClosed => hasClosed' /\ ~connected' /\ fired' = fired)
  BY TypeParts DEF ResponderTypes
<1> USE DEF LocalOffer, SendOffer, OfferFails, InitiatorMisses, HearAnswer, HearCandidate,
            AnswerSet, AnswerFails, DrainPending, InitiatorTimesOut, InitiatorOpens,
            InitiatorCloses, Start, ResponderMisses, HearOffer, ResponderHearsIce, OfferSet,
            DrainEarly, LocalAnswer, SendAnswer, OfferRefused, ResponderTimesOut, Announce,
            ResponderCloses, ChannelClosed, ResponderClosesEarly, Candidate, GatheringEnds,
            Disconnects, Recovers, Connects, InitiatorFails, ResponderFails,
            InitiatorChannelErrs, InitiatorLosesChannel, ResponderLosesChannel
<1>1. CASE hasClosed
  <2>1. ~listening["R"] /\ ~connected /\ pc["R"] \in {"none", "closed"} /\ rBody # "none"
    BY <1>1 DEF ClosedInv, StageInv
  <2>2. hasClosed' /\ ~connected' /\ fired' = fired
    <3>1. ~Announce
      BY <2>1
    <3>2. hasClosed'
      BY <1>1, <3>1 DEF FireClose
    <3>3. ~connected'
      BY <2>1, <3>1 DEF FireClose, GoesDown
    <3>4. fired' = fired
      BY <1>1, <3>1 DEF FireClose
    <3>5. QED
      BY <3>2, <3>3, <3>4
  <2>3. ~listening'["R"]
    BY <1>1, <2>1, Sides DEF FireClose, StopSignalling, FlagTypes
  <2>4. pc'["R"] \in {"none", "closed"}
    <3> USE <1>1, <2>1, Sides DEF FireClose, PcTypes, All, FailureCause, Alive
    <3> HIDE DEF Next, vars
    <3>1. CASE Initiator
      BY <3>1
    <3>2. CASE Responder
      BY <3>2
    <3>3. CASE Platform
      <4>1. ASSUME NEW s \in Side, Candidate(s) \/ GatheringEnds(s) \/ Disconnects(s) \/ Recovers(s)
            PROVE  pc'["R"] \in {"none", "closed"}
        BY <4>1
      <4>2. CASE Connects
        BY <4>2
      <4>5. CASE InitiatorFails
        BY <4>5
      <4>6. CASE ResponderFails
        BY <4>6
      <4>3. CASE InitiatorChannelErrs \/ InitiatorLosesChannel \/ ResponderLosesChannel
        <5>1. pc' = pc \/ pc' = [pc EXCEPT !["R"] = IF @ = "none" THEN @ ELSE "closed"]
          BY <4>3
        <5>2. QED
          BY <5>1
      <4> HIDE DEF Candidate, GatheringEnds, Disconnects, Recovers, Connects, InitiatorFails,
                   ResponderFails, InitiatorChannelErrs, InitiatorLosesChannel,
                   ResponderLosesChannel
      <4>4. QED
        BY <3>3, <4>1, <4>2, <4>3, <4>5, <4>6, Zenon DEF Platform
    <3>4. CASE UNCHANGED vars
      BY <3>4 DEF vars
    <3> HIDE DEF Initiator, Responder, Platform
    <3>5. QED
      BY <3>1, <3>2, <3>3, <3>4, Zenon DEF Next
  <2>5. QED
    BY <1>1, <2>2, <2>3, <2>4 DEF ClosedInv
<1>2. CASE ~hasClosed
  <2>1. fired = 0
    BY <1>2 DEF ClosedInv
  <2>2. (~hasClosed' /\ fired' = fired) \/ FireClose(FALSE)
    <3>1. hasClosed = FALSE
      BY <1>2
    <3>2. QED
      BY <1>2, <3>1
  <2>3. CASE FireClose(FALSE)
    <3> HIDE DEF Next, vars
    <3>1. ~listening'["R"] /\ pc'["R"] \in {"none", "closed"}
      BY <2>3, Sides DEF FireClose, PcTypes, FlagTypes
    <3>2. hasClosed' /\ ~connected' /\ fired' = 1
      BY <2>1, <2>3 DEF FireClose
    <3>3. QED
      BY <3>1, <3>2 DEF ClosedInv
  <2>4. CASE ~hasClosed' /\ fired' = fired
    BY <2>1, <2>4 DEF ClosedInv
  <2>5. QED
    BY <1>2, <2>2, <2>3, <2>4
<1>3. QED
  BY <1>1, <1>2

\* A candidate waits for the description on both sides.
LEMMA EarlyNext == StageInv /\ ~early /\ [Next]_vars => ~early'
BY DEF StageInv, Hand, InitiatorTakes,
       LocalOffer, SendOffer, OfferFails, InitiatorMisses, HearAnswer, HearCandidate,
       AnswerSet, AnswerFails, DrainPending, InitiatorTimesOut, InitiatorOpens,
       InitiatorCloses, Start, ResponderMisses, HearOffer, ResponderHearsIce, OfferSet,
       DrainEarly, LocalAnswer, SendAnswer, OfferRefused, ResponderTimesOut, Announce,
       ResponderCloses, ChannelClosed, ResponderClosesEarly, Candidate, GatheringEnds,
       Disconnects, Recovers, Connects, InitiatorFails, ResponderFails,
       InitiatorChannelErrs, InitiatorLosesChannel, ResponderLosesChannel

----------------------------------------------------------------------------
(* The end of the candidates. *)

LEMMA EndInit == Init => EndInv
BY DEF Init, All, EndInv

\* What a step may signal, and what it leaves of the marks that decide it.
LEMMA SignalSteps ==
  ASSUME CandTypes, FlagTypes, QueueTypes, [Next]_vars, NEW s \in Side
  PROVE  /\ gath[s] = MaxCand + 1 => gath'[s] = MaxCand + 1
         /\ s = "I" /\ ~trickling[s] => ~trickling'[s]
         /\ \/ out'[s] = out[s] /\ eocSent'[s] = eocSent[s]
            \/ /\ trickling[s] /\ gath[s] < MaxCand /\ eocSent'[s] = eocSent[s]
               /\ out'[s] = Append(out[s], gath[s] + 1)
            \/ /\ ~eocSent[s] /\ eocSent'[s] /\ out'[s] = Append(out[s], End)
               /\ gath'[s] = MaxCand + 1 \/ (s = "I" /\ ~trickling'[s])
<1> USE DEF LocalOffer, SendOffer, OfferFails, InitiatorMisses, HearAnswer, HearCandidate,
            AnswerSet, AnswerFails, DrainPending, InitiatorTimesOut, InitiatorCloses, Start,
            ResponderMisses, HearOffer, ResponderHearsIce, OfferSet,
            DrainEarly, LocalAnswer, SendAnswer, OfferRefused, ResponderTimesOut, Announce,
            ResponderCloses, ChannelClosed, ResponderClosesEarly, Disconnects, Recovers,
            Connects, InitiatorFails, ResponderFails, InitiatorChannelErrs, InitiatorLosesChannel,
            ResponderLosesChannel
<1>1. gath[s] = MaxCand + 1 => gath'[s] = MaxCand + 1
  <2>1. \/ gath' = gath
        \/ \E t \in Side : /\ gath[t] < MaxCand /\ gath' = [gath EXCEPT ![t] = @ + 1]
        \/ \E t \in Side : gath' = [gath EXCEPT ![t] = MaxCand + 1]
    BY DEF Candidate, GatheringEnds, InitiatorOpens
  <2>2. QED
    BY <2>1, Bounds DEF CandTypes
<1>2. s = "I" /\ ~trickling[s] => ~trickling'[s]
  BY Sides DEF Candidate, GatheringEnds, InitiatorOpens, TricklingEnds, StopSignalling, FlagTypes
<1>3. ASSUME NEW t \in Side, Candidate(t)
      PROVE  \/ out'[s] = out[s] /\ eocSent'[s] = eocSent[s]
             \/ /\ trickling[s] /\ gath[s] < MaxCand /\ eocSent'[s] = eocSent[s]
                /\ out'[s] = Append(out[s], gath[s] + 1)
  BY <1>3 DEF Candidate, QueueTypes
<1>4. ASSUME NEW t \in Side, SendEnd(t)
      PROVE  \/ out'[s] = out[s] /\ eocSent'[s] = eocSent[s]
             \/ /\ s = t /\ ~eocSent[s] /\ eocSent'[s] /\ out'[s] = Append(out[s], End)
  BY <1>4 DEF SendEnd, QueueTypes, FlagTypes
<1>5. ASSUME NEW t \in Side, GatheringEnds(t)
      PROVE  \/ out'[s] = out[s] /\ eocSent'[s] = eocSent[s]
             \/ /\ ~eocSent[s] /\ eocSent'[s] /\ out'[s] = Append(out[s], End)
                /\ gath'[s] = MaxCand + 1
  <2>1. gath' = [gath EXCEPT ![t] = MaxCand + 1]
    BY <1>5 DEF GatheringEnds
  <2>2. SendEnd(t) \/ UNCHANGED <<eocSent, out>>
    BY <1>5 DEF GatheringEnds
  <2>3. QED
    BY <1>4, <2>1, <2>2 DEF CandTypes
<1>6. ASSUME InitiatorOpens
      PROVE  \/ out'[s] = out[s] /\ eocSent'[s] = eocSent[s]
             \/ /\ ~eocSent[s] /\ eocSent'[s] /\ out'[s] = Append(out[s], End)
                /\ s = "I" /\ ~trickling'[s]
  <2>1. (SendEnd("I") /\ trickling' = [trickling EXCEPT !["I"] = FALSE]) \/ UNCHANGED <<eocSent, out>>
    BY <1>6 DEF InitiatorOpens, TricklingEnds
  <2>2. QED
    BY <1>4, <2>1, Sides DEF FlagTypes
<1>7. \/ UNCHANGED <<out, eocSent>>
      \/ \E t \in Side : Candidate(t) \/ GatheringEnds(t)
      \/ InitiatorOpens
  OBVIOUS
<1>8. QED
  BY <1>1, <1>2, <1>3, <1>5, <1>6, <1>7

LEMMA EndNext == TypeOK /\ EndInv /\ [Next]_vars => EndInv'
<1> SUFFICES ASSUME CandTypes, FlagTypes, QueueTypes, EndInv, [Next]_vars, NEW s \in Side
             PROVE  /\ eocSent'[s] => gath'[s] = MaxCand + 1 \/ (s = "I" /\ ~trickling'[s])
                    /\ \A i \in DOMAIN out'[s] :
                          out'[s][i] = End => eocSent'[s] /\ i = Len(out'[s])
  BY TypeParts DEF EndInv
<1>1. /\ out[s] \in Seq(Cand) /\ gath[s] \in Nat
      /\ eocSent[s] => gath[s] = MaxCand + 1 \/ (s = "I" /\ ~trickling[s])
      /\ \A i \in DOMAIN out[s] : out[s][i] = End => eocSent[s] /\ i = Len(out[s])
  BY Bounds DEF QueueTypes, CandTypes, EndInv
<1>2. ASSUME NEW c, out'[s] = Append(out[s], c), ~eocSent[s]
      PROVE  \A i \in DOMAIN out'[s] : out'[s][i] = End => c = End /\ i = Len(out'[s])
  <2>1. /\ DOMAIN out'[s] = 1 .. Len(out[s]) + 1 /\ Len(out'[s]) = Len(out[s]) + 1
        /\ DOMAIN out[s] = 1 .. Len(out[s]) /\ Len(out[s]) \in Nat
        /\ \A i \in DOMAIN out[s] : out'[s][i] = out[s][i]
        /\ out'[s][Len(out[s]) + 1] = c
    BY <1>1, <1>2
  <2>2. QED
    BY <1>1, <1>2, <2>1
<1>3. CASE out'[s] = out[s] /\ eocSent'[s] = eocSent[s]
  BY <1>1, <1>3, SignalSteps
<1>4. CASE /\ trickling[s] /\ gath[s] < MaxCand /\ eocSent'[s] = eocSent[s]
           /\ out'[s] = Append(out[s], gath[s] + 1)
  <2>1. ~eocSent[s] /\ gath[s] + 1 # End
    BY <1>1, <1>4, Bounds
  <2>2. QED
    BY <1>2, <1>4, <2>1
<1>5. CASE /\ ~eocSent[s] /\ eocSent'[s] /\ out'[s] = Append(out[s], End)
           /\ gath'[s] = MaxCand + 1 \/ (s = "I" /\ ~trickling'[s])
  BY <1>2, <1>5
<1>6. QED
  BY <1>3, <1>4, <1>5, SignalSteps

----------------------------------------------------------------------------

\* The two sides stay in the inductive invariant.
THEOREM WebrtcInvariant == Spec => []IInv
<1>1. Init => IInv
  BY TypeInit, StageInit, EndInit DEF IInv
<1>2. IInv /\ [Next]_vars => IInv'
  BY TypeNext, StageNext, EndNext, LiveNext, ClosedNext, EarlyNext DEF IInv
<1>3. QED
  BY <1>1, <1>2, PTL DEF Spec

\* No candidate is given to a connection that would refuse it for want of a
\* description, in whatever order offer, answer and candidates arrive.
THEOREM CandidatesWait == Spec => []DeferredUntilDescribed
<1>1. IInv => DeferredUntilDescribed
  BY DEF IInv, DeferredUntilDescribed
<1>2. QED
  BY <1>1, WebrtcInvariant, PTL

\* A side signals the end of its candidates at most once and nothing after it.
THEOREM NothingAfterEnd == Spec => []EndIsLast
<1>1. ASSUME IInv, NEW s \in Side, NEW i \in 1 .. Len(out[s]) - 1 PROVE out[s][i] # End
  <2>1. out[s] \in Seq(Cand)
    BY <1>1 DEF IInv, TypeOK
  <2>2. Len(out[s]) \in Nat /\ i \in DOMAIN out[s] /\ i # Len(out[s])
    BY <1>1, <2>1
  <2>3. QED
    BY <1>1, <2>2 DEF IInv, EndInv
<1>2. IInv => EndIsLast
  BY <1>1 DEF EndIsLast
<1>3. QED
  BY <1>2, WebrtcInvariant, PTL

\* While the responder's send is not guarded its channel is open and up.
THEOREM SendIsGuarded == Spec => []SendLiveMeansUp
<1>1. IInv => SendLiveMeansUp
  BY DEF IInv, LiveInv, SendLiveMeansUp
<1>2. QED
  BY <1>1, WebrtcInvariant, PTL

\* onClose of the responder is for good: it never fires again, and the responder
\* never comes up again.
THEOREM ClosedForGood == Spec => ClosedIsFinal
<1>1. IInv /\ [Next]_vars => [hasClosed => hasClosed' /\ ~connected' /\ fired' = fired]_vars
  <2> HIDE DEF vars, Next
  <2>1. QED
    BY ClosedNext DEF IInv
<1>2. QED
  BY <1>1, WebrtcInvariant, PTL DEF Spec, ClosedIsFinal

\* onClose fires once at most, and has fired exactly when the responder says so.
THEOREM ClosesOnce == Spec => [](fired \in {0, 1} /\ (hasClosed <=> fired = 1))
<1>1. IInv => fired \in {0, 1} /\ (hasClosed <=> fired = 1)
  BY DEF IInv, ClosedInv
<1>2. QED
  BY <1>1, WebrtcInvariant, PTL

=============================================================================
