------------------------------- MODULE Webrtc -------------------------------
(***************************************************************************)
(* packages/transport/src/webrtc: rtcInitiator ("I") and rtcResponder      *)
(* ("R") exchanging an offer, an answer and ICE candidates over a          *)
(* signalling transport, and the data channel that comes of it, down to    *)
(* its close.  RTCPeerConnection and RTCDataChannel are the platform's:    *)
(* what they may do is modelled from how this code uses them.              *)
(*                                                                         *)
(* A candidate is a number 1 .. MaxCand, in the order of gathering; End is *)
(* the end-of-candidates mark, a null candidate.                           *)
(***************************************************************************)
EXTENDS Naturals, Sequences

CONSTANTS
    Modes,      \* "trickle", "whole" (NON_TRICKLE): the modes considered
    Announced,  \* readyState of the channel in the datachannel event
    Checks,     \* the sides whose connectivity checks reach the other side
    MaxCand,    \* bound: candidates of a side
    MaxFaults   \* bound: failures and interruptions of the platform

ASSUME ModesAreKnown == Modes \subseteq {"trickle", "whole"}
ASSUME AnnouncedIsKnown == Announced \subseteq {"open", "connecting"}
ASSUME ChecksAreSides == Checks \subseteq {"I", "R"}
ASSUME BoundsAreNat == MaxCand \in Nat /\ MaxFaults \in Nat

Side == {"I", "R"}
Other(s) == IF s = "I" THEN "R" ELSE "I"
End == 0

VARIABLES
    env,         \* mode, announced, and whether watchdogs may fire
    net,         \* per side, signalling messages on their way to it
    \* the platform, per side
    pc, ch,      \* connectionState, readyState of the data channel
    local, remote,
    gath,        \* candidates gathered, MaxCand + 1 once complete
    added,       \* candidates given to addIceCandidate or in the description
    faults,
    \* both sides
    listening,   \* the signalling listener is subscribed
    trickling,   \* pc.onicecandidate is set
    eocSent,
    timer,       \* the ICE watchdog is armed
    sdpN,        \* candidates in the description being set
    \* the initiator
    iBody,       \* where the async function is: offer, local, done
    iAnswer,     \* where the answer handler is: none, setting, draining, done
    iPromise,    \* pending, resolved, rejected
    haveRemote, pending, eocPending, eocApplied,
    \* the responder
    rBody,       \* none, waiting, remote, draining, answer, local, answered, failed
    prePending, preEoc,
    deferred,    \* pending and eocPending of the ICE listener
    wrapped,     \* wrappedDc # null
    live,        \* tx.send is the channel's, not sendGuard
    connected, hasClosed,
    closing,     \* close() awaits the channel's close()
    \* history
    out,         \* candidates a side has signalled
    early,       \* a candidate came to a pc without a remote description
    fired,       \* onClose events of the responder
    undisturbed  \* no fault, no signalling lost, no close() by a user

platform  == <<pc, ch, local, remote, gath, added, faults>>
both      == <<listening, trickling, eocSent, timer, sdpN>>
initiator == <<iBody, iAnswer, iPromise, haveRemote, pending, eocPending, eocApplied>>
signals   == <<rBody, prePending, preEoc, deferred>>
facade    == <<wrapped, live, connected, hasClosed, closing>>
responder == <<signals, facade>>
history   == <<out, early, fired, undisturbed>>
vars == <<env, net, platform, both, initiator, responder, history>>

Env == [mode : Modes, announced : Announced, slow : BOOLEAN]
Message == [type : {"offer", "answer", "ice"}, n : Nat]

All(x) == [s \in Side |-> x]

Init ==
    /\ env \in Env
    /\ net = All(<<>>)
    /\ pc = [I |-> "new", R |-> "none"] /\ ch = [I |-> "connecting", R |-> "none"]
    /\ local = All(FALSE) /\ remote = All(FALSE)
    /\ gath = All(0) /\ added = All({}) /\ faults = 0
    /\ listening = [I |-> TRUE, R |-> FALSE]
    /\ trickling = [I |-> env.mode = "trickle", R |-> FALSE]
    /\ eocSent = All(FALSE)
    /\ timer = [I |-> TRUE, R |-> FALSE]
    /\ sdpN = All(0)
    /\ iBody = "offer" /\ iAnswer = "none" /\ iPromise = "pending"
    /\ haveRemote = FALSE /\ pending = <<>> /\ eocPending = FALSE /\ eocApplied = FALSE
    /\ rBody = "none" /\ prePending = <<>> /\ preEoc = FALSE
    /\ deferred = <<>>
    /\ wrapped = FALSE /\ live = FALSE /\ connected = FALSE /\ hasClosed = FALSE
    /\ closing = FALSE
    /\ out = All(<<>>) /\ early = FALSE /\ fired = 0 /\ undisturbed = TRUE

Trickle == env.mode = "trickle"
Alive(s) == pc[s] \in {"new", "connected", "disconnected"}
Complete(s) == gath[s] = MaxCand + 1

\* Mutant: the end mark is taken for a candidate.
InSdpAll(s) == gath[s]

\* A description carries the candidates gathered so far.
InSdp(s) == IF Complete(s) THEN MaxCand ELSE gath[s]

Post(s, m) == net' = [net EXCEPT ![Other(s)] = Append(@, m)]
Ice(c) == [type |-> "ice", n |-> c]
Heard(s) == net' = [net EXCEPT ![s] = Tail(@)]

\* A null candidate goes out once, whatever noticed the end of gathering first.
SendEnd(s) ==
    IF eocSent[s]
      THEN UNCHANGED <<net, eocSent, out>>
      ELSE /\ Post(s, Ice(End))
           /\ eocSent' = [eocSent EXCEPT ![s] = TRUE]
           /\ out' = [out EXCEPT ![s] = Append(@, End)]

\* addIceCandidate: an error is swallowed, so a pc without remote description or
\* a closed one loses the candidate.
Hand(s, c) ==
    /\ added' = [added EXCEPT ![s] = IF Alive(s) /\ remote[s] THEN @ \cup {c} ELSE @]
    /\ early' = (early \/ (Alive(s) /\ ~remote[s]))

\* setRemoteDescription, with the candidates the description carries.
Described(s) ==
    /\ remote' = [remote EXCEPT ![s] = TRUE]
    /\ added' = [added EXCEPT ![s] = @ \cup 1 .. sdpN[s]]

Fault ==
    /\ faults < MaxFaults /\ faults' = faults + 1
    /\ undisturbed' = FALSE

----------------------------------------------------------------------------
(* Gathering, on either side. *)

\* A candidate is signalled while onicecandidate is set.
Candidate(s) ==
    /\ Alive(s) /\ local[s] /\ gath[s] < MaxCand
    /\ gath' = [gath EXCEPT ![s] = @ + 1]
    /\ IF trickling[s]
         THEN /\ Post(s, Ice(gath[s] + 1))
              /\ out' = [out EXCEPT ![s] = Append(@, gath[s] + 1)]
         ELSE UNCHANGED <<net, out>>
    /\ UNCHANGED <<env, pc, ch, local, remote, added, faults, both, initiator, responder,
                   early, fired, undisturbed>>

\* The null candidate and the change to "complete": the listener on the latter
\* stays when onicecandidate is gone.
GatheringEnds(s) ==
    /\ Alive(s) /\ local[s] /\ gath[s] = MaxCand
    /\ gath' = [gath EXCEPT ![s] = MaxCand + 1]
    /\ IF Trickle THEN SendEnd(s) ELSE UNCHANGED <<net, eocSent, out>>
    /\ UNCHANGED <<env, pc, ch, local, remote, added, faults, listening, trickling, timer,
                   sdpN, initiator, responder, early, fired, undisturbed>>

----------------------------------------------------------------------------
(* The initiator. *)

\* Only the first outcome settles the promise.
Settle(outcome) == iPromise' = IF iPromise = "pending" THEN outcome ELSE iPromise

\* createOffer and setLocalDescription.  A platform may gather before the promise
\* of the latter continues the function.
LocalOffer ==
    /\ iBody = "offer" /\ Alive("I")
    /\ iBody' = "local" /\ local' = [local EXCEPT !["I"] = TRUE]
    /\ UNCHANGED <<env, net, pc, ch, remote, gath, added, faults, both, iAnswer, iPromise,
                   haveRemote, pending, eocPending, eocApplied, responder, history>>

\* The offer goes out at once, or when gathering is complete.
SendOffer ==
    /\ iBody = "local" /\ (Trickle \/ Complete("I"))
    /\ iBody' = "done"
    /\ Post("I", [type |-> "offer", n |-> InSdp("I")])
    /\ UNCHANGED <<env, platform, both, iAnswer, iPromise, haveRemote, pending, eocPending,
                   eocApplied, responder, history>>

\* createOffer or setLocalDescription failed, or gathering took too long: the
\* watchdog and the listener stay.
OfferFails ==
    /\ \/ iBody = "offer" /\ Fault
       \/ iBody = "local" /\ ~Trickle /\ env.slow /\ UNCHANGED <<faults, undisturbed>>
    /\ iBody' = "done" /\ Settle("rejected")
    /\ UNCHANGED <<env, net, pc, ch, local, remote, gath, added, both, iAnswer, haveRemote,
                   pending, eocPending, eocApplied, responder, out, early, fired>>

\* A message nobody listens for.
InitiatorMisses ==
    /\ net["I"] # <<>> /\ ~listening["I"]
    /\ Heard("I")
    /\ UNCHANGED <<env, platform, both, initiator, responder, history>>

HearAnswer ==
    /\ net["I"] # <<>> /\ listening["I"] /\ Head(net["I"]).type = "answer"
    /\ Heard("I") /\ iAnswer' = "setting"
    /\ sdpN' = [sdpN EXCEPT !["I"] = Head(net["I"]).n]
    /\ UNCHANGED <<env, platform, listening, trickling, eocSent, timer, iBody, iPromise, haveRemote, pending, eocPending,
                   eocApplied, responder, history>>

\* Mutant: candidates are not deferred.
InitiatorTakesAtOnce(c) ==
    /\ Hand("I", c) /\ UNCHANGED <<pending, eocPending, eocApplied>>

\* Mutant: what comes before the answer is dropped.
InitiatorTakesLate(c) ==
    /\ IF haveRemote THEN Hand("I", c) ELSE UNCHANGED <<added, early>>
    /\ UNCHANGED <<pending, eocPending, eocApplied>>

\* A candidate waits for the answer; so does the end mark, which is applied once.
InitiatorTakes(c) ==
    \/ /\ haveRemote
       /\ IF c = End /\ eocApplied THEN UNCHANGED <<added, early>> ELSE Hand("I", c)
       /\ eocApplied' = (eocApplied \/ c = End)
       /\ UNCHANGED <<pending, eocPending>>
    \/ /\ ~haveRemote
       /\ IF c = End THEN eocPending' = TRUE /\ UNCHANGED pending
                     ELSE pending' = Append(pending, c) /\ UNCHANGED eocPending
       /\ UNCHANGED <<added, early, eocApplied>>

HearCandidate ==
    /\ net["I"] # <<>> /\ listening["I"] /\ Head(net["I"]).type = "ice"
    /\ Heard("I") /\ InitiatorTakes(Head(net["I"]).n)
    /\ UNCHANGED <<env, pc, ch, local, remote, gath, faults, both, iBody, iAnswer, iPromise,
                   haveRemote, responder, out, fired, undisturbed>>

\* setRemoteDescription(answer).  Until then the connection can neither fail nor
\* be closed.
AnswerSet ==
    /\ iAnswer = "setting"
    /\ iAnswer' = "draining" /\ haveRemote' = TRUE
    /\ Described("I")
    /\ UNCHANGED <<env, net, pc, ch, local, gath, faults, both, iBody, iPromise, pending,
                   eocPending, eocApplied, responder, history>>

AnswerFails ==
    /\ iAnswer = "setting" /\ Fault
    /\ iAnswer' = "done" /\ Settle("rejected")
    /\ UNCHANGED <<env, net, pc, ch, local, remote, gath, added, both, iBody, haveRemote,
                   pending, eocPending, eocApplied, responder, out, early, fired>>

\* The deferred candidates one by one, then the end mark.
DrainPending ==
    /\ iAnswer = "draining"
    /\ \/ /\ pending # <<>>
          /\ Hand("I", Head(pending)) /\ pending' = Tail(pending)
          /\ UNCHANGED <<iAnswer, eocApplied>>
       \/ /\ pending = <<>> /\ iAnswer' = "done"
          /\ IF eocPending /\ ~eocApplied
               THEN Hand("I", End) /\ eocApplied' = TRUE
               ELSE UNCHANGED <<added, early, eocApplied>>
          /\ UNCHANGED pending
    /\ UNCHANGED <<env, net, pc, ch, local, remote, gath, faults, both, iBody, iPromise,
                   haveRemote, eocPending, responder, out, fired, undisturbed>>

\* A failed or closed connection, the watchdog and the open channel all end the
\* signalling of the initiator.
StopSignalling(s) ==
    /\ listening' = [listening EXCEPT ![s] = FALSE]
    /\ trickling' = [trickling EXCEPT ![s] = FALSE]

\* The watchdog leaves the connection open.
InitiatorTimesOut ==
    /\ env.slow /\ timer["I"]
    /\ timer' = [timer EXCEPT !["I"] = FALSE]
    /\ StopSignalling("I") /\ Settle("rejected")
    /\ UNCHANGED <<env, net, platform, eocSent, sdpN, iBody, iAnswer, haveRemote, pending,
                   eocPending, eocApplied, responder, history>>

\* Mutant: onicecandidate stays after the end mark.
StillTrickling == UNCHANGED trickling

\* onicecandidate is removed once the channel is open.
TricklingEnds == trickling' = [trickling EXCEPT !["I"] = FALSE]

\* The channel opens: the end mark goes out if it has not, and the transport is
\* handed to the caller.
InitiatorOpens ==
    /\ pc["I"] = "connected" /\ ch["I"] = "connecting"
    /\ ch' = [ch EXCEPT !["I"] = "open"]
    /\ IF Trickle THEN SendEnd("I") /\ TricklingEnds
                  ELSE UNCHANGED <<net, eocSent, out, trickling>>
    /\ listening' = [listening EXCEPT !["I"] = FALSE]
    /\ timer' = [timer EXCEPT !["I"] = FALSE]
    /\ Settle("resolved")
    /\ UNCHANGED <<env, pc, local, remote, gath, added, faults, sdpN, iBody, iAnswer,
                   haveRemote, pending, eocPending, eocApplied, responder, early, fired,
                   undisturbed>>

\* close() of the transport the caller was given.
InitiatorCloses ==
    /\ iPromise = "resolved" /\ pc["I"] # "closed"
    /\ pc' = [pc EXCEPT !["I"] = "closed"] /\ ch' = [ch EXCEPT !["I"] = "closed"]
    /\ trickling' = [trickling EXCEPT !["I"] = FALSE]
    /\ undisturbed' = FALSE
    /\ UNCHANGED <<env, net, local, remote, gath, added, faults, listening, eocSent, timer,
                   sdpN, initiator, responder, out, early, fired>>

----------------------------------------------------------------------------
(* The responder. *)

Start ==
    /\ rBody = "none"
    /\ rBody' = "waiting" /\ listening' = [listening EXCEPT !["R"] = TRUE]
    /\ UNCHANGED <<env, net, platform, trickling, eocSent, timer, sdpN, initiator, prePending,
                   preEoc, deferred, facade, history>>

\* A relay drops what comes before the responder; any transport drops what comes
\* after it unsubscribed.  A mailbox that keeps messages is a relay that is slow.
ResponderMisses ==
    /\ net["R"] # <<>> /\ ~listening["R"]
    /\ Heard("R") /\ undisturbed' = FALSE
    /\ UNCHANGED <<env, platform, both, initiator, responder, out, early, fired>>

\* The first offer creates the connection; setRemoteDescription is under way.
HearOffer ==
    /\ net["R"] # <<>> /\ listening["R"] /\ Head(net["R"]).type = "offer"
    /\ rBody = "waiting"
    /\ Heard("R") /\ rBody' = "remote"
    /\ pc' = [pc EXCEPT !["R"] = "new"]
    /\ trickling' = [trickling EXCEPT !["R"] = Trickle]
    /\ sdpN' = [sdpN EXCEPT !["R"] = Head(net["R"]).n]
    /\ UNCHANGED <<env, ch, local, remote, gath, added, faults, listening, eocSent, timer,
                   initiator, prePending, preEoc, deferred, facade, history>>

\* Before the offer: kept until the description is set.
KeepEarly(c) ==
    IF c = End THEN preEoc' = TRUE /\ UNCHANGED prePending
               ELSE prePending' = Append(prePending, c) /\ UNCHANGED preEoc

\* After it: the listener defers until haveRemote, which nothing sets.
ResponderHearsIce ==
    /\ net["R"] # <<>> /\ listening["R"] /\ Head(net["R"]).type = "ice"
    /\ Heard("R")
    /\ LET c == Head(net["R"]).n
       IN  \/ /\ rBody = "waiting" /\ KeepEarly(c)
              /\ UNCHANGED deferred
           \/ /\ rBody # "waiting" /\ deferred' = Append(deferred, c)
              /\ UNCHANGED <<prePending, preEoc>>
    /\ UNCHANGED <<env, platform, both, initiator, rBody, facade, history>>

OfferSet ==
    /\ rBody = "remote" /\ Alive("R")
    /\ rBody' = "draining" /\ Described("R")
    /\ UNCHANGED <<env, net, pc, ch, local, gath, faults, both, initiator, prePending,
                   preEoc, deferred, facade, history>>

DrainEarly ==
    /\ rBody = "draining"
    /\ \/ /\ prePending # <<>>
          /\ Hand("R", Head(prePending)) /\ prePending' = Tail(prePending)
          /\ UNCHANGED <<rBody, preEoc>>
       \/ /\ prePending = <<>> /\ rBody' = "answer"
          /\ IF preEoc THEN Hand("R", End) ELSE UNCHANGED <<added, early>>
          /\ preEoc' = FALSE /\ UNCHANGED prePending
    /\ UNCHANGED <<env, net, pc, ch, local, remote, gath, faults, both, initiator, deferred,
                   facade, out, fired, undisturbed>>

LocalAnswer ==
    /\ rBody = "answer" /\ Alive("R")
    /\ rBody' = "local" /\ local' = [local EXCEPT !["R"] = TRUE]
    /\ UNCHANGED <<env, net, pc, ch, remote, gath, added, faults, both, initiator, prePending,
                   preEoc, deferred, facade, history>>

\* Mutant: nobody watches the connection.
Unwatched == UNCHANGED timer

\* armIceWatchdog
ArmWatchdog == timer' = [timer EXCEPT !["R"] = TRUE]

SendAnswer ==
    /\ rBody = "local" /\ (Trickle \/ Complete("R"))
    /\ rBody' = "answered"
    /\ Post("R", [type |-> "answer", n |-> InSdp("R")])
    /\ ArmWatchdog
    /\ UNCHANGED <<env, platform, listening, trickling, eocSent, sdpN, initiator, prePending,
                   preEoc, deferred, facade, history>>

\* Mutant: every path to the end calls the handlers.
FireCloseAgain(already) ==
    /\ connected' = FALSE
    /\ pc' = [pc EXCEPT !["R"] = IF @ = "none" THEN @ ELSE "closed"]
    /\ ch' = [ch EXCEPT !["R"] = IF @ = "none" THEN @ ELSE "closed"]
    /\ hasClosed' = TRUE /\ fired' = fired + 1
    /\ listening' = [listening EXCEPT !["R"] = FALSE]
    /\ timer' = [timer EXCEPT !["R"] = FALSE]

\* setConnected(false), then safeFireClose: the handlers, the responder's own
\* among them, run once; it unsubscribes and closes the connection.
FireClose(already) ==
    /\ connected' = FALSE
    /\ pc' = [pc EXCEPT !["R"] = IF @ = "none" THEN @ ELSE "closed"]
    /\ ch' = [ch EXCEPT !["R"] = IF @ = "none" THEN @ ELSE "closed"]
    /\ hasClosed' = TRUE
    /\ fired' = IF already THEN fired ELSE fired + 1
    /\ listening' = IF already THEN listening ELSE [listening EXCEPT !["R"] = FALSE]
    /\ timer' = IF already THEN timer ELSE [timer EXCEPT !["R"] = FALSE]

\* handleOffer threw: a description was refused, the connection was closed
\* meanwhile, or gathering took too long.
OfferRefused ==
    /\ \/ rBody \in {"remote", "answer"} /\ Alive("R") /\ Fault
       \/ rBody \in {"remote", "answer"} /\ ~Alive("R") /\ UNCHANGED <<faults, undisturbed>>
       \/ rBody = "local" /\ ~Trickle /\ env.slow /\ UNCHANGED <<faults, undisturbed>>
    /\ rBody' = "failed"
    /\ FireClose(hasClosed)
    /\ UNCHANGED <<env, net, local, remote, gath, added, trickling, eocSent, sdpN, initiator,
                   prePending, preEoc, deferred, wrapped, live, closing, out, early>>

ResponderTimesOut ==
    /\ env.slow /\ timer["R"]
    /\ FireClose(hasClosed)
    /\ UNCHANGED <<env, net, local, remote, gath, added, faults, trickling, eocSent, sdpN,
                   initiator, signals, wrapped, live, closing, out, early, undisturbed>>

\* Mutant: the watchdog goes on watching a channel that is up.
WatchdogOnUp == UNCHANGED timer

\* onUp of the channel stops the watchdog.
WatchdogCleared == timer' = [timer EXCEPT !["R"] = FALSE]

\* The datachannel event.  The wrapper calls onUp at once when the channel is
\* open, and onDown and onClose at once when it is not: then all is over.
Announce ==
    /\ pc["R"] = "connected" /\ ch["R"] = "none"
    /\ \/ /\ env.announced = "open"
          /\ ch' = [ch EXCEPT !["R"] = "open"]
          /\ hasClosed' = FALSE /\ wrapped' = TRUE /\ live' = TRUE /\ connected' = TRUE
          /\ WatchdogCleared
          /\ trickling' = [trickling EXCEPT !["R"] = FALSE]
          /\ UNCHANGED <<pc, listening, fired>>
       \/ /\ env.announced = "connecting"
          /\ FireClose(FALSE)
          /\ UNCHANGED <<wrapped, live, trickling>>
    /\ UNCHANGED <<env, net, local, remote, gath, added, faults, eocSent, sdpN, initiator,
                   signals, closing, out, early, undisturbed>>

\* close() of a transport whose channel is up: it first waits for the channel.
ResponderCloses ==
    /\ wrapped /\ ~closing
    /\ closing' = TRUE /\ wrapped' = FALSE /\ live' = FALSE
    /\ listening' = [listening EXCEPT !["R"] = FALSE]
    /\ timer' = [timer EXCEPT !["R"] = FALSE]
    /\ undisturbed' = FALSE
    /\ UNCHANGED <<env, net, platform, trickling, eocSent, sdpN, initiator, signals,
                   connected, hasClosed, out, early, fired>>

ChannelClosed ==
    /\ closing /\ closing' = FALSE
    /\ trickling' = [trickling EXCEPT !["R"] = FALSE]
    /\ FireClose(hasClosed)
    /\ UNCHANGED <<env, net, local, remote, gath, added, faults, eocSent, sdpN, initiator,
                   signals, wrapped, live, out, early, undisturbed>>

\* close() before there is a channel, or while another one waits for it.  After
\* onClose it only clears a watchdog that has nothing left to end.
ResponderClosesEarly ==
    /\ rBody # "none" /\ ~wrapped /\ ~hasClosed
    /\ undisturbed' = FALSE
    /\ FireClose(hasClosed)
    /\ UNCHANGED <<env, net, local, remote, gath, added, faults, trickling, eocSent, sdpN,
                   initiator, signals, wrapped, live, closing, out, early>>

----------------------------------------------------------------------------
(* The platform. *)

\* Both descriptions are set and the checks of a side that knows a candidate of
\* the other get through.
Connects ==
    /\ \A s \in Side : pc[s] = "new" /\ local[s] /\ remote[s]
    /\ \E s \in Checks : added[s] \ {End} # {}
    /\ pc' = All("connected")
    /\ UNCHANGED <<env, net, ch, local, remote, gath, added, faults, both, initiator,
                   responder, history>>

\* The wrapper's onDown: the responder guards send until onUp, which comes with
\* an open event only.
GoesDown(s) ==
    IF s = "R" /\ wrapped
      THEN connected' = FALSE /\ live' = FALSE
      ELSE UNCHANGED <<connected, live>>

Disconnects(s) ==
    /\ pc[s] = "connected" /\ Fault
    /\ pc' = [pc EXCEPT ![s] = "disconnected"]
    /\ GoesDown(s)
    /\ UNCHANGED <<env, net, ch, local, remote, gath, added, both, initiator, signals,
                   wrapped, hasClosed, closing, out, early, fired>>

Recovers(s) ==
    /\ pc[s] = "disconnected" /\ pc' = [pc EXCEPT ![s] = "connected"]
    /\ UNCHANGED <<env, net, ch, local, remote, gath, added, faults, both, initiator,
                   responder, history>>

\* A connection fails: by itself, or when the other side is gone.
FailureCause(s) ==
    \/ Alive(s) /\ remote[s] /\ Fault
    \/ /\ pc[s] \in {"connected", "disconnected"} /\ pc[Other(s)] \in {"failed", "closed"}
       /\ UNCHANGED <<faults, undisturbed>>

InitiatorFails ==
    /\ FailureCause("I")
    /\ pc' = [pc EXCEPT !["I"] = "failed"]
    /\ StopSignalling("I") /\ Settle("rejected")
    /\ UNCHANGED <<env, net, ch, local, remote, gath, added, eocSent, timer, sdpN, iBody,
                   iAnswer, haveRemote, pending, eocPending, eocApplied, responder, out,
                   early, fired>>

ResponderFails ==
    /\ FailureCause("R")
    /\ FireClose(hasClosed)
    /\ wrapped' = FALSE /\ live' = FALSE
    /\ UNCHANGED <<env, net, local, remote, gath, added, trickling, eocSent, sdpN, initiator,
                   signals, closing, out, early>>

\* A channel closes because the other end did, or by itself.
ClosingCause(s) ==
    \/ Fault
    \/ /\ pc[Other(s)] = "closed" \/ ch[Other(s)] = "closed"
       /\ UNCHANGED <<faults, undisturbed>>

\* The initiator's channel, once there are connections that can break it.
ChannelAtRisk == pc["I"] \notin {"new", "closed"} /\ ch["I"] \in {"connecting", "open"}

\* The error event: the promise is rejected, signalling goes on.
InitiatorChannelErrs ==
    /\ ChannelAtRisk /\ Fault
    /\ timer' = [timer EXCEPT !["I"] = FALSE]
    /\ Settle("rejected")
    /\ UNCHANGED <<env, net, pc, ch, local, remote, gath, added, listening, trickling, eocSent,
                   sdpN, iBody, iAnswer, haveRemote, pending, eocPending, eocApplied, responder,
                   out, early, fired>>

\* The close event, with or without an error before it: signalling and the watchdog
\* end, and the promise stays as it is.
InitiatorLosesChannel ==
    /\ ChannelAtRisk /\ ClosingCause("I")
    /\ ch' = [ch EXCEPT !["I"] = "closed"]
    /\ StopSignalling("I") /\ timer' = [timer EXCEPT !["I"] = FALSE]
    /\ UNCHANGED <<env, net, pc, local, remote, gath, added, eocSent, sdpN, initiator,
                   responder, out, early, fired>>

ResponderLosesChannel ==
    /\ ch["R"] = "open" /\ ClosingCause("R")
    /\ \/ /\ wrapped
          /\ FireClose(hasClosed)
          /\ wrapped' = FALSE /\ live' = FALSE
       \/ /\ ~wrapped
          /\ ch' = [ch EXCEPT !["R"] = "closed"]
          /\ UNCHANGED <<pc, listening, timer, wrapped, live, connected, hasClosed, fired>>
    /\ UNCHANGED <<env, net, local, remote, gath, added, trickling, eocSent, sdpN, initiator,
                   signals, closing, out, early>>

----------------------------------------------------------------------------

Initiator ==
    \/ LocalOffer \/ SendOffer \/ OfferFails \/ InitiatorMisses
    \/ HearAnswer \/ HearCandidate \/ AnswerSet \/ AnswerFails \/ DrainPending
    \/ InitiatorTimesOut \/ InitiatorOpens \/ InitiatorCloses

Responder ==
    \/ Start \/ ResponderMisses \/ HearOffer \/ ResponderHearsIce
    \/ OfferSet \/ DrainEarly \/ LocalAnswer \/ SendAnswer \/ OfferRefused
    \/ ResponderTimesOut \/ Announce
    \/ ResponderCloses \/ ChannelClosed \/ ResponderClosesEarly

Platform ==
    \/ \E s \in Side : Candidate(s) \/ GatheringEnds(s) \/ Disconnects(s) \/ Recovers(s)
    \/ Connects \/ InitiatorFails \/ ResponderFails
    \/ InitiatorChannelErrs \/ InitiatorLosesChannel \/ ResponderLosesChannel

Next == Initiator \/ Responder \/ Platform

Spec == Init /\ [][Next]_vars

\* What the runtime owes: awaited calls return, messages arrive, gathering ends,
\* what can connect does, and watchdogs expire.  Nothing has to fail or close.
Owed ==
    \/ LocalOffer \/ SendOffer \/ InitiatorMisses \/ HearAnswer \/ HearCandidate
    \/ AnswerSet \/ DrainPending \/ InitiatorTimesOut \/ InitiatorOpens
    \/ Start \/ ResponderMisses \/ HearOffer \/ ResponderHearsIce \/ OfferSet
    \/ DrainEarly \/ LocalAnswer \/ SendAnswer \/ ResponderTimesOut \/ Announce
    \/ Connects \/ \E s \in Side : Candidate(s) \/ GatheringEnds(s)

\* No behaviour goes on for ever, so fairness of the whole is fairness of each.
FairSpec == Spec /\ WF_vars(Owed)

----------------------------------------------------------------------------
(* Properties. *)

Cand == 0 .. MaxCand

\* Every variable stays in its type; only candidates that exist travel.
TypeOK ==
    /\ env \in Env /\ net \in [Side -> Seq(Message)]
    /\ pc \in [Side -> {"none", "new", "connected", "disconnected", "failed", "closed"}]
    /\ ch \in [Side -> {"none", "connecting", "open", "closed"}]
    /\ local \in [Side -> BOOLEAN] /\ remote \in [Side -> BOOLEAN]
    /\ gath \in [Side -> 0 .. MaxCand + 1] /\ added \in [Side -> SUBSET Cand]
    /\ faults \in 0 .. MaxFaults
    /\ listening \in [Side -> BOOLEAN] /\ trickling \in [Side -> BOOLEAN]
    /\ eocSent \in [Side -> BOOLEAN] /\ timer \in [Side -> BOOLEAN]
    /\ sdpN \in [Side -> Cand]
    /\ iBody \in {"offer", "local", "done"}
    /\ iAnswer \in {"none", "setting", "draining", "done"}
    /\ iPromise \in {"pending", "resolved", "rejected"}
    /\ haveRemote \in BOOLEAN /\ eocPending \in BOOLEAN /\ eocApplied \in BOOLEAN
    /\ pending \in Seq(Cand) /\ prePending \in Seq(Cand) /\ deferred \in Seq(Cand)
    /\ rBody \in {"none", "waiting", "remote", "draining", "answer", "local", "answered",
                  "failed"}
    /\ preEoc \in BOOLEAN
    /\ wrapped \in BOOLEAN /\ live \in BOOLEAN /\ connected \in BOOLEAN
    /\ hasClosed \in BOOLEAN /\ closing \in BOOLEAN
    /\ out \in [Side -> Seq(Cand)] /\ early \in BOOLEAN /\ fired \in Nat
    /\ undisturbed \in BOOLEAN

\* No side gives a candidate to a connection that has no remote description yet,
\* where it would be refused and lost, however offer, answer and candidates
\* overtake the handlers that await.
DeferredUntilDescribed == ~early

\* A side signals the end of its candidates once and nothing after it, although
\* three events of the initiator and two of the responder may send it.
EndIsLast == \A s \in Side : \A i \in 1 .. Len(out[s]) - 1 : out[s][i] # End

\* The responder's send goes to a channel that is open and up, or throws.
SendLiveMeansUp == live => connected /\ wrapped /\ ch["R"] = "open"

\* onClose of the responder fires once and for good, whichever of close(), the
\* watchdog, a refused offer, the connection and the channel come to it, and in
\* whatever order.
ClosedIsFinal ==
    [][hasClosed => hasClosed' /\ ~connected' /\ fired' = fired]_vars

\* When nothing fails and the watchdogs leave time, both sides come up.
BothUp ==
    <>(\/ iPromise = "resolved" /\ connected
       \/ ~undisturbed \/ env.slow \/ env.announced = "connecting")

\* The channel closed before it opened and no error event came with it: the listener
\* has stopped the watchdog and left the promise alone.
ClosedUnopened == ch["I"] = "closed" /\ iPromise = "pending"

\* However the negotiation goes wrong, the initiator's promise settles, unless its
\* channel closes unopened and without an error; and a responder that took an offer
\* comes up or fires onClose.
EverySideSettles ==
    env.slow => /\ <>(iPromise # "pending" \/ ClosedUnopened)
                /\ rBody = "remote" ~> connected \/ hasClosed

\* "Incoming ICE (trickle only): defer until remote SDP" (responder.js:265): once
\* the offer is set and answered, nothing is deferred any more.
NothingLeftDeferred == rBody = "answered" /\ Alive("R") => deferred = <<>>

=============================================================================
