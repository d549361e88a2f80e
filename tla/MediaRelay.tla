----------------------------- MODULE MediaRelay -----------------------------
(***************************************************************************)
(* How a session keeps the media screen of its phone up to date.  The      *)
(* relay subscribes to MPRISService and answers each event with the full   *)
(* state of that moment; the event worker of the session does the same     *)
(* after a command of the phone.  Both read the state in three steps and   *)
(* queue for the connection only when they write it.                       *)
(*                                                                         *)
(* The state of MPRISService is a version, a frame the versions that its   *)
(* active player, its list of players and its pin were read from.          *)
(***************************************************************************)
EXTENDS Naturals, Sequences

CONSTANTS Room,        \* room in the channel of a subscription
          MaxVersions  \* bound on the changes of the state, and on commands

ASSUME RelayAssumption == Room \in Nat \ {0} /\ MaxVersions \in Nat

Sender == {"relay", "worker"}

(* Those who change the state and publish the change after it: the monitor *)
(* of MPRISService, a command of the control socket or of another phone,   *)
(* one of this phone.                                                      *)
Notifier == {"monitor", "socket", "worker"}

VARIABLES
    version,     \* the state of MPRISService
    announced,   \* the last version with an event, or made by this phone
    news,        \* notifiers that have a state event to publish
    subscribed,  \* the session's channel is registered
    buffer,      \* the events in it
    sending,     \* where each sender is
    frame,       \* what it has read
    view,        \* what the phone shows
    starved,     \* a state event was dropped and no other is queued
    overtaken,   \* the last frame written was older than the one before
    requests     \* how many commands there were

stateVars == <<version, announced, news>>
relayVars == <<stateVars, subscribed, buffer, sending, frame, view, starved,
               overtaken, requests>>

Unread == <<0, 0, 0>>

RelayInit ==
    /\ version = 0
    /\ announced = 0
    /\ news = {}
    /\ subscribed = FALSE
    /\ buffer = <<>>
    /\ sending = [s \in Sender |-> IF s = "relay" THEN "off" ELSE "idle"]
    /\ frame = [s \in Sender |-> Unread]
    /\ view = Unread
    /\ starved = FALSE
    /\ overtaken = FALSE
    /\ requests = 0

-----------------------------------------------------------------------------
(* MPRISService *)

StateChanges(n) ==
    /\ version < MaxVersions
    /\ n \notin news
    /\ version' = version + 1
    /\ announced' = version'
    /\ news' = news \cup {n}

(* SetActivePlayer and UseAutomaticPlayer publish only a change of the     *)
(* active player: pinning the player that is active, or dropping its pin,  *)
(* changes the pin of the frame and has no event.                          *)
OnlyPinChanges ==
    /\ version < MaxVersions
    /\ version' = version + 1
    /\ UNCHANGED news

(* The monitor applies a signal, or the control socket selects a player.   *)
HostChangesState(n) ==
    /\ n \in {"monitor", "socket"}
    /\ \/ StateChanges(n)
       \/ n = "socket" /\ OnlyPinChanges /\ UNCHANGED announced
    /\ UNCHANGED <<subscribed, buffer, sending, frame, view, starved,
                   overtaken, requests>>

Queued(event) == IF subscribed /\ Len(buffer) < Room
                 THEN Append(buffer, event) ELSE buffer

HasState(events) == \E i \in 1..Len(events) : events[i] = "state"

(* notify: an event that does not fit is dropped.                          *)
Publish(n) ==
    /\ n \in news
    /\ news' = news \ {n}
    /\ buffer' = Queued("state")
    /\ starved' = (starved \/ (subscribed /\ ~HasState(buffer')))
    /\ sending' = IF n = "worker" THEN [sending EXCEPT !["worker"] = "read"]
                  ELSE sending
    /\ UNCHANGED <<version, announced, subscribed, frame, view, overtaken,
                   requests>>

(* A tick of the position, or a Seeked signal.                             *)
PositionMoves ==
    /\ subscribed
    /\ Len(buffer) < Room
    /\ buffer' = Queued("position")
    /\ UNCHANGED <<stateVars, subscribed, sending, frame, view, starved,
                   overtaken, requests>>

-----------------------------------------------------------------------------
(* The commands of the phone *)

(* select-player: the selection, its event, and the full state.  When the  *)
(* active player stays the same there is no event, but the phone gets the  *)
(* full state all the same.  state: only the state.                        *)
PhoneCommand ==
    /\ requests < MaxVersions
    /\ requests' = requests + 1
    /\ sending["worker"] = "idle"
    /\ \/ /\ StateChanges("worker")
          /\ sending' = [sending EXCEPT !["worker"] = "publish"]
       \/ /\ sending' = [sending EXCEPT !["worker"] = "read"]
          /\ \/ OnlyPinChanges /\ announced' = version'
             \/ UNCHANGED stateVars
    /\ UNCHANGED <<subscribed, buffer, frame, view, starved, overtaken>>

-----------------------------------------------------------------------------
(* The relay *)

(* startMultimediaSyncOnce: subscribe first, then send the initial state.  *)
Subscribe ==
    /\ sending["relay"] = "off"
    /\ subscribed' = TRUE
    /\ sending' = [sending EXCEPT !["relay"] = "read"]
    /\ UNCHANGED <<stateVars, buffer, frame, view, starved, overtaken,
                   requests>>

(* sendMultimediaEvent: any event but a position is answered with the full *)
(* state.  A position of the active player is written by itself.           *)
TakeEvent ==
    /\ sending["relay"] = "wait"
    /\ buffer # <<>>
    /\ buffer' = Tail(buffer)
    /\ sending' = [sending EXCEPT !["relay"] =
                       IF Head(buffer) = "state" THEN "read" ELSE "wait"]
    /\ UNCHANGED <<stateVars, subscribed, frame, view, starved, overtaken,
                   requests>>

(* sendMultimediaStateFrame reads the active player, then, after its       *)
(* artwork was fetched, the list, then the pin.                            *)
ReadActive(s) ==
    /\ sending[s] = "read"
    /\ frame' = [frame EXCEPT ![s] = <<version, 0, 0>>]
    /\ sending' = [sending EXCEPT ![s] = "list"]
    /\ starved' = FALSE
    /\ UNCHANGED <<stateVars, subscribed, buffer, view, overtaken, requests>>

ReadList(s) ==
    /\ sending[s] = "list"
    /\ frame' = [frame EXCEPT ![s][2] = version]
    /\ sending' = [sending EXCEPT ![s] = "pin"]
    /\ UNCHANGED <<stateVars, subscribed, buffer, view, starved,
                   overtaken, requests>>

ReadPin(s) ==
    /\ sending[s] = "pin"
    /\ frame' = [frame EXCEPT ![s][3] = version]
    /\ sending' = [sending EXCEPT ![s] = "write"]
    /\ UNCHANGED <<stateVars, subscribed, buffer, view, starved,
                   overtaken, requests>>

Shows(s) ==
    /\ sending[s] = "write"
    /\ view' = frame[s]
    /\ frame' = [frame EXCEPT ![s] = Unread]
    /\ sending' = [sending EXCEPT ![s] = IF s = "relay" THEN "wait" ELSE "idle"]
    /\ overtaken' = (\E i \in 1..3 : frame[s][i] < view[i])

(* A sender that skips the events queued while it was sending.             *)
WriteAndDrain(s) ==
    /\ Shows(s)
    /\ buffer' = <<>>
    /\ UNCHANGED <<stateVars, subscribed, starved, requests>>

(* The connection is taken for the write only.                             *)
WriteFrame(s) ==
    /\ Shows(s)
    /\ UNCHANGED <<stateVars, subscribed, buffer, starved, requests>>

(* The context of the connection is cancelled, a write fails, or Stop      *)
(* closes the channel.                                                     *)
RelayEnds ==
    /\ sending["relay"] \in {"read", "list", "pin", "write", "wait"}
    /\ sending' = [sending EXCEPT !["relay"] = "ended"]
    /\ subscribed' = FALSE
    /\ buffer' = <<>>
    /\ UNCHANGED <<stateVars, frame, view, starved, overtaken, requests>>

RelayNext ==
    \/ \E n \in Notifier : HostChangesState(n) \/ Publish(n)
    \/ PositionMoves
    \/ PhoneCommand
    \/ Subscribe \/ TakeEvent \/ RelayEnds
    \/ \E s \in Sender : ReadActive(s) \/ ReadList(s) \/ ReadPin(s)
                          \/ WriteFrame(s)

RelaySpec == RelayInit /\ [][RelayNext]_relayVars

-----------------------------------------------------------------------------
(* Properties *)

(* The phone is never left with a state older than the last change that    *)
(* was announced or that it made itself: while the relay runs, it shows    *)
(* that or a later state, or an event or a full state is still on its way, *)
(* whatever changed while the initial or a later frame was put together.   *)
(* The exceptions are a state event dropped because positions filled the   *)
(* channel, and a slower sender that writes an older frame over a newer    *)
(* one.  A pin that others change without changing the active player has   *)
(* no event and waits for the next full state.                             *)
PhoneViewCurrent ==
    subscribed =>
        \/ \A i \in 1..3 : view[i] >= announced
        \/ HasState(buffer)
        \/ \E s \in Sender : sending[s] \in {"read", "list", "pin", "write"}
        \/ news # {}
        \/ starved
        \/ overtaken
=============================================================================
