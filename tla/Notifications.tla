--------------------------- MODULE Notifications ----------------------------
(***************************************************************************)
(* Notifications in both directions.  The watcher is a monitor of the      *)
(* session bus: it pushes what the applications of the host show to the    *)
(* phones and clears what they close.  The bridge shows the notifications  *)
(* of a phone on the host and carries what the user does there back.  Both *)
(* speak to the same notification server and see its signals, each on a    *)
(* connection of its own.                                                  *)
(*                                                                         *)
(* A Notify call is named by a number, its sender and serial.  The server  *)
(* gives a call a new id or the one it replaces; whether it keeps the      *)
(* latter when the notification has been closed meanwhile is up to it.     *)
(***************************************************************************)
EXTENDS Naturals, Sequences

CONSTANTS Key,         \* keys of the phone's notifications
          MonitorRoom, \* room in the channel of the monitor
          MaxCalls     \* bound on the Notify calls

NoId == 0
NoKey == "none"

ASSUME NotificationsAssumption ==
    /\ MonitorRoom \in Nat \ {0}
    /\ MaxCalls \in Nat
    /\ NoKey \notin Key

Id == 1..MaxCalls

VARIABLES
    calls,     \* Notify calls so far
    nextId,    \* the id the server assigns next
    waiting,   \* calls of applications the server has not answered
    shown,     \* ids on the screen of the host
    monitored, \* messages in the channel of the monitor
    pending,   \* calls in pendingNotifs
    pushing,   \* what the watcher sends to the phone now
    phoneHas,  \* host notifications on the phone, by id
    missing,   \* ids whose push, clear or message was lost, or that the
               \* phone has cleared on its own or with another
    showing,   \* where Show is, for each key
    number,    \* the number of its call
    replaces,  \* the id it replaces
    rendered,  \* the id the server has assigned
    byLinux,   \* the bridge: the key of an id
    byKey,     \* the bridge: the id of a key
    originIDs, \* androidOriginIDs
    closings,  \* NotificationClosed signals on their way to the bridge
    replying,  \* keys whose reply is being typed
    onPhone,   \* the phone's own notifications
    arriving,  \* messages with them on their way to the host, each named by
               \* the number of the call it will lead to
    kept,      \* those whose Show or dismissal failed, or that were closed
               \* for a reply
    early,     \* ids whose signal came before Show had recorded them
    reused     \* ids that Show recorded, having got them again, when a signal
               \* that they had been closed was still on its way

hostNotes == <<calls, nextId, waiting, shown>>
watcherNotes == <<monitored, pending, pushing, phoneHas, missing>>
showNotes == <<showing, number, replaces, rendered>>
bridgeNotes == <<byLinux, byKey, originIDs, closings, replying, onPhone,
                arriving, kept, early, reused>>
noteVars == <<hostNotes, watcherNotes, showNotes, bridgeNotes>>

NoteInit ==
    /\ calls = 0
    /\ nextId = 1
    /\ waiting = {}
    /\ shown = {}
    /\ monitored = <<>>
    /\ pending = {}
    /\ pushing = <<"idle", NoId>>
    /\ phoneHas = {}
    /\ missing = {}
    /\ showing = [k \in Key |-> "idle"]
    /\ number = [k \in Key |-> 0]
    /\ replaces = [k \in Key |-> NoId]
    /\ rendered = [k \in Key |-> NoId]
    /\ byLinux = [i \in Id |-> NoKey]
    /\ byKey = [k \in Key |-> NoId]
    /\ originIDs = {}
    /\ closings = <<>>
    /\ replying = {}
    /\ onPhone = {}
    /\ arriving = [k \in Key |-> {}]
    /\ kept = {}
    /\ early = {}
    /\ reused = {}

Message(kind, call, id) == [kind |-> kind, call |-> call, id |-> id]

(* The connection of the monitor drops what does not fit.                  *)
Monitors(msgs) ==
    LET room == MonitorRoom - Len(monitored)
        fit  == IF Len(msgs) < room THEN Len(msgs) ELSE room IN
    /\ monitored' = monitored \o SubSeq(msgs, 1, fit)
    /\ missing' = missing \cup {msgs[i].id : i \in (fit + 1)..Len(msgs)}

-----------------------------------------------------------------------------
(* Applications, the user of the host, and the server *)

AppNotifies ==
    /\ calls < MaxCalls
    /\ calls' = calls + 1
    /\ waiting' = waiting \cup {calls'}
    /\ Monitors(<<Message("call", calls', NoId)>>)
    /\ UNCHANGED <<nextId, shown, pending, pushing, phoneHas, showNotes,
                   bridgeNotes>>

(* The ids the server gave to notifications of the bridge.                 *)
BridgeIds == originIDs \cup {rendered[k] : k \in Key}

(* The reply carries the id, a new one or that of the notification the     *)
(* application replaces, on the screen or not; an error carries none.      *)
ServerAnswers(c) ==
    /\ c \in waiting
    /\ waiting' = waiting \ {c}
    /\ \/ \E i \in {nextId} \cup (1..(nextId - 1) \ BridgeIds) :
             /\ shown' = shown \cup {i}
             /\ nextId' = IF i = nextId THEN nextId + 1 ELSE nextId
             /\ Monitors(<<Message("reply", c, i)>>)
       \/ /\ Monitors(<<Message("error", c, NoId)>>)
          /\ UNCHANGED <<shown, nextId>>
    /\ UNCHANGED <<calls, pending, pushing, phoneHas, showNotes, bridgeNotes>>

(* It expires, the user closes it, its application or the phone does.      *)
Closed(i) ==
    /\ i \in shown
    /\ shown' = shown \ {i}
    /\ closings' = Append(closings, i)
    /\ Monitors(<<Message("closed", 0, i)>>)
    /\ UNCHANGED <<calls, nextId, waiting, pending, pushing, phoneHas,
                   showNotes, byLinux, byKey, originIDs, replying, onPhone,
                   arriving, kept, early, reused>>

-----------------------------------------------------------------------------
(* The watcher *)

Received(kind) ==
    /\ pushing[1] = "idle"
    /\ monitored # <<>>
    /\ Head(monitored).kind = kind
    /\ monitored' = Tail(monitored)

(* A watcher with room for one call.                                       *)
HoldOneCall ==
    /\ \/ Received("call") /\ pending' = {Head(monitored).call}
       \/ Received("marked") /\ UNCHANGED pending
    /\ UNCHANGED <<hostNotes, pushing, phoneHas, missing, showNotes, bridgeNotes>>

(* A call is held until its reply gives the id; one that the bridge made   *)
(* is marked by its hint and skipped.                                      *)
HoldCall ==
    /\ \/ Received("call") /\ pending' = pending \cup {Head(monitored).call}
       \/ Received("marked") /\ UNCHANGED pending
    /\ UNCHANGED <<hostNotes, pushing, phoneHas, missing, showNotes, bridgeNotes>>

DropCall ==
    /\ Received("error")
    /\ pending' = pending \ {Head(monitored).call}
    /\ UNCHANGED <<hostNotes, pushing, phoneHas, missing, showNotes, bridgeNotes>>

(* A watcher that takes any reply for that of the oldest call.             *)
MatchAnyReply ==
    LET msg == Head(monitored) IN
    /\ Received("reply")
    /\ pending' = pending \ {msg.call}
    /\ pushing' = IF pending # {} THEN <<"push", msg.id>> ELSE pushing
    /\ UNCHANGED <<hostNotes, phoneHas, missing, showNotes, bridgeNotes>>

MatchReply ==
    LET msg == Head(monitored) IN
    /\ Received("reply")
    /\ pending' = pending \ {msg.call}
    /\ pushing' = IF msg.call \in pending THEN <<"push", msg.id>> ELSE pushing
    /\ UNCHANGED <<hostNotes, phoneHas, missing, showNotes, bridgeNotes>>

ForwardClosing ==
    LET id == Head(monitored).id IN
    /\ Received("closed")
    /\ pushing' = IF id \in originIDs THEN pushing ELSE <<"clear", id>>
    /\ UNCHANGED <<hostNotes, pending, phoneHas, missing, showNotes, bridgeNotes>>

(* push and clear wait for the phone.                                      *)
WatcherGoesOn ==
    /\ pushing' = <<"idle", NoId>>
    /\ UNCHANGED <<hostNotes, monitored, pending, showNotes, bridgeNotes>>

SyncNotification ==
    /\ pushing[1] = "push"
    /\ phoneHas' = phoneHas \cup {pushing[2]}
    /\ UNCHANGED missing
    /\ WatcherGoesOn

(* The phone cancels all it has when it does not show that id, because its *)
(* user has swept it away or it was never there.                           *)
Cancelled(id) == IF id \in phoneHas THEN {id} ELSE phoneHas

ClearNotification ==
    /\ pushing[1] = "clear"
    /\ phoneHas' = phoneHas \ Cancelled(pushing[2])
    /\ missing' = missing \cup (Cancelled(pushing[2]) \ {pushing[2]})
    /\ WatcherGoesOn

(* No session syncs with a phone, or the request fails.                    *)
PhoneNotReached ==
    /\ pushing[1] # "idle"
    /\ missing' = missing \cup {pushing[2]}
    /\ UNCHANGED phoneHas
    /\ WatcherGoesOn

(* The user sweeps a host notification off the phone, whose request to     *)
(* close it on the host may follow.                                        *)
PhoneSweeps(i) ==
    /\ i \in phoneHas
    /\ phoneHas' = phoneHas \ {i}
    /\ missing' = missing \cup {i}
    /\ UNCHANGED <<hostNotes, monitored, pending, pushing, showNotes,
                   bridgeNotes>>

-----------------------------------------------------------------------------
(* The bridge *)

(* The phone posts or updates a notification that the filters let through, *)
(* and sends it in a coroutine of its own, if there is a session.          *)
PhonePosts(k) ==
    /\ calls < MaxCalls
    /\ onPhone' = onPhone \cup {k}
    /\ \/ /\ calls' = calls + 1
          /\ arriving' = [arriving EXCEPT ![k] = @ \cup {calls'}]
          /\ UNCHANGED kept
       \/ kept' = kept \cup {k} /\ UNCHANGED <<calls, arriving>>
    /\ UNCHANGED <<nextId, waiting, shown, watcherNotes, showNotes, byLinux, byKey,
                   originIDs, closings, replying, early, reused>>

(* It is gone on the phone; the host ignores the message that says so.     *)
PhoneRemoves(k) ==
    /\ k \in onPhone
    /\ onPhone' = onPhone \ {k}
    /\ UNCHANGED <<hostNotes, watcherNotes, showNotes, byLinux, byKey,
                   originIDs, closings, replying, arriving, kept, early,
                   reused>>

(* Show is called by the session's reader, one message after the other.    *)
ShowBegins(k) ==
    /\ showing[k] = "idle"
    /\ showing' = [showing EXCEPT ![k] = "call"]
    /\ \E c \in arriving[k] :
          /\ arriving' = [arriving EXCEPT ![k] = @ \ {c}]
          /\ number' = [number EXCEPT ![k] = c]
    /\ replaces' = [replaces EXCEPT ![k] = byKey[k]]
    /\ kept' = kept \ {k}
    /\ UNCHANGED <<hostNotes, watcherNotes, rendered, byLinux, byKey,
                   originIDs, closings, replying, onPhone, early, reused>>

(* The id of a Notify that replaces another: it stays while that one is on *)
(* the screen, and may stay after that.                                    *)
Assigned(id) == IF id \in shown THEN {id} ELSE {id, nextId} \ {NoId}

(* Notify and its reply; the monitor sees both.                            *)
ShowCalls(k) ==
    /\ showing[k] = "call"
    /\ showing' = [showing EXCEPT ![k] = "record"]
    /\ \E id \in Assigned(replaces[k]) :
          /\ rendered' = [rendered EXCEPT ![k] = id]
          /\ shown' = shown \cup {id}
          /\ nextId' = IF id = nextId THEN nextId + 1 ELSE nextId
          /\ Monitors(<<Message("marked", number[k], NoId),
                        Message("reply", number[k], id)>>)
    /\ UNCHANGED <<calls, waiting, pending, pushing, phoneHas, number,
                   replaces, bridgeNotes>>

ShowFails(k) ==
    /\ showing[k] = "call"
    /\ showing' = [showing EXCEPT ![k] = "idle"]
    /\ number' = [number EXCEPT ![k] = 0]
    /\ replaces' = [replaces EXCEPT ![k] = NoId]
    /\ kept' = kept \cup {k}
    /\ UNCHANGED <<hostNotes, watcherNotes, rendered, byLinux, byKey,
                   originIDs, closings, replying, onPhone, arriving,
                   early, reused>>

(* A Show that keeps the entry of the id it meant to replace.              *)
RecordOnly(k) == [byLinux EXCEPT ![rendered[k]] = k]

Record(k) == [i \in Id |-> IF i = rendered[k] THEN k
                           ELSE IF i = replaces[k] THEN NoKey
                           ELSE byLinux[i]]

InClosings(i) == \E m \in 1..Len(closings) : closings[m] = i

ShowRecords(k) ==
    /\ showing[k] = "record"
    /\ showing' = [showing EXCEPT ![k] = "mark"]
    /\ byLinux' = Record(k)
    /\ byKey' = [byKey EXCEPT ![k] = rendered[k]]
    /\ reused' = IF InClosings(rendered[k]) THEN reused \cup {rendered[k]}
                 ELSE reused \ {rendered[k]}
    /\ UNCHANGED <<hostNotes, watcherNotes, number, replaces, rendered,
                   originIDs, closings, replying, onPhone, arriving,
                   kept, early>>

ShowMarks(k) ==
    /\ showing[k] = "mark"
    /\ showing' = [showing EXCEPT ![k] = "idle"]
    /\ number' = [number EXCEPT ![k] = 0]
    /\ replaces' = [replaces EXCEPT ![k] = NoId]
    /\ rendered' = [rendered EXCEPT ![k] = NoId]
    /\ originIDs' = originIDs \cup {rendered[k]}
    /\ UNCHANGED <<hostNotes, watcherNotes, byLinux, byKey, closings, replying,
                   onPhone, arriving, kept, early, reused>>

Forgotten(id) ==
    /\ closings' = Tail(closings)
    /\ byLinux' = [byLinux EXCEPT ![id] = NoKey]
    /\ byKey' = [j \in Key |-> IF j = byLinux[id] THEN NoId ELSE byKey[j]]
    /\ early' = IF \E j \in Key : showing[j] = "record" /\ rendered[j] = id
                THEN early \cup {id} ELSE early
    /\ UNCHANGED <<hostNotes, watcherNotes, showNotes, originIDs, replying,
                   arriving, reused>>

(* A watch that looks the notification up after it has deleted it.         *)
ForgetOnly ==
    /\ closings # <<>>
    /\ Forgotten(Head(closings))
    /\ UNCHANGED <<onPhone, kept>>

(* The request reaches the phone, or there is no session.                  *)
Dismiss(k) ==
    \/ onPhone' = onPhone \ {k} /\ UNCHANGED kept
    \/ kept' = kept \cup ({k} \cap onPhone) /\ UNCHANGED onPhone

(* watch: a closed notification leaves both maps and is dismissed on the   *)
(* phone, unless a reply to it is being typed.                             *)
BridgeSeesClosing ==
    LET k == byLinux[Head(closings)] IN
    /\ closings # <<>>
    /\ Forgotten(Head(closings))
    /\ IF k \in replying
       THEN kept' = kept \cup {k} /\ UNCHANGED onPhone
       ELSE Dismiss(k)

(* ActionInvoked on a reply action opens the prompt; the server closes the *)
(* notification with it.                                                   *)
ReplyBegins(i) ==
    /\ i \in shown
    /\ byLinux[i] # NoKey
    /\ byLinux[i] \notin replying
    /\ replying' = replying \cup {byLinux[i]}
    /\ UNCHANGED <<hostNotes, watcherNotes, showNotes, byLinux, byKey,
                   originIDs, closings, onPhone, arriving, kept,
                   early, reused>>

ReplyEnds(k) ==
    /\ k \in replying
    /\ replying' = replying \ {k}
    /\ UNCHANGED <<hostNotes, watcherNotes, showNotes, byLinux, byKey,
                   originIDs, closings, onPhone, arriving, kept,
                   early, reused>>

NoteNext ==
    \/ AppNotifies
    \/ \E c \in 1..MaxCalls : ServerAnswers(c)
    \/ \E i \in Id : Closed(i) \/ ReplyBegins(i)
    \/ HoldCall \/ DropCall \/ MatchReply \/ ForwardClosing
    \/ SyncNotification \/ ClearNotification \/ PhoneNotReached
    \/ \E i \in Id : PhoneSweeps(i)
    \/ \E k \in Key :
          \/ PhonePosts(k) \/ PhoneRemoves(k)
          \/ ShowBegins(k) \/ ShowCalls(k) \/ ShowFails(k)
          \/ ShowRecords(k) \/ ShowMarks(k) \/ ReplyEnds(k)
    \/ BridgeSeesClosing

NoteSpec == NoteInit /\ [][NoteNext]_noteVars

-----------------------------------------------------------------------------
(* Properties *)

(* A notification of the phone never comes back to it as one of the host,  *)
(* however the calls, replies and closings of the bridge and of the        *)
(* applications are interleaved on the bus.                                *)
NoEcho ==
    /\ phoneHas \cap (BridgeIds \ {NoId}) = {}
    /\ pushing[1] = "push" => pushing[2] \notin BridgeIds

OnTheWay(kind, i) == \E m \in 1..Len(monitored) :
    monitored[m].kind = kind /\ monitored[m].id = i

(* The phone shows what the applications of the host show: a notification  *)
(* that is open only there, or only on the host, is on its way, or one of  *)
(* its messages or requests was lost, or the phone has cleared it, on its  *)
(* own or with one it was told to clear and did not have.                  *)
PhoneMirrorsHost ==
    /\ \A i \in phoneHas \ shown :
          OnTheWay("closed", i) \/ pushing = <<"clear", i>> \/ i \in missing
    /\ \A i \in shown \ (phoneHas \cup BridgeIds) :
          \/ OnTheWay("reply", i) \/ pushing = <<"push", i>>
          \/ missing \cap {i, NoId} # {}

(* What the user closes on the host is dismissed on the phone, unless a    *)
(* newer version is on its way, it never reached the host, Show or the     *)
(* dismissal failed, a reply was being typed, or the signal came before    *)
(* Show had recorded the id.                                               *)
DismissalArrives ==
    \A k \in onPhone :
        \/ showing[k] # "idle" \/ arriving[k] # {}
        \/ k \in kept
        \/ /\ byKey[k] # NoId
           /\ \/ byKey[k] \in shown \cup early
              \/ \E m \in 1..Len(closings) : closings[m] = byKey[k]

(* The user's clicks find their notification, and its next version takes   *)
(* its place: the entries of what is on the screen agree, whatever was     *)
(* closed while a newer version was on its way.  One that Show has still   *)
(* to record has none, and one that took the id of a closed notification   *)
(* may lose its own to the signal that the other was closed.               *)
BridgeMapsAgree ==
    \A i \in shown :
        /\ i \in originIDs =>
               \/ byLinux[i] # NoKey
               \/ \E k \in Key : showing[k] = "record" /\ rendered[k] = i
               \/ i \in reused
        /\ byLinux[i] # NoKey => byKey[byLinux[i]] = i
=============================================================================
