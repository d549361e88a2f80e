--------------------------- MODULE SessionDispatch ---------------------------
(***************************************************************************)
(* One connection of a session, from startDispatcher to Close: the reader, *)
(* the input and event workers behind their bounded queues, the multimedia *)
(* goroutine, the heartbeat, the callers of sendRequest and the phone at   *)
(* the other end.  All of them write through pingMutex, which is held      *)
(* while the frame is written.                                             *)
(*                                                                         *)
(* A caller makes one request.  The transaction id of a request is the     *)
(* caller, and for the heartbeat the number of the beat.  The messages the *)
(* phone starts are numbered in the order it sends them; their kinds are   *)
(* what the dispatcher tells apart:                                        *)
(*   "move", "key"  input events: pointer movements, and all the others    *)
(*   "sync"         clipboard and notifications: refused if not queued      *)
(*   "clear"        the same, but the acknowledgement carries no verdict    *)
(*   "call"         call state and multimedia: dropped if not queued        *)
(*   "unpair"       dropped too; acknowledged before it is acted on         *)
(*   "status"       dropped too; never acknowledged                         *)
(***************************************************************************)
EXTENDS Integers, Sequences

CONSTANTS Request,      \* callers of sendRequest besides the heartbeat
          Deadline,     \* those whose context ends by itself
          NoWriter,
          MaxBeats,     \* bound on heartbeats
          MaxEvents,    \* bound on messages the phone starts
          MaxStates,    \* bound on multimedia states after the first
          InputCap, EventCap,  \* capacities of inputQueue and eventQueue
          NetCap        \* frames that fit in the buffers of one direction

Worker == {"reader", "inputs", "events", "media"}
Caller == Request \cup {"beat"}
Writer == Worker \cup Caller

ASSUME DispatchAssumption ==
    /\ Deadline \subseteq Request
    /\ Request \cap (Worker \cup {"beat"} \cup Nat) = {}
    /\ NoWriter \notin Writer
    /\ MaxBeats \in Nat /\ MaxEvents \in Nat /\ MaxStates \in Nat
    /\ InputCap \in Nat \ {0} /\ EventCap \in Nat \ {0} /\ NetCap \in Nat \ {0}

VARIABLES
    pc,          \* where each goroutine is
    pingMutex,   \* who holds pingMutex
    ended,       \* callers whose own context has ended
    pending,     \* transaction ids with a registered response channel
    slot,        \* those whose channel holds the answer
    result,      \* what sendRequest returned
    beatNo,      \* heartbeats started
    stateNo,     \* multimedia states sent after the first
    runPc,       \* where RunWithCallbacks is
    sessionDone, \* the context of the connection has ended
    readDone,    \* the reader has sent its error
    broken,      \* one end has closed the connection, or the link is lost
    sendCtr,     \* frameCipher.counter of the sending side
    toPhone,     \* frames under way to the phone
    recvCtr,     \* the counter the phone opens the next frame with
    refused,     \* the phone could not open a frame
    toHost,      \* frames under way to the host
    sent,        \* kinds of the messages the phone has started
    phonePc, phoneTx,    \* runSession of the phone, the request it answers
    handled,     \* requests the phone has handled
    dropped,     \* the message the reader is refusing
    inputQueue, inputJobs, inputNext, inputOk,
    eventQueue, eventJob, eventOk,
    applied,     \* messages the host has acted on
    acks         \* the acknowledgement sent for each message

callVars == <<ended, pending, slot, result, beatNo>>
runVars == <<runPc, sessionDone, readDone>>
wireVars == <<broken, sendCtr, toPhone>>
phoneVars == <<recvCtr, refused, toHost, sent, phonePc, phoneTx, handled>>
inputVars == <<inputQueue, inputJobs, inputNext, inputOk>>
eventVars == <<eventQueue, eventJob, eventOk>>
workVars == <<dropped, stateNo, inputVars, eventVars, applied>>
vars == <<pc, pingMutex, callVars, runVars, wireVars, phoneVars, workVars, acks>>

Event == 1..MaxEvents
Tx == Request \cup 1..MaxBeats
Kind == {"move", "key", "sync", "clear", "call", "unpair", "status"}
IsRefused(n) == sent[n] \in {"sync", "clear"}
IsInput(n) == sent[n] \in {"move", "key"}

(* What the goroutine w is writing or about to write.                      *)
TxOf(c) == IF c = "beat" THEN beatNo ELSE c
FrameOf(w) ==
    CASE w \in Caller   -> [type |-> "request", id |-> TxOf(w), ok |-> TRUE]
      [] w = "reader"   -> [type |-> "ack", id |-> dropped, ok |-> FALSE]
      [] w = "inputs"   -> [type |-> "ack", id |-> Head(inputJobs), ok |-> inputOk]
      [] w = "events"   -> [type |-> "ack", id |-> eventJob, ok |-> eventOk]
      [] w = "media"    -> [type |-> "state", id |-> 0, ok |-> TRUE]

Frame ==
    [type : {"request"}, id : Tx, ok : {TRUE}, ctr : Nat]
    \cup [type : {"ack"}, id : Event, ok : BOOLEAN, ctr : Nat]
    \cup [type : {"state"}, id : {0}, ok : {TRUE}, ctr : Nat]

Upward ==
    [type : {"answer"}, id : Tx] \cup [type : {"event"}, id : Event]

PcOf(w) ==
    {"lock", "write", "sent"} \cup
    CASE w \in Caller  -> {"idle", "wait", "done"}
      [] w = "reader"  -> {"read", "stopped"}
      [] w = "inputs"  -> {"idle", "drain", "apply", "stopped"}
      [] w = "events"  -> {"idle", "apply", "stopped"}
      [] w = "media"   -> {"idle", "stopped"}

Place == {"idle", "read", "drain", "apply", "lock", "write", "sent", "wait", "done",
          "stopped"}

ControlOK ==
    /\ pc \in [Writer -> Place] /\ \A w \in Writer : pc[w] \in PcOf(w)
    /\ pingMutex \in Writer \cup {NoWriter}
    /\ runPc \in {"starting", "beating", "closing", "closed"}
    /\ sessionDone \in BOOLEAN /\ readDone \in BOOLEAN
    /\ broken \in BOOLEAN /\ refused \in BOOLEAN

CallsOK ==
    /\ ended \subseteq Deadline \cup {"beat"}
    /\ pending \subseteq Tx /\ slot \subseteq pending
    /\ result \in [Request -> {"none", "ok", "failed"}]
    /\ beatNo \in 0..MaxBeats /\ stateNo \in 0..MaxStates

WireOK ==
    /\ sendCtr \in Nat /\ toPhone \in Seq(Frame) /\ Len(toPhone) <= NetCap
    /\ toHost \in Seq(Upward) /\ Len(toHost) <= NetCap
    /\ sent \in Seq(Kind) /\ Len(sent) <= MaxEvents

PhoneOK ==
    /\ recvCtr \in Nat /\ handled \subseteq Tx
    /\ \/ phonePc = "read" /\ phoneTx = 0
       \/ phonePc = "answer" /\ phoneTx \in Tx

WorkOK ==
    /\ dropped \in Event \cup {0}
    /\ inputQueue \in Seq(Event) /\ Len(inputQueue) <= InputCap
    /\ inputJobs \in Seq(Event) /\ inputNext \in Event \cup {0}
    /\ inputOk \in BOOLEAN
    /\ eventQueue \in Seq(Event \cup {0}) /\ Len(eventQueue) <= EventCap
    /\ eventJob \in Event \cup {0} /\ eventOk \in BOOLEAN
    /\ applied \subseteq Event
    /\ acks \in [Event -> {"none", "accepted", "refused"}]

TypeOK == ControlOK /\ CallsOK /\ WireOK /\ PhoneOK /\ WorkOK

Init ==
    /\ pc = [w \in Writer |->
                IF w = "reader" THEN "read" ELSE IF w = "media" THEN "lock" ELSE "idle"]
    /\ pingMutex = NoWriter
    /\ ended = {} /\ pending = {} /\ slot = {}
    /\ result = [r \in Request |-> "none"]
    /\ beatNo = 0 /\ stateNo = 0
    /\ runPc = "starting"
    /\ sessionDone = FALSE /\ readDone = FALSE /\ broken = FALSE
    /\ sendCtr = 0 /\ toPhone = <<>>
    /\ recvCtr = 0 /\ refused = FALSE /\ toHost = <<>> /\ sent = <<>>
    /\ phonePc = "read" /\ phoneTx = 0 /\ handled = {}
    /\ dropped = 0
    /\ inputQueue = <<>> /\ inputJobs = <<>> /\ inputNext = 0 /\ inputOk = FALSE
    /\ eventQueue = <<>> /\ eventJob = 0 /\ eventOk = FALSE
    /\ applied = {}
    /\ acks = [n \in Event |-> "none"]

Goto(w, place) == pc' = [pc EXCEPT ![w] = place]

(* The context a goroutine hands to WriteMessage: its own for a request,   *)
(* the connection's for everything else, both for a heartbeat.             *)
CtxEnded(w) ==
    \/ w \in Caller /\ w \in ended
    \/ w \notin Request /\ sessionDone
-----------------------------------------------------------------------------
(* sendRequest *)

InRequest == {"lock", "write", "sent", "wait"}

(* A caller registers the channel for its answer before it writes.         *)
Call(r) ==
    /\ pc[r] = "idle"
    /\ pending' = pending \cup {r}
    /\ Goto(r, "lock")
    /\ UNCHANGED <<pingMutex, ended, slot, result, beatNo, runVars, wireVars,
                   phoneVars, workVars, acks>>

(* The ticker of RunHeartbeat fires.                                       *)
Tick ==
    /\ runPc = "beating" /\ pc["beat"] = "idle"
    /\ beatNo < MaxBeats
    /\ beatNo' = beatNo + 1
    /\ pending' = pending \cup {beatNo'}
    /\ Goto("beat", "lock")
    /\ UNCHANGED <<pingMutex, ended, slot, result, runVars, wireVars, phoneVars,
                   workVars, acks>>

(* The context of a caller ends: the time the IPC client allowed, or the   *)
(* sessionTimeout of a heartbeat.                                          *)
RequestsOnly(c) == c \in Deadline
HasDeadline(c) == c \in Deadline \cup {"beat"}
Expire(c) ==
    /\ HasDeadline(c)
    /\ pc[c] \in InRequest
    /\ c \notin ended
    /\ ended' = ended \cup {c}
    /\ UNCHANGED <<pc, pingMutex, pending, slot, result, beatNo, runVars,
                   wireVars, phoneVars, workVars, acks>>

LeaveChannel(c, how) ==
    /\ pending' = IF how = "ok" THEN pending \ {TxOf(c)} ELSE pending
    /\ slot' = slot \ {TxOf(c)}
    /\ IF c = "beat"
       THEN /\ ended' = ended \ {c}
            /\ UNCHANGED result
            /\ Goto(c, IF how = "ok" THEN "idle" ELSE "done")
            /\ runPc' = IF how = "ok" THEN runPc ELSE "closing"
            /\ sessionDone' = (sessionDone \/ how # "ok")
       ELSE /\ result' = [result EXCEPT ![c] = how]
            /\ Goto(c, "done")
            /\ UNCHANGED <<ended, runPc, sessionDone>>

(* sendRequest returns; a heartbeat that fails ends RunHeartbeat, and      *)
(* RunWithCallbacks cancels the context of the connection.                 *)
Return(c, how) ==
    /\ pending' = pending \ {TxOf(c)}
    /\ slot' = slot \ {TxOf(c)}
    /\ IF c = "beat"
       THEN /\ ended' = ended \ {c}
            /\ UNCHANGED result
            /\ Goto(c, IF how = "ok" THEN "idle" ELSE "done")
            /\ runPc' = IF how = "ok" THEN runPc ELSE "closing"
            /\ sessionDone' = (sessionDone \/ how # "ok")
       ELSE /\ result' = [result EXCEPT ![c] = how]
            /\ Goto(c, "done")
            /\ UNCHANGED <<ended, runPc, sessionDone>>

(* The select at the end of sendRequest.                                   *)
Answered(c) ==
    /\ pc[c] = "wait" /\ TxOf(c) \in slot
    /\ Return(c, "ok")
    /\ UNCHANGED <<pingMutex, beatNo, readDone, wireVars, phoneVars, workVars, acks>>

GivesUp(c) ==
    /\ pc[c] = "wait" /\ CtxEnded(c)
    /\ Return(c, "failed")
    /\ UNCHANGED <<pingMutex, beatNo, readDone, wireVars, phoneVars, workVars, acks>>
-----------------------------------------------------------------------------
(* WriteMessage, under pingMutex *)

LockAnyTime(w) ==
    /\ pc[w] = "lock"
    /\ pingMutex' = w
    /\ sendCtr' = sendCtr + 1
    /\ Goto(w, "write")
    /\ UNCHANGED <<callVars, runVars, broken, toPhone, phoneVars, workVars, acks>>

(* The frame is sealed, with the next counter, before its first byte is    *)
(* written.                                                                *)
Lock(w) ==
    /\ pc[w] = "lock" /\ pingMutex = NoWriter
    /\ pingMutex' = w
    /\ sendCtr' = sendCtr + 1
    /\ Goto(w, "write")
    /\ UNCHANGED <<callVars, runVars, broken, toPhone, phoneVars, workVars, acks>>

(* All of the frame is written.  After the other end has gone the kernel   *)
(* may still take it.                                                      *)
WriteDone(w) ==
    /\ pc[w] = "write" /\ ~CtxEnded(w)
    /\ \/ /\ ~broken /\ Len(toPhone) < NetCap
          /\ toPhone' = Append(toPhone, [type |-> FrameOf(w).type, id |-> FrameOf(w).id,
                                         ok |-> FrameOf(w).ok, ctr |-> sendCtr - 1])
       \/ broken /\ runPc # "closed" /\ UNCHANGED toPhone
    /\ acks' = IF FrameOf(w).type = "ack"
               THEN [acks EXCEPT ![FrameOf(w).id] =
                        IF FrameOf(w).ok THEN "accepted" ELSE "refused"]
               ELSE acks
    /\ Goto(w, "sent")
    /\ UNCHANGED <<pingMutex, callVars, runVars, broken, sendCtr, phoneVars, workVars>>

(* Where a goroutine goes after its write.                                 *)
AfterRequest(c, ok) ==
    \/ /\ ok /\ Goto(c, "wait")
       /\ UNCHANGED <<ended, pending, slot, result, runPc, sessionDone>>
    \/ ~ok /\ Return(c, "failed")

AckFirstAgain ==
    /\ inputJobs' = SubSeq(inputJobs, 1, Len(inputJobs) - 1)
    /\ Goto("inputs", IF Len(inputJobs) > 1 THEN "lock" ELSE "idle")

AfterInputAck ==
    /\ inputJobs' = Tail(inputJobs)
    /\ Goto("inputs", IF Len(inputJobs) > 1 THEN "lock" ELSE "idle")

(* The first state is sent by RunWithCallbacks itself, before the          *)
(* heartbeat: if that fails, or there is no MPRIS service, the multimedia  *)
(* goroutine is never started.                                             *)
AfterState(ok) ==
    /\ runPc' = IF runPc = "starting" THEN "beating" ELSE runPc
    /\ \/ ok /\ Goto("media", "idle")
       \/ (~ok \/ runPc = "starting") /\ Goto("media", "stopped")

(* handleUnpair calls its handler after the acknowledgement, written or    *)
(* not.                                                                    *)
AfterEventAck ==
    /\ applied' = IF sent[eventJob] = "unpair" THEN applied \cup {eventJob} ELSE applied
    /\ eventJob' = 0
    /\ Goto("events", "idle")

AfterWrite(w, ok) ==
    \/ /\ w \in Caller /\ AfterRequest(w, ok)
       /\ UNCHANGED <<dropped, eventJob, inputJobs, applied>>
    \/ /\ w = "reader" /\ Goto(w, "read") /\ dropped' = 0
       /\ UNCHANGED <<ended, pending, slot, result, runPc, sessionDone, eventJob, inputJobs,
                      applied>>
    \/ /\ w = "events" /\ AfterEventAck
       /\ UNCHANGED <<ended, pending, slot, result, runPc, sessionDone, dropped, inputJobs>>
    \/ /\ w = "inputs" /\ AfterInputAck
       /\ UNCHANGED <<ended, pending, slot, result, runPc, sessionDone, dropped, eventJob,
                      applied>>
    \/ /\ w = "media" /\ AfterState(ok)
       /\ UNCHANGED <<ended, pending, slot, result, sessionDone, dropped, eventJob,
                      inputJobs, applied>>

Unlock(w) ==
    /\ pc[w] = "sent"
    /\ pingMutex' = NoWriter
    /\ AfterWrite(w, TRUE)
    /\ UNCHANGED <<beatNo, readDone, wireVars, phoneVars, stateNo, inputQueue,
                   inputNext, inputOk, eventQueue, eventOk, acks>>

(* The context ends before the last byte is written, or the connection is  *)
(* gone.  Nothing, or the beginning of the frame, has been written; the    *)
(* connection stays open, and the next frame has the next counter.         *)
WriteFails(w) ==
    /\ pc[w] = "write" /\ (CtxEnded(w) \/ broken)
    /\ pingMutex' = NoWriter
    /\ AfterWrite(w, FALSE)
    /\ UNCHANGED <<beatNo, readDone, wireVars, phoneVars, stateNo, inputQueue,
                   inputNext, inputOk, eventQueue, eventOk, acks>>
-----------------------------------------------------------------------------
(* The reader: ReadMessage and dispatchIncoming *)

Reads == pc["reader"] = "read" /\ ~sessionDone /\ toHost # <<>>

AnyWaiter(tx) == pending \ slot
SelectingWaiter(tx) ==
    {t \in pending \ slot : t = tx /\ \E c \in Caller : pc[c] = "wait" /\ TxOf(c) = t}

(* deliverResponse finds the channel an answer goes to, if it has room.    *)
Waiter(tx) == {t \in pending \ slot : t = tx}

NoLimit(queue, cap) == TRUE
Room(queue, cap) == Len(queue) < cap

(* An answer nobody waits for any more goes the way of unsolicited         *)
(* messages, and is ignored there.                                         *)
ReadAnswer ==
    /\ Reads /\ Head(toHost).type = "answer"
    /\ toHost' = Tail(toHost)
    /\ \/ /\ \E tx \in Waiter(Head(toHost).id) : slot' = slot \cup {tx}
          /\ UNCHANGED eventQueue
       \/ /\ Waiter(Head(toHost).id) = {}
          /\ eventQueue' = IF Room(eventQueue, EventCap)
                           THEN Append(eventQueue, 0) ELSE eventQueue
          /\ UNCHANGED slot
    /\ UNCHANGED <<pc, pingMutex, ended, pending, result, beatNo, runVars,
                   wireVars, recvCtr, refused, sent, phonePc, phoneTx, handled,
                   dropped, stateNo, inputVars, eventJob, eventOk, applied, acks>>

DropSilently(n) == UNCHANGED <<pc, dropped>>

(* The reader itself writes the acknowledgement of a message it drops.     *)
Drop(n) == Goto("reader", "lock") /\ dropped' = n

(* An input event finds no token in the bucket, or its queue full.         *)
ReadInput ==
    /\ Reads /\ Head(toHost).type = "event" /\ IsInput(Head(toHost).id)
    /\ toHost' = Tail(toHost)
    /\ \/ /\ Room(inputQueue, InputCap)
          /\ inputQueue' = Append(inputQueue, Head(toHost).id)
          /\ UNCHANGED <<pc, dropped>>
       \/ /\ Drop(Head(toHost).id)
          /\ UNCHANGED inputQueue
    /\ UNCHANGED <<pingMutex, callVars, runVars, wireVars, recvCtr, refused, sent,
                   phonePc, phoneTx, handled, stateNo, inputJobs, inputNext, inputOk,
                   eventVars, applied, acks>>

ReadEvent ==
    /\ Reads /\ Head(toHost).type = "event" /\ ~IsInput(Head(toHost).id)
    /\ toHost' = Tail(toHost)
    /\ LET n == Head(toHost).id
       IN \/ /\ Room(eventQueue, EventCap)
             /\ eventQueue' = Append(eventQueue, n)
             /\ UNCHANGED <<pc, dropped>>
          \/ /\ ~Room(eventQueue, EventCap) /\ IsRefused(n)
             /\ Drop(n)
             /\ UNCHANGED eventQueue
          \/ /\ ~Room(eventQueue, EventCap) /\ ~IsRefused(n)
             /\ UNCHANGED <<pc, dropped, eventQueue>>
    /\ UNCHANGED <<pingMutex, callVars, runVars, wireVars, recvCtr, refused, sent,
                   phonePc, phoneTx, handled, stateNo, inputVars, eventJob, eventOk,
                   applied, acks>>

ReadFails ==
    /\ pc["reader"] = "read" /\ (sessionDone \/ broken)
    /\ readDone' = TRUE
    /\ Goto("reader", "stopped")
    /\ UNCHANGED <<pingMutex, callVars, runPc, sessionDone, wireVars, phoneVars,
                   workVars, acks>>
-----------------------------------------------------------------------------
(* runEventWorker and handleUnsolicited *)

EventTaken ==
    /\ pc["events"] = "idle" /\ eventQueue # <<>>
    /\ eventQueue' = Tail(eventQueue)
    /\ \/ Head(eventQueue) = 0 /\ UNCHANGED <<pc, eventJob>>
       \/ /\ Head(eventQueue) # 0
          /\ eventJob' = Head(eventQueue)
          /\ Goto("events", "apply")
    /\ UNCHANGED <<pingMutex, callVars, runVars, wireVars, phoneVars, dropped, stateNo,
                   inputVars, eventOk, applied, acks>>

(* The handler of the message succeeds or fails, and then acknowledges.    *)
EventApplied(ok) ==
    /\ pc["events"] = "apply" /\ sent[eventJob] \in {"sync", "clear", "call"}
    /\ eventOk' = (ok \/ sent[eventJob] = "clear")
    /\ applied' = IF ok THEN applied \cup {eventJob} ELSE applied
    /\ Goto("events", "lock")
    /\ UNCHANGED <<pingMutex, callVars, runVars, wireVars, phoneVars, dropped, stateNo,
                   inputVars, eventQueue, eventJob, acks>>

UnpairTaken ==
    /\ pc["events"] = "apply" /\ sent[eventJob] = "unpair"
    /\ eventOk' = TRUE
    /\ Goto("events", "lock")
    /\ UNCHANGED <<pingMutex, callVars, runVars, wireVars, phoneVars, dropped, stateNo,
                   inputVars, eventQueue, eventJob, applied, acks>>

StatusTaken ==
    /\ pc["events"] = "apply" /\ sent[eventJob] = "status"
    /\ applied' = applied \cup {eventJob}
    /\ eventJob' = 0
    /\ Goto("events", "idle")
    /\ UNCHANGED <<pingMutex, callVars, runVars, wireVars, phoneVars, dropped, stateNo,
                   inputVars, eventQueue, eventOk, acks>>

EventsStop ==
    /\ pc["events"] = "idle" /\ sessionDone
    /\ Goto("events", "stopped")
    /\ UNCHANGED <<pingMutex, callVars, runVars, wireVars, phoneVars, workVars, acks>>
-----------------------------------------------------------------------------
(* runInputWorker *)

InputStep == UNCHANGED <<pingMutex, callVars, runVars, wireVars, phoneVars, dropped,
                         stateNo, eventVars, acks>>

Begin(n) ==
    /\ inputJobs' = <<n>>
    /\ Goto("inputs", IF sent[n] = "move" THEN "drain" ELSE "apply")

QueueFirst ==
    /\ pc["inputs"] = "idle"
    /\ \/ /\ inputQueue # <<>>
          /\ Begin(Head(inputQueue)) /\ inputQueue' = Tail(inputQueue)
          /\ UNCHANGED inputNext
       \/ /\ inputNext # 0 /\ inputQueue = <<>>
          /\ Begin(inputNext) /\ inputNext' = 0
          /\ UNCHANGED inputQueue
    /\ UNCHANGED <<inputOk, applied>>
    /\ InputStep

(* The event that ended the last coalesced movement comes first, even when *)
(* the context has ended.                                                  *)
InputTaken ==
    /\ pc["inputs"] = "idle"
    /\ \/ /\ inputNext # 0
          /\ Begin(inputNext) /\ inputNext' = 0
          /\ UNCHANGED inputQueue
       \/ /\ inputNext = 0 /\ inputQueue # <<>>
          /\ Begin(Head(inputQueue)) /\ inputQueue' = Tail(inputQueue)
          /\ UNCHANGED inputNext
    /\ UNCHANGED <<inputOk, applied>>
    /\ InputStep

(* One turn of the loop that coalesces pointer movements.                  *)
Coalesce ==
    /\ pc["inputs"] = "drain"
    /\ \/ /\ inputQueue # <<>> /\ sent[Head(inputQueue)] = "move"
          /\ inputJobs' = Append(inputJobs, Head(inputQueue))
          /\ inputQueue' = Tail(inputQueue)
          /\ UNCHANGED <<pc, inputNext>>
       \/ /\ inputQueue # <<>> /\ sent[Head(inputQueue)] # "move"
          /\ inputNext' = Head(inputQueue)
          /\ inputQueue' = Tail(inputQueue)
          /\ Goto("inputs", "apply")
          /\ UNCHANGED inputJobs
       \/ /\ inputQueue = <<>>
          /\ Goto("inputs", "apply")
          /\ UNCHANGED <<inputQueue, inputJobs, inputNext>>
    /\ UNCHANGED <<inputOk, applied>>
    /\ InputStep

(* Movements that add up to nothing need no call and count as applied.     *)
InputApplied(ok) ==
    /\ pc["inputs"] = "apply"
    /\ inputOk' = ok
    /\ applied' = IF ok THEN applied \cup {inputJobs[i] : i \in DOMAIN inputJobs}
                        ELSE applied
    /\ Goto("inputs", "lock")
    /\ UNCHANGED <<inputQueue, inputJobs, inputNext>>
    /\ InputStep

InputsStop ==
    /\ pc["inputs"] = "idle" /\ inputNext = 0 /\ sessionDone
    /\ Goto("inputs", "stopped")
    /\ UNCHANGED <<inputVars, applied>>
    /\ InputStep
-----------------------------------------------------------------------------
(* The multimedia goroutine and RunWithCallbacks *)

StateChanged ==
    /\ pc["media"] = "idle" /\ runPc # "starting" /\ ~sessionDone
    /\ stateNo < MaxStates
    /\ stateNo' = stateNo + 1
    /\ Goto("media", "lock")
    /\ UNCHANGED <<pingMutex, callVars, runVars, wireVars, phoneVars, dropped,
                   inputVars, eventVars, applied, acks>>

MediaStops ==
    /\ sessionDone
    /\ \/ pc["media"] = "idle" /\ UNCHANGED runPc
       \/ /\ pc["media"] = "lock" /\ runPc = "starting"
          /\ runPc' = "beating"
    /\ Goto("media", "stopped")
    /\ UNCHANGED <<pingMutex, callVars, sessionDone, readDone, wireVars, phoneVars,
                   workVars, acks>>

(* The session is stopped from outside: disconnect, unpair or shutdown.    *)
Cancel ==
    /\ ~sessionDone
    /\ sessionDone' = TRUE
    /\ UNCHANGED <<pc, pingMutex, callVars, runPc, readDone, wireVars, phoneVars,
                   workVars, acks>>

(* RunHeartbeat returns between two heartbeats.                            *)
HeartbeatEnds ==
    /\ runPc = "beating" /\ pc["beat"] = "idle" /\ (sessionDone \/ readDone)
    /\ runPc' = "closing" /\ sessionDone' = TRUE
    /\ Goto("beat", "done")
    /\ UNCHANGED <<pingMutex, callVars, readDone, wireVars, phoneVars, workVars, acks>>

(* The connection is closed after the multimedia goroutine has ended.      *)
Close ==
    /\ runPc = "closing" /\ pc["media"] = "stopped"
    /\ runPc' = "closed" /\ broken' = TRUE
    /\ UNCHANGED <<pc, pingMutex, callVars, sessionDone, readDone, sendCtr, toPhone,
                   phoneVars, workVars, acks>>
-----------------------------------------------------------------------------
(* The phone: runSession answers requests in order; other threads send the *)
(* messages the phone starts.                                              *)

PhoneReads ==
    /\ phonePc = "read" /\ ~broken /\ toPhone # <<>>
    /\ toPhone' = Tail(toPhone)
    /\ LET f == Head(toPhone)
       IN \/ /\ f.ctr # recvCtr
             /\ refused' = TRUE /\ broken' = TRUE
             /\ UNCHANGED <<recvCtr, phonePc, phoneTx, handled>>
          \/ /\ f.ctr = recvCtr /\ f.type = "request"
             /\ recvCtr' = recvCtr + 1
             /\ phonePc' = "answer" /\ phoneTx' = f.id
             /\ handled' = handled \cup {f.id}
             /\ UNCHANGED <<refused, broken>>
          \/ /\ f.ctr = recvCtr /\ f.type # "request"
             /\ recvCtr' = recvCtr + 1
             /\ UNCHANGED <<refused, broken, phonePc, phoneTx, handled>>
    /\ UNCHANGED <<pc, pingMutex, callVars, runVars, sendCtr, toHost, sent, workVars, acks>>

PhoneAnswers ==
    /\ phonePc = "answer" /\ ~broken /\ Len(toHost) < NetCap
    /\ toHost' = Append(toHost, [type |-> "answer", id |-> phoneTx])
    /\ phonePc' = "read" /\ phoneTx' = 0
    /\ UNCHANGED <<pc, pingMutex, callVars, runVars, wireVars, recvCtr, refused, sent,
                   handled, workVars, acks>>

PhoneStarts(k) ==
    /\ ~broken /\ Len(sent) < MaxEvents /\ Len(toHost) < NetCap
    /\ sent' = Append(sent, k)
    /\ toHost' = Append(toHost, [type |-> "event", id |-> Len(sent) + 1])
    /\ UNCHANGED <<pc, pingMutex, callVars, runVars, wireVars, recvCtr, refused,
                   phonePc, phoneTx, handled, workVars, acks>>

(* The phone closes its socket, or the link is lost.                       *)
PhoneLeaves ==
    /\ ~broken
    /\ broken' = TRUE
    /\ UNCHANGED <<pc, pingMutex, callVars, runVars, sendCtr, toPhone, phoneVars,
                   workVars, acks>>
-----------------------------------------------------------------------------
Wait(c) == Expire(c) \/ Answered(c) \/ GivesUp(c)
Write(w) == Lock(w) \/ WriteDone(w) \/ Unlock(w) \/ WriteFails(w)
Read == ReadAnswer \/ ReadInput \/ ReadEvent \/ ReadFails
HandleEvent ==
    \/ EventTaken \/ UnpairTaken \/ StatusTaken \/ EventsStop
    \/ \E ok \in BOOLEAN : EventApplied(ok)
HandleInput ==
    InputTaken \/ Coalesce \/ InputsStop \/ \E ok \in BOOLEAN : InputApplied(ok)
Run == Tick \/ HeartbeatEnds \/ Close \/ StateChanged \/ MediaStops \/ Cancel
Phone == PhoneReads \/ PhoneAnswers \/ PhoneLeaves \/ \E k \in Kind : PhoneStarts(k)

Next ==
    \/ \E r \in Request : Call(r)
    \/ \E c \in Caller : Wait(c)
    \/ \E w \in Writer : Write(w)
    \/ Read \/ HandleEvent \/ HandleInput \/ Run \/ Phone

Spec == Init /\ [][Next]_vars

(* Goroutines run, contexts with a deadline end, and pingMutex is handed   *)
(* to a waiter that has starved.  Users and the phone promise nothing.     *)
HostFairness ==
    /\ \A w \in Writer : /\ SF_vars(Lock(w))
                         /\ WF_vars(WriteDone(w) \/ Unlock(w) \/ WriteFails(w))
    /\ \A c \in Caller : /\ WF_vars(Expire(c))
                         /\ WF_vars(Answered(c) \/ GivesUp(c))
    /\ WF_vars(Read) /\ WF_vars(HandleEvent) /\ WF_vars(HandleInput)
    /\ WF_vars(HeartbeatEnds) /\ WF_vars(MediaStops) /\ WF_vars(Close)

(* A phone that always reads on, and answers what it has read.             *)
ResponsivePhone == WF_vars(PhoneReads) /\ WF_vars(PhoneAnswers)
-----------------------------------------------------------------------------
(* Properties *)

(* sendRequest registers its channel before writing, so the sole reader    *)
(* cannot receive and discard a fast acknowledgement: an answer read while *)
(* its caller is still in sendRequest reaches the caller.                  *)
AnswerReaches(c) ==
    ReadAnswer /\ Head(toHost).id = TxOf(c) /\ pc[c] \in InRequest => TxOf(c) \in slot'
AnswerReachesCaller == [][\A c \in Caller : AnswerReaches(c)]_vars

(* A request reported as successful was handled by the phone, however late *)
(* answers, timeouts and heartbeats interleave.                            *)
OkMeansHandled ==
    \A r \in Request : (result[r] = "ok" \/ r \in slot) => r \in handled

(* The pending map holds the requests in progress, and forgets every one   *)
(* that returned, on whatever path.                                        *)
PendingIsInProgress ==
    pending = {TxOf(c) : c \in {c \in Caller : pc[c] \in InRequest}}

(* Frames reach the wire in counter order and no counter is used twice,    *)
(* even when several goroutines send at once.                              *)
WireInOrder ==
    /\ \A i, j \in DOMAIN toPhone : i < j => toPhone[i].ctr < toPhone[j].ctr
    /\ \A i \in DOMAIN toPhone : toPhone[i].ctr >= recvCtr /\ toPhone[i].ctr < sendCtr

(* Each worker acts on the messages of the phone in the order they were    *)
(* sent: a button or key is never overtaken by a later pointer movement.   *)
AppliesInOrder ==
    \A n \in applied' \ applied, m \in applied : IsInput(m) = IsInput(n) => m < n
AppliedInOrder == [][AppliesInOrder]_vars

(* A message is acknowledged once, and as accepted only after the host has *)
(* acted on it; handleUnpair acknowledges first, and the acknowledgement   *)
(* of handleClearNotification says nothing.                                *)
AcksOnce(w) ==
    WriteDone(w) /\ FrameOf(w).type = "ack" =>
        /\ acks[FrameOf(w).id] = "none"
        /\ FrameOf(w).ok /\ sent[FrameOf(w).id] \notin {"unpair", "clear"}
               => FrameOf(w).id \in applied
AckedOnce == [][\A w \in Worker : AcksOnce(w)]_vars

(* While the session lives, a message that expects an acknowledgement and  *)
(* has been read is queued, in hand or acknowledged.                       *)
In(n, s) == \E i \in DOMAIN s : s[i] = n
NothingForgotten ==
    ~sessionDone /\ ~broken =>
        \A n \in DOMAIN sent :
            \/ sent[n] \in {"call", "unpair", "status"}
            \/ \E i \in DOMAIN toHost : toHost[i] = [type |-> "event", id |-> n]
            \/ In(n, inputQueue) \/ In(n, inputJobs) \/ inputNext = n
            \/ In(n, eventQueue) \/ eventJob = n \/ dropped = n
            \/ acks[n] # "none"

(* Once the connection is lost, the session ends: its goroutines stop, the *)
(* connection is closed and callers with a deadline have returned.         *)
Stopped ==
    /\ runPc = "closed"
    /\ \A w \in Worker : pc[w] = "stopped"
    /\ \A r \in Deadline : pc[r] \in {"idle", "done"}
BrokenSessionStops == broken ~> Stopped

(* ping.go: "The caller owns the timeout through ctx."                     *)
DeadlineEndsRequest == \A r \in Deadline : r \in ended ~> pc[r] = "done"

(* secure.go: a frame that does not authenticate means "the peer is not    *)
(* speaking the encrypted protocol, or someone tampered with the stream".  *)
HonestFramesOpen == ~refused
=============================================================================
