------------------------ MODULE SessionDispatchProofs ------------------------
(***************************************************************************)
(* Proofs about SessionDispatch, for every set of callers and all bounds:  *)
(* what the callers of sendRequest rely on, the order of the frames, and   *)
(* the types with what each goroutine has in hand.                         *)
(***************************************************************************)
EXTENDS SessionDispatch, TLAPS

(* Every goroutine is somewhere, heartbeats are counted.                   *)
Base ==
    /\ pc \in [Writer -> Place]
    /\ beatNo \in Nat

(* The goroutines are different from one another and from the numbers.     *)
LEMMA Distinct ==
  /\ Caller = Request \cup {"beat"}
  /\ Writer = Caller \cup {"reader", "inputs", "events", "media"}
  /\ {"reader", "inputs", "events", "media"} \cap Caller = {}
  /\ "beat" \notin Request
  /\ Request \cap Nat = {}
BY DispatchAssumption DEF Writer, Caller, Worker

(* The steps that are neither a request nor a write.                       *)
QuietStep ==
    \/ Read \/ HandleEvent \/ HandleInput \/ Phone
    \/ Close \/ StateChanged \/ MediaStops \/ Cancel

(* Moving a worker leaves the callers where they are.                      *)
LEMMA MoveWorker ==
  ASSUME Base, NEW w \in Worker, NEW place \in Place \ {"write", "sent"},
         Goto(w, place)
  PROVE  /\ pc' \in [Writer -> Place]
         /\ \A c \in Caller : pc'[c] = pc[c]
         /\ \A v \in Writer : pc'[v] \in {"write", "sent"} => pc'[v] = pc[v]
BY Distinct DEF Base, Goto, Worker

LEMMA InitPlaces ==
  ASSUME Init
  PROVE  /\ Base
         /\ \A w \in Writer : \/ pc[w] = "idle"
                              \/ w \in Worker /\ pc[w] \in {"read", "lock"}
<1>1. pc = [w \in Writer |->
              IF w = "reader" THEN "read" ELSE IF w = "media" THEN "lock" ELSE "idle"]
  BY DEF Init
<1>2. \A w \in Writer : \/ pc[w] = "idle"
                        \/ w \in Worker /\ pc[w] \in {"read", "lock"}
  BY <1>1 DEF Worker
<1>3. pc \in [Writer -> Place]
  BY <1>1 DEF Place
<1>4. beatNo \in Nat
  BY DEF Init
<1> QED
  BY <1>2, <1>3, <1>4 DEF Base

(* The quiet steps move workers only, and start no write.                  *)
LEMMA Quiet ==
  ASSUME Base, QuietStep
  PROVE  /\ pc' \in [Writer -> Place]
         /\ \A c \in Caller : pc'[c] = pc[c]
         /\ \A v \in Writer : pc'[v] \in {"write", "sent"} => pc'[v] = pc[v]
         /\ UNCHANGED <<pingMutex, beatNo, pending, result, sendCtr>>
<1> DEFINE Moved ==
      /\ pc' \in [Writer -> Place]
      /\ \A c \in Caller : pc'[c] = pc[c]
      /\ \A v \in Writer : pc'[v] \in {"write", "sent"} => pc'[v] = pc[v]
<1>1. UNCHANGED <<pingMutex, beatNo, pending, result, sendCtr>>
  BY DEF QuietStep, Read, ReadAnswer, ReadInput, ReadEvent, ReadFails,
     HandleEvent, EventTaken, UnpairTaken, StatusTaken, EventsStop, EventApplied,
     HandleInput, InputTaken, Coalesce, InputsStop, InputApplied, InputStep,
     Phone, PhoneReads, PhoneAnswers, PhoneLeaves, PhoneStarts,
     Close, StateChanged, MediaStops, Cancel, callVars, wireVars
<1>2. UNCHANGED pc => Moved
  BY DEF Base
<1>3. \/ UNCHANGED pc
      \/ \E w \in Worker, place \in Place \ {"write", "sent"} : Goto(w, place)
  <2> USE DEF Worker, Place
  <2>1. CASE Read
    BY <2>1 DEF Read, ReadAnswer, ReadInput, ReadEvent, ReadFails, Drop
  <2>2. CASE HandleEvent
    BY <2>2 DEF HandleEvent, EventTaken, UnpairTaken, StatusTaken, EventsStop, EventApplied
  <2>3. CASE HandleInput
    <3>1. CASE InputTaken
      <4>1. PICK n : Begin(n)
        BY <3>1 DEF InputTaken
      <4> QED
        BY <4>1 DEF Begin
    <3>2. CASE Coalesce
      BY <3>2 DEF Coalesce
    <3>3. CASE InputsStop \/ \E ok \in BOOLEAN : InputApplied(ok)
      BY <3>3 DEF InputsStop, InputApplied
    <3> QED
      BY <2>3, <3>1, <3>2, <3>3 DEF HandleInput
  <2>4. CASE Phone
    BY <2>4 DEF Phone, PhoneReads, PhoneAnswers, PhoneLeaves, PhoneStarts
  <2>5. CASE Close \/ StateChanged \/ MediaStops \/ Cancel
    BY <2>5 DEF Close, StateChanged, MediaStops, Cancel
  <2> QED
    BY <2>1, <2>2, <2>3, <2>4, <2>5 DEF QuietStep
<1> QED
  BY <1>1, <1>2, <1>3, MoveWorker
-----------------------------------------------------------------------------
(* The pending map.                                                        *)

PendingInv == Base /\ PendingIsInProgress

(* Two callers never use the same transaction id.                          *)
LEMMA TxInjective ==
  ASSUME Base, NEW c \in Caller, NEW d \in Caller, TxOf(c) = TxOf(d)
  PROVE  c = d
BY Distinct DEF Base, TxOf

(* Moving any goroutine moves no other.                                    *)
LEMMA Move ==
  ASSUME Base, NEW w \in Writer, NEW place \in Place, Goto(w, place)
  PROVE  /\ pc' \in [Writer -> Place]
         /\ pc'[w] = place
         /\ \A v \in Writer \ {w} : pc'[v] = pc[v]
BY DEF Base, Goto

LEMMA KeepPending ==
  ASSUME PendingInv, UNCHANGED <<pending, beatNo>>, pc' \in [Writer -> Place],
         \A c \in Caller : pc'[c] \in InRequest <=> pc[c] \in InRequest
  PROVE  PendingInv'
<1>1. \A c \in Caller : TxOf(c)' = TxOf(c)
  BY DEF TxOf
<1> QED
  BY <1>1 DEF PendingInv, Base, PendingIsInProgress

(* sendRequest forgets the request on the way out.                         *)
LEMMA ReturnForgets ==
  ASSUME PendingInv, NEW c \in Caller, NEW how, pc[c] \in InRequest,
         Return(c, how), UNCHANGED beatNo
  PROVE  PendingInv'
<1>1. PICK place \in {"idle", "done"} : Goto(c, place)
  BY DEF Return
<1>2. /\ pc' \in [Writer -> Place]
      /\ pc'[c] = place
      /\ \A v \in Writer \ {c} : pc'[v] = pc[v]
  BY <1>1, Move, Distinct DEF PendingInv, Place
<1>3. \A d \in Caller : TxOf(d)' = TxOf(d)
  BY DEF TxOf
<1>4. \A d \in Caller : pc'[d] \in InRequest <=> pc[d] \in InRequest /\ d # c
  BY <1>2, Distinct DEF InRequest
<1>5. \A d \in Caller : d # c => TxOf(d) # TxOf(c)
  BY TxInjective DEF PendingInv
<1>6. pending' = pending \ {TxOf(c)}
  BY DEF Return
<1> QED
  BY <1>2, <1>3, <1>4, <1>5, <1>6 DEF PendingInv, Base, PendingIsInProgress

(* After its write a worker goes on; a caller waits or returns.            *)
LEMMA PendingAfterWrite ==
  ASSUME PendingInv, NEW w \in Writer, NEW ok \in BOOLEAN, pc[w] \in {"write", "sent"},
         AfterWrite(w, ok), UNCHANGED beatNo
  PROVE  PendingInv'
<1>1. CASE w \in Caller /\ AfterRequest(w, ok)
  <2>1. CASE Return(w, "failed")
    BY <1>1, <2>1, ReturnForgets DEF InRequest
  <2>2. CASE Goto(w, "wait") /\ UNCHANGED pending
    <3>1. /\ pc' \in [Writer -> Place]
          /\ pc'[w] = "wait"
          /\ \A v \in Writer \ {w} : pc'[v] = pc[v]
      BY <2>2, Move DEF PendingInv, Place
    <3> QED
      BY <2>2, <3>1, KeepPending, Distinct DEF InRequest
  <2> QED
    BY <1>1, <2>1, <2>2 DEF AfterRequest
<1>2. CASE w \in Worker /\ UNCHANGED pending
  <2>1. PICK place \in Place \ {"write", "sent"} : Goto(w, place)
    BY <1>2, Distinct DEF AfterWrite, AfterEventAck, AfterInputAck, AfterState, Place, Worker
  <2> QED
    BY <1>2, <2>1, MoveWorker, KeepPending DEF PendingInv
<1> QED
  BY <1>1, <1>2 DEF AfterWrite, Worker

LEMMA PendingStep ==
  ASSUME PendingInv, [Next]_vars
  PROVE  PendingInv'
<1>1. ASSUME NEW r \in Request, Call(r)
      PROVE  PendingInv'
  <2>1. /\ pc' \in [Writer -> Place]
        /\ pc'[r] = "lock"
        /\ \A v \in Writer \ {r} : pc'[v] = pc[v]
    BY <1>1, Move, Distinct DEF PendingInv, Call, Place
  <2>2. \A c \in Caller : TxOf(c)' = TxOf(c)
    BY <1>1 DEF Call, TxOf
  <2>3. TxOf(r) = r /\ r \in Caller
    BY Distinct DEF TxOf
  <2>4. \A c \in Caller : pc'[c] \in InRequest <=> pc[c] \in InRequest \/ c = r
    BY <2>1, Distinct DEF InRequest
  <2> QED
    BY <1>1, <2>1, <2>2, <2>3, <2>4 DEF PendingInv, Base, PendingIsInProgress, Call
<1>2. CASE Tick
  <2>1. /\ pc' \in [Writer -> Place]
        /\ pc'["beat"] = "lock"
        /\ \A v \in Writer \ {"beat"} : pc'[v] = pc[v]
    BY <1>2, Move, Distinct DEF PendingInv, Tick, Place
  <2>2. \A c \in Caller : c # "beat" => TxOf(c)' = TxOf(c)
    BY DEF TxOf
  <2>3. TxOf("beat")' = beatNo' /\ "beat" \in Caller
    BY Distinct DEF TxOf
  <2>4. \A c \in Caller : pc'[c] \in InRequest <=> pc[c] \in InRequest \/ c = "beat"
    BY <2>1, Distinct DEF InRequest
  <2>5. pc["beat"] \notin InRequest
    BY <1>2 DEF Tick, InRequest
  <2>6. beatNo' \in Nat /\ pending' = pending \cup {beatNo'}
    BY <1>2 DEF Tick, PendingInv, Base
  <2>7. pending' = {TxOf(c)' : c \in {c \in Caller : pc'[c] \in InRequest}}
    BY <2>2, <2>3, <2>4, <2>5, <2>6 DEF PendingInv, PendingIsInProgress
  <2> QED
    BY <2>1, <2>6, <2>7 DEF PendingInv, Base, PendingIsInProgress
<1>3. ASSUME NEW c \in Caller, Wait(c)
      PROVE  PendingInv'
  <2>1. CASE Expire(c)
    BY <2>1, KeepPending DEF Expire, PendingInv, Base
  <2>2. CASE Answered(c) \/ GivesUp(c)
    BY <2>2, ReturnForgets DEF Answered, GivesUp, InRequest
  <2> QED
    BY <1>3, <2>1, <2>2 DEF Wait
<1>4. ASSUME NEW w \in Writer, Write(w)
      PROVE  PendingInv'
  <2>1. CASE Lock(w) \/ WriteDone(w)
    <3>1. UNCHANGED <<pending, beatNo>> /\ pc[w] \in InRequest
      BY <2>1 DEF Lock, WriteDone, callVars, InRequest
    <3>2. PICK place \in {"write", "sent"} : Goto(w, place)
      BY <2>1 DEF Lock, WriteDone
    <3>3. /\ pc' \in [Writer -> Place]
          /\ pc'[w] = place
          /\ \A v \in Writer \ {w} : pc'[v] = pc[v]
      BY <3>2, Move DEF PendingInv, Place
    <3> QED
      BY <3>1, <3>3, KeepPending, Distinct DEF InRequest
  <2>2. CASE Unlock(w) \/ WriteFails(w)
    BY <2>2, PendingAfterWrite DEF Unlock, WriteFails
  <2> QED
    BY <1>4, <2>1, <2>2 DEF Write
<1>5. CASE QuietStep
  BY <1>5, Quiet, KeepPending DEF PendingInv
<1>6. CASE HeartbeatEnds
  <2>1. /\ pc' \in [Writer -> Place]
        /\ pc'["beat"] = "done"
        /\ \A v \in Writer \ {"beat"} : pc'[v] = pc[v]
    BY <1>6, Move, Distinct DEF PendingInv, HeartbeatEnds, Place
  <2> QED
    BY <1>6, <2>1, KeepPending, Distinct DEF HeartbeatEnds, callVars, InRequest
<1>7. CASE UNCHANGED vars
  BY <1>7, KeepPending DEF vars, callVars, PendingInv, Base
<1> QED
  BY <1>1, <1>2, <1>3, <1>4, <1>5, <1>6, <1>7 DEF Next, Run, QuietStep

(* sendRequest: the pending map holds the requests in progress and no      *)
(* others, whichever way a request ends.                                   *)
THEOREM PendingHolds == Spec => []PendingIsInProgress
<1>1. Init => PendingInv
  <2> SUFFICES ASSUME Init
               PROVE  PendingInv
    OBVIOUS
  <2>1. \A c \in Caller : pc[c] \notin InRequest
    BY InitPlaces, Distinct DEF InRequest, Worker
  <2>2. pending = {}
    BY DEF Init
  <2> QED
    BY <2>1, <2>2, InitPlaces DEF PendingInv, PendingIsInProgress
<1>2. PendingInv /\ [Next]_vars => PendingInv'
  BY PendingStep
<1>3. PendingInv => PendingIsInProgress
  BY DEF PendingInv
<1> QED
  BY <1>1, <1>2, <1>3, PTL DEF Spec
-----------------------------------------------------------------------------
(* The order of the frames.                                                *)

IsSequence(s) == \E S : s \in Seq(S)

(* The counter of the next frame to reach the wire at the earliest: the    *)
(* one being written, or the next to be sealed.                            *)
NextOnWire == IF \E w \in Writer : pc[w] = "write" THEN sendCtr - 1 ELSE sendCtr

(* pingMutex is held by whoever writes.                                    *)
Serial == \A w \in Writer : pc[w] \in {"write", "sent"} => pingMutex = w

WireInv ==
    /\ Base /\ Serial
    /\ sendCtr \in Nat /\ recvCtr \in Nat /\ recvCtr <= NextOnWire
    /\ IsSequence(toPhone)
    /\ \A i \in DOMAIN toPhone :
          /\ toPhone[i].ctr \in Nat
          /\ recvCtr <= toPhone[i].ctr /\ toPhone[i].ctr < NextOnWire
    /\ \A i, j \in DOMAIN toPhone : i < j => toPhone[i].ctr < toPhone[j].ctr

LEMMA AppendFacts ==
  ASSUME NEW s, IsSequence(s), NEW x
  PROVE  /\ IsSequence(Append(s, x))
         /\ Len(s) \in Nat /\ DOMAIN s = 1..Len(s)
         /\ DOMAIN Append(s, x) = 1..(Len(s) + 1)
         /\ \A i \in 1..Len(s) : Append(s, x)[i] = s[i]
         /\ Append(s, x)[Len(s) + 1] = x
<1>1. PICK S : s \in Seq(S)
  BY DEF IsSequence
<1>2. s \in Seq(S \cup {x})
  BY <1>1
<1>3. Append(s, x) \in Seq(S \cup {x})
  BY <1>2
<1> QED
  BY <1>2, <1>3 DEF IsSequence

LEMMA TailFacts ==
  ASSUME NEW s, IsSequence(s), s # <<>>
  PROVE  /\ IsSequence(Tail(s))
         /\ Len(s) \in Nat \ {0} /\ DOMAIN s = 1..Len(s)
         /\ Head(s) = s[1]
         /\ DOMAIN Tail(s) = 1..(Len(s) - 1)
         /\ \A i \in 1..(Len(s) - 1) : Tail(s)[i] = s[i + 1]
<1>1. PICK S : s \in Seq(S)
  BY DEF IsSequence
<1>2. Tail(s) \in Seq(S)
  BY <1>1
<1> QED
  BY <1>1, <1>2 DEF IsSequence

(* A step that starts no write and touches neither end of the wire.        *)
LEMMA WireKept ==
  ASSUME WireInv, Base', Serial', UNCHANGED <<sendCtr, toPhone, recvCtr>>,
         \A v \in Writer : pc'[v] = "write" => pc[v] = "write"
  PROVE  WireInv'
<1>1. NextOnWire' \in Int /\ NextOnWire \in Int /\ NextOnWire <= NextOnWire'
  BY DEF NextOnWire, WireInv
<1> QED
  BY <1>1 DEF WireInv

(* The steps outside Write start no write and leave pingMutex alone.       *)
LEMMA NoWrite ==
  ASSUME Base,
         \/ QuietStep \/ Tick \/ HeartbeatEnds
         \/ \E r \in Request : Call(r)
         \/ \E c \in Caller : Wait(c)
         \/ UNCHANGED vars
  PROVE  /\ Base' /\ UNCHANGED <<pingMutex, sendCtr>>
         /\ \A v \in Writer : pc'[v] \in {"write", "sent"} => pc'[v] = pc[v]
<1>1. CASE QuietStep
  BY <1>1, Quiet DEF Base
<1>2. CASE Tick \/ HeartbeatEnds \/ \E r \in Request : Call(r)
  <2>1. PICK c \in Writer, place \in Place \ {"write", "sent"} : Goto(c, place)
    BY <1>2, Distinct DEF Tick, HeartbeatEnds, Call, Place
  <2>2. beatNo' \in Nat /\ UNCHANGED <<pingMutex, sendCtr>>
    BY <1>2 DEF Tick, HeartbeatEnds, Call, callVars, wireVars, Base
  <2> QED
    BY <2>1, <2>2, Move DEF Base
<1>3. ASSUME NEW c \in Caller, Expire(c)
      PROVE  Base' /\ UNCHANGED <<pc, pingMutex, sendCtr>>
  BY <1>3 DEF Expire, wireVars, Base
<1>4. ASSUME NEW c \in Caller, Answered(c) \/ GivesUp(c)
      PROVE  /\ Base' /\ UNCHANGED <<pingMutex, sendCtr>>
             /\ \A v \in Writer : pc'[v] \in {"write", "sent"} => pc'[v] = pc[v]
  <2>1. PICK place \in {"idle", "done"} : Goto(c, place)
    BY <1>4 DEF Answered, GivesUp, Return
  <2>2. UNCHANGED <<beatNo, pingMutex, sendCtr>>
    BY <1>4 DEF Answered, GivesUp, wireVars
  <2> QED
    BY <2>1, <2>2, Move, Distinct DEF Base, Place
<1>5. CASE UNCHANGED vars
  BY <1>5 DEF vars, callVars, wireVars, Base
<1> QED
  BY <1>1, <1>2, <1>3, <1>4, <1>5 DEF Wait

(* After a write the goroutine is somewhere else.                          *)
LEMMA WriterMoves ==
  ASSUME Base, NEW w \in Writer, NEW ok \in BOOLEAN, AfterWrite(w, ok), UNCHANGED beatNo
  PROVE  /\ Base'
         /\ pc'[w] \notin {"write", "sent"}
         /\ \A v \in Writer \ {w} : pc'[v] = pc[v]
<1>1. PICK place \in Place \ {"write", "sent"} : Goto(w, place)
  BY DEF AfterWrite, AfterRequest, Return, AfterEventAck, AfterInputAck, AfterState, Place
<1> QED
  BY <1>1, Move DEF Base

(* What the phone reads is the frame with the lowest counter.              *)
LEMMA ReadFromWire ==
  ASSUME WireInv, PhoneReads
  PROVE  WireInv'
<1>1. UNCHANGED <<pc, pingMutex, beatNo, sendCtr>>
  BY DEF PhoneReads, callVars
<1>2. NextOnWire' = NextOnWire /\ Base' /\ Serial' /\ NextOnWire \in Int
  BY <1>1 DEF NextOnWire, Base, Serial, WireInv
<1>3. toPhone' = Tail(toPhone) /\ toPhone # <<>>
  BY DEF PhoneReads
<1>4. /\ IsSequence(toPhone')
      /\ Len(toPhone) \in Nat \ {0} /\ DOMAIN toPhone = 1..Len(toPhone)
      /\ Head(toPhone) = toPhone[1]
      /\ DOMAIN toPhone' = 1..(Len(toPhone) - 1)
      /\ \A i \in 1..(Len(toPhone) - 1) : toPhone'[i] = toPhone[i + 1]
  BY <1>3, TailFacts DEF WireInv
<1>5. \/ recvCtr' = recvCtr
      \/ recvCtr' = recvCtr + 1 /\ recvCtr = toPhone[1].ctr
  BY <1>4 DEF PhoneReads
<1>6. \A i \in DOMAIN toPhone' :
         /\ toPhone'[i].ctr \in Nat
         /\ toPhone[1].ctr < toPhone'[i].ctr /\ toPhone'[i].ctr < NextOnWire
  <2> SUFFICES ASSUME NEW i \in DOMAIN toPhone'
               PROVE  /\ toPhone'[i].ctr \in Nat
                      /\ toPhone[1].ctr < toPhone'[i].ctr /\ toPhone'[i].ctr < NextOnWire
    OBVIOUS
  <2>1. 1 \in DOMAIN toPhone /\ i + 1 \in DOMAIN toPhone /\ 1 < i + 1
    BY <1>4
  <2> QED
    BY <1>4, <2>1 DEF WireInv
<1>7. \A i, j \in DOMAIN toPhone' : i < j => toPhone'[i].ctr < toPhone'[j].ctr
  <2> SUFFICES ASSUME NEW i \in DOMAIN toPhone', NEW j \in DOMAIN toPhone', i < j
               PROVE  toPhone'[i].ctr < toPhone'[j].ctr
    OBVIOUS
  <2>1. i + 1 \in DOMAIN toPhone /\ j + 1 \in DOMAIN toPhone /\ i + 1 < j + 1
    BY <1>4
  <2> QED
    BY <1>4, <2>1 DEF WireInv
<1>8. /\ recvCtr' \in Nat /\ recvCtr' <= NextOnWire
      /\ \A i \in DOMAIN toPhone' : recvCtr' <= toPhone'[i].ctr
  <2>1. /\ recvCtr \in Nat /\ toPhone[1].ctr \in Nat /\ recvCtr <= toPhone[1].ctr
        /\ toPhone[1].ctr < NextOnWire
    BY <1>4 DEF WireInv
  <2> QED
    BY <1>2, <1>5, <1>6, <2>1
<1> QED
  BY <1>1, <1>2, <1>4, <1>6, <1>7, <1>8 DEF WireInv

(* The frame written last has the highest counter.                         *)
LEMMA WriteToWire ==
  ASSUME WireInv, NEW w \in Writer, WriteDone(w)
  PROVE  WireInv'
<1>1. /\ pc[w] = "write" /\ Goto(w, "sent")
      /\ UNCHANGED <<pingMutex, beatNo, sendCtr, recvCtr>>
  BY DEF WriteDone, callVars, phoneVars
<1>2. Base' /\ pc'[w] = "sent" /\ \A v \in Writer \ {w} : pc'[v] = pc[v]
  BY <1>1, Move DEF WireInv, Base, Place
<1>3. pingMutex = w /\ \A v \in Writer \ {w} : pc[v] \notin {"write", "sent"}
  BY <1>1 DEF WireInv, Serial
<1>4. Serial'
  BY <1>1, <1>2, <1>3 DEF Serial
<1>5. NextOnWire = sendCtr - 1 /\ NextOnWire' = sendCtr
  BY <1>1, <1>2, <1>3 DEF NextOnWire
<1>6. CASE UNCHANGED toPhone
  BY <1>1, <1>2, <1>4, <1>5, <1>6 DEF WireInv
<1>7. ASSUME NEW f, f.ctr = sendCtr - 1, toPhone' = Append(toPhone, f)
      PROVE  WireInv'
  <2>1. /\ IsSequence(toPhone')
        /\ Len(toPhone) \in Nat /\ DOMAIN toPhone = 1..Len(toPhone)
        /\ DOMAIN toPhone' = 1..(Len(toPhone) + 1)
        /\ \A i \in 1..Len(toPhone) : toPhone'[i] = toPhone[i]
        /\ toPhone'[Len(toPhone) + 1] = f
    BY <1>7, AppendFacts DEF WireInv
  <2>2. f.ctr \in Nat /\ recvCtr <= f.ctr
    BY <1>5, <1>7 DEF WireInv
  <2>3. \A i \in 1..Len(toPhone) : toPhone[i].ctr \in Nat /\ toPhone[i].ctr < f.ctr
    BY <1>5, <1>7, <2>1 DEF WireInv
  <2>4. \A i, j \in DOMAIN toPhone' : i < j => toPhone'[i].ctr < toPhone'[j].ctr
    <3> SUFFICES ASSUME NEW i \in DOMAIN toPhone', NEW j \in DOMAIN toPhone', i < j
                 PROVE  toPhone'[i].ctr < toPhone'[j].ctr
      OBVIOUS
    <3>1. i \in 1..Len(toPhone) /\ (j \in 1..Len(toPhone) \/ j = Len(toPhone) + 1)
      BY <2>1
    <3> QED
      BY <2>1, <2>3, <3>1 DEF WireInv
  <2>5. \A i \in DOMAIN toPhone' :
           /\ toPhone'[i].ctr \in Nat
           /\ recvCtr <= toPhone'[i].ctr /\ toPhone'[i].ctr < sendCtr
    <3> SUFFICES ASSUME NEW i \in DOMAIN toPhone'
                 PROVE  /\ toPhone'[i].ctr \in Nat
                        /\ recvCtr <= toPhone'[i].ctr /\ toPhone'[i].ctr < sendCtr
      OBVIOUS
    <3>1. CASE i = Len(toPhone) + 1
      BY <1>7, <2>1, <2>2, <3>1 DEF WireInv
    <3>2. CASE i \in 1..Len(toPhone)
      BY <1>7, <2>1, <2>2, <2>3, <3>2 DEF WireInv
    <3> QED
      BY <2>1, <3>1, <3>2
  <2> QED
    BY <1>1, <1>2, <1>4, <1>5, <2>1, <2>4, <2>5 DEF WireInv
<1> QED
  BY <1>6, <1>7 DEF WriteDone

LEMMA WireStep ==
  ASSUME WireInv, [Next]_vars
  PROVE  WireInv'
<1>1. CASE PhoneReads
  BY <1>1, ReadFromWire
<1>2. CASE /\ ~PhoneReads
           /\ \/ QuietStep \/ Tick \/ HeartbeatEnds
              \/ \E r \in Request : Call(r)
              \/ \E c \in Caller : Wait(c)
              \/ UNCHANGED vars
  <2>1. /\ Base' /\ UNCHANGED <<pingMutex, sendCtr>>
        /\ \A v \in Writer : pc'[v] \in {"write", "sent"} => pc'[v] = pc[v]
    BY <1>2, NoWrite DEF WireInv
  <2>2. UNCHANGED <<toPhone, recvCtr>>
    BY <1>2 DEF QuietStep, Read, ReadAnswer, ReadInput, ReadEvent, ReadFails,
       HandleEvent, EventTaken, UnpairTaken, StatusTaken, EventsStop, EventApplied,
       HandleInput, InputTaken, Coalesce, InputsStop, InputApplied, InputStep,
       Phone, PhoneAnswers, PhoneLeaves, PhoneStarts,
       Close, StateChanged, MediaStops, Cancel, Tick, HeartbeatEnds, Call, Wait,
       Expire, Answered, GivesUp, vars, wireVars, phoneVars
  <2>3. Serial'
    BY <2>1 DEF WireInv, Serial
  <2> QED
    BY <2>1, <2>2, <2>3, WireKept
<1>3. ASSUME NEW w \in Writer, Lock(w)
      PROVE  WireInv'
  <2>1. /\ Base' /\ pc'[w] = "write"
        /\ \A v \in Writer \ {w} : pc'[v] = pc[v]
        /\ sendCtr' = sendCtr + 1 /\ pingMutex' = w
        /\ UNCHANGED <<toPhone, recvCtr>>
    BY <1>3, Move DEF Lock, WireInv, Base, Place, callVars, phoneVars
  <2>2. \A v \in Writer : pc[v] \notin {"write", "sent"}
    BY <1>3, DispatchAssumption DEF Lock, WireInv, Serial
  <2>3. Serial'
    BY <2>1, <2>2 DEF Serial
  <2>4. NextOnWire = sendCtr /\ NextOnWire' = sendCtr
    BY <2>1, <2>2 DEF NextOnWire, WireInv
  <2> QED
    BY <2>1, <2>3, <2>4 DEF WireInv
<1>4. ASSUME NEW w \in Writer, WriteDone(w)
      PROVE  WireInv'
  BY <1>4, WriteToWire
<1>5. ASSUME NEW w \in Writer, Unlock(w) \/ WriteFails(w)
      PROVE  WireInv'
  <2>1. PICK ok \in BOOLEAN : AfterWrite(w, ok)
    BY <1>5 DEF Unlock, WriteFails
  <2>2. /\ pc[w] \in {"write", "sent"} /\ pingMutex' = NoWriter
        /\ UNCHANGED <<beatNo, sendCtr, toPhone, recvCtr>>
    BY <1>5 DEF Unlock, WriteFails, wireVars, phoneVars
  <2>3. /\ Base'
        /\ pc'[w] \notin {"write", "sent"}
        /\ \A v \in Writer \ {w} : pc'[v] = pc[v]
    BY <2>1, <2>2, WriterMoves DEF WireInv
  <2>4. \A v \in Writer \ {w} : pc[v] \notin {"write", "sent"}
    BY <2>2 DEF WireInv, Serial
  <2>5. Serial'
    BY <2>3, <2>4 DEF Serial
  <2> QED
    BY <2>2, <2>3, <2>4, <2>5, WireKept
<1> QED
  BY <1>1, <1>2, <1>3, <1>4, <1>5 DEF Next, Run, QuietStep, Write

(* WriteMessage seals and writes under one lock: frames reach the wire in  *)
(* counter order, however many goroutines send.                            *)
THEOREM WireOrdered == Spec => []WireInOrder
<1>1. Init => WireInv
  <2> SUFFICES ASSUME Init
               PROVE  WireInv
    OBVIOUS
  <2>1. Base /\ \A w \in Writer : pc[w] \notin {"write", "sent"}
    BY InitPlaces
  <2>2. toPhone = <<>> /\ IsSequence(<<>>)
    BY DEF Init, IsSequence
  <2>3. NextOnWire = 0 /\ sendCtr = 0 /\ recvCtr = 0
    BY <2>1 DEF Init, NextOnWire
  <2> QED
    BY <2>1, <2>2, <2>3 DEF WireInv, Serial
<1>2. WireInv /\ [Next]_vars => WireInv'
  BY WireStep
<1>3. WireInv => WireInOrder
  <2> SUFFICES ASSUME WireInv, NEW i \in DOMAIN toPhone
               PROVE  toPhone[i].ctr >= recvCtr /\ toPhone[i].ctr < sendCtr
    BY DEF WireInv, WireInOrder
  <2> QED
    BY DEF WireInv, NextOnWire
<1> QED
  BY <1>1, <1>2, <1>3, PTL DEF Spec
-----------------------------------------------------------------------------
(* Answers.                                                                *)

(* Whatever travels towards a caller as an answer belongs to a request the *)
(* phone has handled.                                                      *)
AnswerInv ==
    /\ Base
    /\ result \in [Request -> {"none", "ok", "failed"}]
    /\ IsSequence(toHost)
    /\ \A i \in DOMAIN toHost : toHost[i].type = "answer" => toHost[i].id \in handled
    /\ phonePc = "answer" => phoneTx \in handled
    /\ slot \subseteq handled
    /\ \A r \in Request : result[r] = "ok" => r \in handled

(* A request returns successfully only with the answer in its channel.     *)
LEMMA ReturnOk ==
  ASSUME AnswerInv, Base', NEW c \in Caller, NEW how \in {"ok", "failed"}, Return(c, how),
         how = "ok" => TxOf(c) \in slot,
         UNCHANGED <<toHost, phonePc, phoneTx, handled>>
  PROVE  AnswerInv'
<1>1. slot' \subseteq handled
  BY DEF Return, AnswerInv
<1>2. /\ result' \in [Request -> {"none", "ok", "failed"}]
      /\ \A r \in Request : result'[r] = "ok" => r \in handled
  <2>1. CASE c = "beat"
    BY <2>1 DEF Return, AnswerInv
  <2>2. CASE c \in Request
    <3>1. result' = [result EXCEPT ![c] = how] /\ TxOf(c) = c
      BY <2>2, Distinct DEF Return, TxOf
    <3> QED
      BY <2>2, <3>1 DEF AnswerInv
  <2> QED
    BY <2>1, <2>2, Distinct
<1> QED
  BY <1>1, <1>2 DEF AnswerInv

(* A step that only takes from the sockets and the channels.               *)
LEMMA HostReads ==
  ASSUME AnswerInv, Base', Reads, toHost' = Tail(toHost),
         slot' \subseteq slot \cup (IF Head(toHost).type = "answer"
                                   THEN {Head(toHost).id} ELSE {}),
         UNCHANGED <<result, phonePc, phoneTx, handled>>
  PROVE  AnswerInv'
<1>1. /\ IsSequence(toHost')
      /\ Len(toHost) \in Nat \ {0} /\ DOMAIN toHost = 1..Len(toHost)
      /\ Head(toHost) = toHost[1]
      /\ DOMAIN toHost' = 1..(Len(toHost) - 1)
      /\ \A i \in 1..(Len(toHost) - 1) : toHost'[i] = toHost[i + 1]
  BY TailFacts DEF AnswerInv, Reads
<1>2. Head(toHost).type = "answer" => Head(toHost).id \in handled
  BY <1>1 DEF AnswerInv
<1>3. \A i \in DOMAIN toHost' : toHost'[i].type = "answer" => toHost'[i].id \in handled
  BY <1>1 DEF AnswerInv
<1> QED
  BY <1>1, <1>2, <1>3 DEF AnswerInv

(* The phone queues an answer to what it handled, or an event.             *)
LEMMA PhoneSends ==
  ASSUME AnswerInv, Base', NEW m, toHost' = Append(toHost, m),
         m.type = "answer" => m.id \in handled,
         phonePc' = "answer" => phonePc = "answer" /\ phoneTx' = phoneTx,
         UNCHANGED <<result, slot, handled>>
  PROVE  AnswerInv'
<1>1. /\ IsSequence(toHost')
      /\ Len(toHost) \in Nat /\ DOMAIN toHost = 1..Len(toHost)
      /\ DOMAIN toHost' = 1..(Len(toHost) + 1)
      /\ \A i \in 1..Len(toHost) : toHost'[i] = toHost[i]
      /\ toHost'[Len(toHost) + 1] = m
  BY AppendFacts DEF AnswerInv
<1>2. \A i \in DOMAIN toHost' : toHost'[i].type = "answer" => toHost'[i].id \in handled
  <2> SUFFICES ASSUME NEW i \in DOMAIN toHost', toHost'[i].type = "answer"
               PROVE  toHost'[i].id \in handled
    OBVIOUS
  <2>1. i \in 1..Len(toHost) \/ i = Len(toHost) + 1
    BY <1>1
  <2> QED
    BY <1>1, <2>1 DEF AnswerInv
<1> QED
  BY <1>1, <1>2 DEF AnswerInv

LEMMA AnswerStep ==
  ASSUME AnswerInv, [Next]_vars
  PROVE  AnswerInv'
<1>1. Base'
  <2>1. CASE \/ QuietStep \/ Tick \/ HeartbeatEnds
             \/ \E r \in Request : Call(r)
             \/ \E c \in Caller : Wait(c)
             \/ UNCHANGED vars
    BY <2>1, NoWrite DEF AnswerInv
  <2>2. ASSUME NEW w \in Writer, Lock(w) \/ WriteDone(w)
        PROVE  Base'
    BY <2>2, Move DEF Lock, WriteDone, AnswerInv, Base, Place, callVars
  <2>3. ASSUME NEW w \in Writer, Unlock(w) \/ WriteFails(w)
        PROVE  Base'
    BY <2>3, WriterMoves DEF Unlock, WriteFails, AnswerInv
  <2> QED
    BY <2>1, <2>2, <2>3 DEF Next, Run, QuietStep, Write
<1>2. CASE UNCHANGED <<result, slot, toHost, phonePc, phoneTx, handled>>
  BY <1>1, <1>2 DEF AnswerInv
<1>3. CASE Read
  <2>1. CASE ReadFails
    BY <1>2, <2>1 DEF ReadFails, callVars, phoneVars
  <2>2. CASE ReadAnswer
    BY <1>1, <2>2, HostReads DEF ReadAnswer, Waiter
  <2>3. CASE ReadInput \/ ReadEvent
    BY <1>1, <2>3, HostReads DEF ReadInput, ReadEvent, callVars
  <2> QED
    BY <1>3, <2>1, <2>2, <2>3 DEF Read
<1>4. CASE HandleEvent \/ HandleInput
  BY <1>2, <1>4 DEF HandleEvent, EventTaken, UnpairTaken, StatusTaken, EventsStop,
     EventApplied, HandleInput, InputTaken, Coalesce, InputsStop, InputApplied, InputStep,
     callVars, phoneVars
<1>5. CASE Run
  BY <1>2, <1>5 DEF Run, Tick, HeartbeatEnds, Close, StateChanged, MediaStops, Cancel,
     callVars, phoneVars
<1>6. CASE Phone
  <2>1. CASE PhoneReads
    BY <1>1, <2>1 DEF PhoneReads, callVars, AnswerInv
  <2>2. CASE PhoneAnswers
    <3>1. phonePc = "answer" /\ phonePc' = "read" /\ phoneTx \in handled
      BY <2>2 DEF PhoneAnswers, AnswerInv
    <3>2. UNCHANGED <<result, slot, handled>>
      BY <2>2 DEF PhoneAnswers, callVars
    <3> QED
      BY <1>1, <2>2, <3>1, <3>2, PhoneSends DEF PhoneAnswers
  <2>3. CASE \E k \in Kind : PhoneStarts(k)
    BY <1>1, <2>3, PhoneSends DEF PhoneStarts, callVars
  <2>4. CASE PhoneLeaves
    BY <1>2, <2>4 DEF PhoneLeaves, callVars, phoneVars
  <2> QED
    BY <1>6, <2>1, <2>2, <2>3, <2>4 DEF Phone
<1>7. ASSUME NEW r \in Request, Call(r)
      PROVE  AnswerInv'
  BY <1>2, <1>7 DEF Call, phoneVars
<1>8. ASSUME NEW c \in Caller, Wait(c)
      PROVE  AnswerInv'
  <2>1. CASE Expire(c)
    BY <1>2, <2>1 DEF Expire, phoneVars
  <2>2. CASE Answered(c)
    BY <1>1, <2>2, ReturnOk DEF Answered, phoneVars
  <2>3. CASE GivesUp(c)
    BY <1>1, <2>3, ReturnOk DEF GivesUp, phoneVars
  <2> QED
    BY <1>8, <2>1, <2>2, <2>3 DEF Wait
<1>9. ASSUME NEW w \in Writer, Write(w)
      PROVE  AnswerInv'
  <2>1. CASE Lock(w) \/ WriteDone(w)
    BY <1>2, <2>1 DEF Lock, WriteDone, callVars, phoneVars
  <2>2. CASE Unlock(w) \/ WriteFails(w)
    <3>1. PICK ok \in BOOLEAN : AfterWrite(w, ok)
      BY <2>2 DEF Unlock, WriteFails
    <3>2. UNCHANGED <<toHost, phonePc, phoneTx, handled>>
      BY <2>2 DEF Unlock, WriteFails, phoneVars
    <3>3. CASE w \in Caller /\ Return(w, "failed")
      BY <1>1, <3>2, <3>3, ReturnOk
    <3>4. CASE UNCHANGED <<slot, result>>
      BY <1>2, <3>2, <3>4
    <3> QED
      BY <3>1, <3>3, <3>4 DEF AfterWrite, AfterRequest
  <2> QED
    BY <1>9, <2>1, <2>2 DEF Write
<1>10. CASE UNCHANGED vars
  BY <1>2, <1>10 DEF vars, callVars, phoneVars
<1> QED
  BY <1>3, <1>4, <1>5, <1>6, <1>7, <1>8, <1>9, <1>10 DEF Next

(* sendRequest: a request reported as successful was handled by the phone, *)
(* however timeouts, late answers and heartbeats interleave.               *)
THEOREM SuccessIsHandled == Spec => []OkMeansHandled
<1>1. Init => AnswerInv
  <2> SUFFICES ASSUME Init
               PROVE  AnswerInv
    OBVIOUS
  <2>1. toHost = <<>> /\ IsSequence(<<>>)
    BY DEF Init, IsSequence
  <2>2. result = [r \in Request |-> "none"]
    BY DEF Init
  <2>3. slot = {} /\ phonePc = "read"
    BY DEF Init
  <2> QED
    BY <2>1, <2>2, <2>3, InitPlaces DEF AnswerInv
<1>2. AnswerInv /\ [Next]_vars => AnswerInv'
  BY AnswerStep
<1>3. AnswerInv => OkMeansHandled
  BY DEF AnswerInv, OkMeansHandled
<1> QED
  BY <1>1, <1>2, <1>3, PTL DEF Spec

(* sendRequest registers its channel before it writes, and the map still   *)
(* has it while it waits: the answer finds its channel.                    *)
THEOREM AnswersReach == Spec => AnswerReachesCaller
<1>1. ASSUME PendingIsInProgress, NEW c \in Caller
      PROVE  AnswerReaches(c)
  <2> SUFFICES ASSUME ReadAnswer, Head(toHost).id = TxOf(c), pc[c] \in InRequest
               PROVE  TxOf(c) \in slot'
    BY DEF AnswerReaches
  <2>1. TxOf(c) \in pending
    BY <1>1 DEF PendingIsInProgress
  <2> QED
    BY <2>1 DEF ReadAnswer, Waiter
<1>2. PendingIsInProgress => [\A c \in Caller : AnswerReaches(c)]_vars
  BY <1>1
<1> QED
  BY <1>2, PendingHolds, PTL DEF AnswerReachesCaller
-----------------------------------------------------------------------------
(* Types.                                                                  *)

Writing == {"lock", "write", "sent"}

(* A worker that is busy has something in hand, an idle one has nothing.   *)
InHand ==
    /\ pc["beat"] \in InRequest => beatNo # 0
    /\ pc["reader"] \in Writing <=> dropped # 0
    /\ pc["inputs"] \in {"drain", "apply"} \cup Writing <=> inputJobs # <<>>
    /\ pc["events"] \in {"apply"} \cup Writing <=> eventJob # 0
    /\ \A w \in Writer : pc[w] = "write" => sendCtr # 0

TypeInv == TypeOK /\ InHand

Located == pc \in [Writer -> Place] /\ \A w \in Writer : pc[w] \in PcOf(w)

LEMMA Numbers ==
  /\ MaxBeats \in Nat /\ MaxEvents \in Nat /\ MaxStates \in Nat
  /\ InputCap \in Nat \ {0} /\ EventCap \in Nat \ {0} /\ NetCap \in Nat \ {0}
BY DispatchAssumption

LEMMA TypedBase == TypeOK => Base
BY Numbers DEF TypeOK, ControlOK, CallsOK, Base

(* Where each goroutine can be.                                            *)
LEMMA PlacesOf ==
  /\ \A c \in Caller : PcOf(c) = Writing \cup {"idle", "wait", "done"}
  /\ PcOf("reader") = Writing \cup {"read", "stopped"}
  /\ PcOf("inputs") = Writing \cup {"idle", "drain", "apply", "stopped"}
  /\ PcOf("events") = Writing \cup {"idle", "apply", "stopped"}
  /\ PcOf("media") = Writing \cup {"idle", "stopped"}
  /\ \A w \in Writer : Writing \subseteq PcOf(w) /\ PcOf(w) \subseteq Place
<1>1. \A c \in Caller : PcOf(c) = Writing \cup {"idle", "wait", "done"}
  BY Distinct DEF PcOf, Writing
<1>2. PcOf("reader") = Writing \cup {"read", "stopped"}
  BY Distinct DEF PcOf, Writing
<1>3. PcOf("inputs") = Writing \cup {"idle", "drain", "apply", "stopped"}
  BY Distinct DEF PcOf, Writing
<1>4. PcOf("events") = Writing \cup {"idle", "apply", "stopped"}
  BY Distinct DEF PcOf, Writing
<1>5. PcOf("media") = Writing \cup {"idle", "stopped"}
  BY Distinct DEF PcOf, Writing
<1>6. \A w \in Writer : Writing \subseteq PcOf(w) /\ PcOf(w) \subseteq Place
  BY <1>1, <1>2, <1>3, <1>4, <1>5, Distinct DEF Writing, Place
<1> QED
  BY <1>1, <1>2, <1>3, <1>4, <1>5, <1>6

LEMMA MoveLocated ==
  ASSUME Located, NEW w \in Writer, NEW place \in PcOf(w), Goto(w, place)
  PROVE  Located'
<1>1. place \in Place
  BY PlacesOf
<1>2. pc' \in [Writer -> Place] /\ \A v \in Writer : (pc'[v] = pc[v] \/ (v = w /\ pc'[v] = place))
  BY <1>1 DEF Located, Goto
<1>3. \A v \in Writer : pc'[v] \in PcOf(v)
  BY <1>2 DEF Located
<1> QED
  BY <1>2, <1>3 DEF Located, PcOf

(* A step moves one goroutine at most, to a place it has.                  *)
LEMMA OneMoves ==
  ASSUME [Next]_vars
  PROVE  \/ UNCHANGED pc
         \/ \E w \in Writer : \E place \in PcOf(w) : Goto(w, place)
<1> DEFINE Moves == \/ UNCHANGED pc
                    \/ \E w \in Writer : \E place \in PcOf(w) : Goto(w, place)
<1>1. ASSUME NEW w \in Writer, NEW ok \in BOOLEAN, AfterWrite(w, ok)
      PROVE  Moves
  <2>1. CASE w \in Caller
    <3>1. \E place \in {"idle", "done", "wait"} : Goto(w, place)
      BY <1>1, <2>1, Distinct DEF AfterWrite, AfterRequest, Return
    <3> QED
      BY <2>1, <3>1, PlacesOf
  <2>2. CASE w = "reader"
    BY <1>1, <2>2, Distinct, PlacesOf DEF AfterWrite
  <2>3. CASE w = "inputs"
    BY <1>1, <2>3, Distinct, PlacesOf DEF AfterWrite, AfterInputAck, Writing
  <2>4. CASE w = "events"
    BY <1>1, <2>4, Distinct, PlacesOf DEF AfterWrite, AfterEventAck
  <2>5. CASE w = "media"
    BY <1>1, <2>5, Distinct, PlacesOf DEF AfterWrite, AfterState
  <2> QED
    BY <2>1, <2>2, <2>3, <2>4, <2>5, Distinct
<1>2. ASSUME NEW w \in Writer, Write(w)
      PROVE  Moves
  <2>1. CASE Lock(w) \/ WriteDone(w)
    BY <2>1, PlacesOf DEF Lock, WriteDone, Writing
  <2>2. CASE Unlock(w) \/ WriteFails(w)
    BY <1>1, <2>2 DEF Unlock, WriteFails
  <2> QED
    BY <1>2, <2>1, <2>2 DEF Write
<1>3. ASSUME NEW c \in Caller, Wait(c) \/ (c \in Request /\ Call(c))
      PROVE  Moves
  <2>1. UNCHANGED pc \/ \E place \in {"lock", "idle", "done"} : Goto(c, place)
    BY <1>3 DEF Wait, Expire, Answered, GivesUp, Return, Call
  <2> QED
    BY <2>1, PlacesOf, Distinct DEF Writing
<1>4. CASE Run
  <2>1. \/ UNCHANGED pc
        \/ \E place \in {"lock", "done"} : Goto("beat", place)
        \/ \E place \in {"lock", "stopped"} : Goto("media", place)
    BY <1>4 DEF Run, Tick, HeartbeatEnds, Close, StateChanged, MediaStops, Cancel
  <2> QED
    BY <2>1, PlacesOf, Distinct DEF Writing
<1>5. CASE Read
  <2>1. \/ UNCHANGED pc
        \/ \E place \in {"lock", "stopped"} : Goto("reader", place)
    BY <1>5 DEF Read, ReadAnswer, ReadInput, ReadEvent, ReadFails, Drop
  <2> QED
    BY <2>1, PlacesOf, Distinct DEF Writing
<1>6. CASE HandleEvent
  <2>1. \/ UNCHANGED pc
        \/ \E place \in {"idle", "apply", "lock", "stopped"} : Goto("events", place)
    BY <1>6 DEF HandleEvent, EventTaken, UnpairTaken, StatusTaken, EventsStop, EventApplied
  <2> QED
    BY <2>1, PlacesOf, Distinct DEF Writing
<1>7. CASE HandleInput
  <2>1. \/ UNCHANGED pc
        \/ \E place \in {"drain", "apply", "lock", "stopped"} : Goto("inputs", place)
    BY <1>7 DEF HandleInput, InputTaken, Coalesce, InputsStop, InputApplied, Begin
  <2> QED
    BY <2>1, PlacesOf, Distinct DEF Writing
<1>8. CASE Phone \/ UNCHANGED vars
  BY <1>8 DEF Phone, PhoneReads, PhoneAnswers, PhoneLeaves, PhoneStarts, vars
<1> QED
  BY <1>2, <1>3, <1>4, <1>5, <1>6, <1>7, <1>8, Distinct DEF Next

LEMMA SeqTail ==
  ASSUME NEW S, NEW s \in Seq(S), s # <<>>
  PROVE  /\ Head(s) \in S /\ Tail(s) \in Seq(S)
         /\ Len(s) \in Nat \ {0} /\ Len(Tail(s)) = Len(s) - 1
OBVIOUS

LEMMA SeqAppend ==
  ASSUME NEW S, NEW s \in Seq(S), NEW x \in S
  PROVE  /\ Append(s, x) \in Seq(S)
         /\ Len(s) \in Nat /\ Len(Append(s, x)) = Len(s) + 1
OBVIOUS

(* What each goroutine writes.                                             *)
LEMMA FramesOf ==
  /\ \A c \in Caller : FrameOf(c) = [type |-> "request", id |-> TxOf(c), ok |-> TRUE]
  /\ FrameOf("reader") = [type |-> "ack", id |-> dropped, ok |-> FALSE]
  /\ FrameOf("inputs") = [type |-> "ack", id |-> Head(inputJobs), ok |-> inputOk]
  /\ FrameOf("events") = [type |-> "ack", id |-> eventJob, ok |-> eventOk]
  /\ FrameOf("media") = [type |-> "state", id |-> 0, ok |-> TRUE]
BY Distinct DEF FrameOf

LEMMA TxTyped ==
  ASSUME TypeInv, NEW c \in Caller, pc[c] \in InRequest
  PROVE  TxOf(c) \in Tx
BY Numbers DEF TypeInv, TypeOK, CallsOK, InHand, TxOf, Tx, Caller

(* The fields of a frame.                                                  *)
LEMMA FrameKinds ==
  ASSUME NEW n \in Nat
  PROVE  /\ \A t \in Tx :
               [type |-> "request", id |-> t, ok |-> TRUE, ctr |-> n] \in Frame
         /\ \A t \in Event, b \in BOOLEAN :
               [type |-> "ack", id |-> t, ok |-> b, ctr |-> n] \in Frame
         /\ [type |-> "state", id |-> 0, ok |-> TRUE, ctr |-> n] \in Frame
BY DEF Frame

LEMMA FramesTyped ==
  ASSUME TypeInv, NEW w \in Writer, pc[w] = "write"
  PROVE  [type |-> FrameOf(w).type, id |-> FrameOf(w).id, ok |-> FrameOf(w).ok,
          ctr |-> sendCtr - 1] \in Frame
<1>1. sendCtr - 1 \in Nat
  BY DEF TypeInv, TypeOK, WireOK, InHand
<1>2. CASE w \in Caller
  <2>1. TxOf(w) \in Tx
    BY <1>2, TxTyped DEF InRequest
  <2>2. FrameOf(w).type = "request" /\ FrameOf(w).id = TxOf(w) /\ FrameOf(w).ok = TRUE
    BY <1>2, FramesOf
  <2> QED
    BY <1>1, <2>1, <2>2, FrameKinds
<1>3. CASE w = "reader"
  <2>1. dropped \in Event
    BY <1>3 DEF TypeInv, TypeOK, WorkOK, InHand, Writing
  <2>2. FrameOf(w).type = "ack" /\ FrameOf(w).id = dropped /\ FrameOf(w).ok = FALSE
    BY <1>3, FramesOf
  <2> QED
    BY <1>1, <2>1, <2>2, FrameKinds
<1>4. CASE w = "inputs"
  <2>1. Head(inputJobs) \in Event /\ inputOk \in BOOLEAN
    BY <1>4, SeqTail DEF TypeInv, TypeOK, WorkOK, InHand, Writing
  <2>2. FrameOf(w).type = "ack" /\ FrameOf(w).id = Head(inputJobs) /\ FrameOf(w).ok = inputOk
    BY <1>4, FramesOf
  <2> QED
    BY <1>1, <2>1, <2>2, FrameKinds
<1>5. CASE w = "events"
  <2>1. eventJob \in Event /\ eventOk \in BOOLEAN
    BY <1>5 DEF TypeInv, TypeOK, WorkOK, InHand, Writing
  <2>2. FrameOf(w).type = "ack" /\ FrameOf(w).id = eventJob /\ FrameOf(w).ok = eventOk
    BY <1>5, FramesOf
  <2> QED
    BY <1>1, <2>1, <2>2, FrameKinds
<1>6. CASE w = "media"
  <2>1. FrameOf(w).type = "state" /\ FrameOf(w).id = 0 /\ FrameOf(w).ok = TRUE
    BY <1>6, FramesOf
  <2> QED
    BY <1>1, <2>1, FrameKinds
<1> QED
  BY <1>2, <1>3, <1>4, <1>5, <1>6, Distinct

LEMMA ControlTyped ==
  ASSUME TypeInv, [Next]_vars
  PROVE  ControlOK'
<1>1. Located'
  BY OneMoves, MoveLocated DEF TypeInv, TypeOK, ControlOK, Located
<1> DEFINE Rest == /\ pingMutex \in Writer \cup {NoWriter}
                   /\ runPc \in {"starting", "beating", "closing", "closed"}
                   /\ sessionDone \in BOOLEAN /\ readDone \in BOOLEAN
                   /\ broken \in BOOLEAN /\ refused \in BOOLEAN
<1>2. Rest
  BY DEF TypeInv, TypeOK, ControlOK
<1> SUFFICES Rest'
  BY <1>1 DEF ControlOK, Located
<1>3. ASSUME NEW w \in Writer, Write(w)
      PROVE  Rest'
  <2>1. CASE Lock(w) \/ WriteDone(w)
    BY <1>2, <2>1 DEF Lock, WriteDone, runVars, phoneVars
  <2>2. CASE Unlock(w) \/ WriteFails(w)
    <3>1. PICK ok \in BOOLEAN : AfterWrite(w, ok)
      BY <2>2 DEF Unlock, WriteFails
    <3>2. UNCHANGED <<readDone, broken, refused>> /\ pingMutex' = NoWriter
      BY <2>2 DEF Unlock, WriteFails, wireVars, phoneVars
    <3>3. /\ runPc' \in {"starting", "beating", "closing", "closed"}
          /\ sessionDone' \in BOOLEAN
      BY <1>2, <3>1 DEF AfterWrite, AfterRequest, Return, AfterState
    <3> QED
      BY <1>2, <3>2, <3>3
  <2> QED
    BY <1>3, <2>1, <2>2 DEF Write
<1>4. ASSUME NEW c \in Caller, Wait(c) \/ (c \in Request /\ Call(c))
      PROVE  Rest'
  BY <1>2, <1>4 DEF Wait, Expire, Answered, GivesUp, Return, Call, runVars, wireVars, phoneVars
<1>5. CASE Run
  BY <1>2, <1>5 DEF Run, Tick, HeartbeatEnds, Close, StateChanged, MediaStops, Cancel,
     runVars, wireVars, phoneVars
<1>6. CASE Read
  BY <1>2, <1>6 DEF Read, ReadAnswer, ReadInput, ReadEvent, ReadFails, runVars, wireVars,
     phoneVars
<1>7. CASE HandleEvent \/ HandleInput
  BY <1>2, <1>7 DEF HandleEvent, EventTaken, UnpairTaken, StatusTaken, EventsStop,
     EventApplied,
     HandleInput, InputTaken, Coalesce, InputsStop, InputApplied, InputStep,
     runVars, wireVars, phoneVars
<1>8. CASE Phone
  BY <1>2, <1>8 DEF Phone, PhoneReads, PhoneAnswers, PhoneLeaves, PhoneStarts,
     runVars, wireVars, phoneVars
<1>9. CASE UNCHANGED vars
  BY <1>2, <1>9 DEF vars, runVars, wireVars, phoneVars
<1> QED
  BY <1>3, <1>4, <1>5, <1>6, <1>7, <1>8, <1>9, Distinct DEF Next

LEMMA ReturnTyped ==
  ASSUME CallsOK, NEW c \in Caller, NEW how \in {"ok", "failed"}, Return(c, how),
         UNCHANGED <<beatNo, stateNo>>
  PROVE  CallsOK'
<1>1. /\ pending' \subseteq Tx /\ slot' \subseteq pending'
      /\ ended' \subseteq Deadline \cup {"beat"}
  BY DEF CallsOK, Return
<1>2. result' \in [Request -> {"none", "ok", "failed"}]
  BY DEF CallsOK, Return
<1> QED
  BY <1>1, <1>2 DEF CallsOK

LEMMA CallsTyped ==
  ASSUME TypeInv, [Next]_vars
  PROVE  CallsOK'
<1>1. CallsOK
  BY DEF TypeInv, TypeOK
<1>2. CASE UNCHANGED <<callVars, stateNo>>
  BY <1>1, <1>2 DEF CallsOK, callVars
<1>3. ASSUME NEW r \in Request, Call(r)
      PROVE  CallsOK'
  BY <1>1, <1>3 DEF Call, CallsOK, Tx, workVars
<1>4. CASE Tick
  <2>1. beatNo' \in 1..MaxBeats
    BY <1>1, <1>4, Numbers DEF Tick, CallsOK
  <2> QED
    BY <1>1, <1>4, <2>1 DEF Tick, CallsOK, Tx, workVars
<1>5. ASSUME NEW c \in Caller, Wait(c)
      PROVE  CallsOK'
  <2>1. CASE Expire(c)
    BY <1>1, <2>1 DEF Expire, HasDeadline, CallsOK, workVars
  <2>2. CASE Answered(c) \/ GivesUp(c)
    BY <1>1, <2>2, ReturnTyped DEF Answered, GivesUp, workVars
  <2> QED
    BY <1>5, <2>1, <2>2 DEF Wait
<1>6. ASSUME NEW w \in Writer, Write(w)
      PROVE  CallsOK'
  <2>1. CASE Lock(w) \/ WriteDone(w)
    BY <1>2, <2>1 DEF Lock, WriteDone, workVars
  <2>2. CASE Unlock(w) \/ WriteFails(w)
    <3>1. UNCHANGED <<beatNo, stateNo>> /\ \E ok \in BOOLEAN : AfterWrite(w, ok)
      BY <2>2 DEF Unlock, WriteFails
    <3>2. CASE w \in Caller /\ Return(w, "failed")
      BY <1>1, <3>1, <3>2, ReturnTyped
    <3>3. CASE UNCHANGED <<ended, pending, slot, result>>
      BY <1>2, <3>1, <3>3 DEF callVars
    <3> QED
      BY <3>1, <3>2, <3>3 DEF AfterWrite, AfterRequest
  <2> QED
    BY <1>6, <2>1, <2>2 DEF Write
<1>7. CASE ReadAnswer
  BY <1>1, <1>7 DEF ReadAnswer, Waiter, CallsOK
<1>8. CASE ReadInput \/ ReadEvent \/ ReadFails
  BY <1>2, <1>8 DEF ReadInput, ReadEvent, ReadFails, workVars
<1>9. CASE HandleEvent \/ HandleInput
  BY <1>2, <1>9 DEF HandleEvent, EventTaken, UnpairTaken, StatusTaken, EventsStop,
     EventApplied,
     HandleInput, InputTaken, Coalesce, InputsStop, InputApplied, InputStep, workVars
<1>10. CASE Phone
  BY <1>2, <1>10 DEF Phone, PhoneReads, PhoneAnswers, PhoneLeaves, PhoneStarts, workVars
<1>11. CASE StateChanged
  BY <1>1, <1>11, Numbers DEF StateChanged, CallsOK, callVars
<1>12. CASE HeartbeatEnds \/ Close \/ MediaStops \/ Cancel
  BY <1>2, <1>12 DEF HeartbeatEnds, Close, MediaStops, Cancel, workVars
<1>13. CASE UNCHANGED vars
  BY <1>2, <1>13 DEF vars, workVars
<1> QED
  BY <1>3, <1>4, <1>5, <1>6, <1>7, <1>8, <1>9, <1>10, <1>11, <1>12, <1>13
  DEF Next, Read, Run

LEMMA FrameIsRequest == \A f \in Frame : f.type = "request" => f.id \in Tx
BY DEF Frame

LEMMA UpwardKinds ==
  /\ \A t \in Tx : [type |-> "answer", id |-> t] \in Upward
  /\ \A n \in Event : [type |-> "event", id |-> n] \in Upward
  /\ \A m \in Upward : m.type = "event" => m.id \in Event
  /\ \A m \in Upward : m.type \in {"answer", "event"}
BY DEF Upward

LEMMA WireTyped ==
  ASSUME TypeInv, [Next]_vars
  PROVE  WireOK'
<1>1. /\ sendCtr \in Nat /\ toPhone \in Seq(Frame) /\ Len(toPhone) <= NetCap
      /\ toHost \in Seq(Upward) /\ Len(toHost) <= NetCap
      /\ sent \in Seq(Kind) /\ Len(sent) <= MaxEvents
  BY DEF TypeInv, TypeOK, WireOK
<1>2. CASE UNCHANGED <<sendCtr, toPhone, toHost, sent>>
  BY <1>1, <1>2 DEF WireOK
<1>3. ASSUME NEW w \in Writer, Write(w)
      PROVE  WireOK'
  <2>1. CASE Lock(w)
    BY <1>1, <2>1 DEF Lock, WireOK, phoneVars
  <2>2. CASE WriteDone(w)
    <3>1. UNCHANGED <<sendCtr, toHost, sent>>
      BY <2>2 DEF WriteDone, phoneVars
    <3>2. CASE UNCHANGED toPhone
      BY <1>2, <3>1, <3>2
    <3> DEFINE f == [type |-> FrameOf(w).type, id |-> FrameOf(w).id,
                     ok |-> FrameOf(w).ok, ctr |-> sendCtr - 1]
    <3>3. CASE Len(toPhone) < NetCap /\ toPhone' = Append(toPhone, f)
      <4>1. f \in Frame
        BY <2>2, FramesTyped DEF WriteDone
      <4> HIDE DEF f
      <4>2. toPhone' \in Seq(Frame) /\ Len(toPhone') <= NetCap
        BY <1>1, <3>3, <4>1, SeqAppend, Numbers
      <4> QED
        BY <1>1, <3>1, <4>2 DEF WireOK
    <3> QED
      BY <2>2, <3>2, <3>3 DEF WriteDone
  <2>3. CASE Unlock(w) \/ WriteFails(w)
    BY <1>2, <2>3 DEF Unlock, WriteFails, wireVars, phoneVars
  <2> QED
    BY <1>3, <2>1, <2>2, <2>3 DEF Write
<1>4. ASSUME toHost' = Tail(toHost), toHost # <<>>, UNCHANGED <<sendCtr, toPhone, sent>>
      PROVE  WireOK'
  <2>1. toHost' \in Seq(Upward) /\ Len(toHost') <= NetCap
    BY <1>1, <1>4, SeqTail, Numbers
  <2> QED
    BY <1>1, <1>4, <2>1 DEF WireOK
<1>5. CASE Read
  BY <1>2, <1>4, <1>5 DEF Read, ReadAnswer, ReadInput, ReadEvent, ReadFails, Reads,
     wireVars, phoneVars
<1>6. CASE PhoneReads
  <2>1. toPhone' \in Seq(Frame) /\ Len(toPhone') <= NetCap
    BY <1>1, <1>6, SeqTail, Numbers DEF PhoneReads
  <2> QED
    BY <1>1, <1>6, <2>1 DEF PhoneReads, WireOK
<1>7. ASSUME NEW m \in Upward, toHost' = Append(toHost, m), Len(toHost) < NetCap
      PROVE  toHost' \in Seq(Upward) /\ Len(toHost') <= NetCap
  BY <1>1, <1>7, SeqAppend, Numbers
<1>8. CASE PhoneAnswers
  <2>1. phoneTx \in Tx
    BY <1>8 DEF PhoneAnswers, TypeInv, TypeOK, PhoneOK
  <2>2. [type |-> "answer", id |-> phoneTx] \in Upward
    BY <2>1, UpwardKinds
  <2>3. toHost' \in Seq(Upward) /\ Len(toHost') <= NetCap
    BY <1>7, <1>8, <2>2 DEF PhoneAnswers
  <2> QED
    BY <1>1, <1>8, <2>3 DEF PhoneAnswers, WireOK, wireVars
<1>9. ASSUME NEW k \in Kind, PhoneStarts(k)
      PROVE  WireOK'
  <2>1. Len(sent) \in Nat /\ Len(sent) + 1 \in Event
    BY <1>1, <1>9, Numbers DEF PhoneStarts, Event
  <2>2. [type |-> "event", id |-> Len(sent) + 1] \in Upward
    BY <2>1, UpwardKinds
  <2>3. toHost' \in Seq(Upward) /\ Len(toHost') <= NetCap
    BY <1>7, <1>9, <2>2 DEF PhoneStarts
  <2>4. sent' \in Seq(Kind) /\ Len(sent') <= MaxEvents
    BY <1>1, <1>9, <2>1, SeqAppend, Numbers DEF PhoneStarts
  <2> QED
    BY <1>1, <1>9, <2>3, <2>4 DEF PhoneStarts, WireOK, wireVars
<1>10. CASE PhoneLeaves
  BY <1>2, <1>10 DEF PhoneLeaves, phoneVars
<1>11. ASSUME NEW c \in Caller, Wait(c) \/ (c \in Request /\ Call(c))
      PROVE  WireOK'
  BY <1>2, <1>11 DEF Wait, Expire, Answered, GivesUp, Call, wireVars, phoneVars
<1>12. CASE Run
  BY <1>2, <1>12 DEF Run, Tick, HeartbeatEnds, Close, StateChanged, MediaStops, Cancel,
     wireVars, phoneVars
<1>13. CASE HandleEvent \/ HandleInput
  BY <1>2, <1>13 DEF HandleEvent, EventTaken, UnpairTaken, StatusTaken, EventsStop,
     EventApplied, HandleInput, InputTaken, Coalesce, InputsStop, InputApplied, InputStep,
     wireVars, phoneVars
<1>14. CASE UNCHANGED vars
  BY <1>2, <1>14 DEF vars, wireVars, phoneVars
<1> QED
  BY <1>3, <1>5, <1>6, <1>8, <1>9, <1>10, <1>11, <1>12, <1>13, <1>14, Distinct
  DEF Next, Phone

LEMMA PhoneTyped ==
  ASSUME TypeInv, [Next]_vars
  PROVE  PhoneOK'
<1>1. PhoneOK
  BY DEF TypeInv, TypeOK
<1>2. CASE UNCHANGED <<recvCtr, handled, phonePc, phoneTx>>
  BY <1>1, <1>2 DEF PhoneOK
<1>3. CASE PhoneReads
  <2>1. Head(toPhone) \in Frame
    BY <1>3, SeqTail DEF PhoneReads, TypeInv, TypeOK, WireOK
  <2>2. Head(toPhone).type = "request" => Head(toPhone).id \in Tx
    BY <2>1, FrameIsRequest
  <2> QED
    BY <1>1, <1>3, <2>2 DEF PhoneReads, PhoneOK
<1>4. CASE PhoneAnswers
  BY <1>1, <1>4 DEF PhoneAnswers, PhoneOK
<1>5. CASE PhoneLeaves \/ \E k \in Kind : PhoneStarts(k)
  BY <1>2, <1>5 DEF PhoneLeaves, PhoneStarts, phoneVars
<1>6. ASSUME NEW c \in Caller, Wait(c) \/ (c \in Request /\ Call(c))
      PROVE  PhoneOK'
  BY <1>2, <1>6 DEF Wait, Expire, Answered, GivesUp, Call, phoneVars
<1>7. CASE Run \/ Read
  BY <1>2, <1>7 DEF Run, Tick, HeartbeatEnds, Close, StateChanged, MediaStops, Cancel,
     Read, ReadAnswer, ReadInput, ReadEvent, ReadFails, phoneVars
<1>8. CASE HandleEvent \/ HandleInput
  BY <1>2, <1>8 DEF HandleEvent, EventTaken, UnpairTaken, StatusTaken, EventsStop,
     EventApplied, HandleInput, InputTaken, Coalesce, InputsStop, InputApplied, InputStep,
     phoneVars
<1>9. ASSUME NEW w \in Writer, Write(w)
      PROVE  PhoneOK'
  BY <1>2, <1>9 DEF Write, Lock, WriteDone, Unlock, WriteFails, phoneVars
<1>10. CASE UNCHANGED vars
  BY <1>2, <1>10 DEF vars, phoneVars
<1> QED
  BY <1>3, <1>4, <1>5, <1>6, <1>7, <1>8, <1>9, <1>10, Distinct DEF Next, Phone

LEMMA HeadOfWire ==
  ASSUME TypeInv, Reads
  PROVE  /\ Head(toHost) \in Upward
         /\ Head(toHost).type = "event" => Head(toHost).id \in Event
<1>1. Head(toHost) \in Upward
  BY SeqTail DEF Reads, TypeInv, TypeOK, WireOK
<1> QED
  BY <1>1, UpwardKinds

LEMMA SeqOne ==
  ASSUME NEW S, NEW x \in S
  PROVE  <<x>> \in Seq(S) /\ Len(<<x>>) = 1 /\ <<x>>[1] = x
OBVIOUS

(* A queue that had room for one more.                                     *)
LEMMA Queued ==
  ASSUME NEW S, NEW s \in Seq(S), NEW x \in S, NEW cap \in Nat, Len(s) < cap
  PROVE  Append(s, x) \in Seq(S) /\ Len(Append(s, x)) <= cap
BY SeqAppend

LEMMA WorkTyped ==
  ASSUME TypeInv, [Next]_vars
  PROVE  WorkOK'
<1>1. /\ dropped \in Event \cup {0}
      /\ inputQueue \in Seq(Event) /\ Len(inputQueue) <= InputCap
      /\ inputJobs \in Seq(Event) /\ inputNext \in Event \cup {0}
      /\ inputOk \in BOOLEAN
      /\ eventQueue \in Seq(Event \cup {0}) /\ Len(eventQueue) <= EventCap
      /\ eventJob \in Event \cup {0} /\ eventOk \in BOOLEAN
      /\ applied \subseteq Event
      /\ acks \in [Event -> {"none", "accepted", "refused"}]
  BY DEF TypeInv, TypeOK, WorkOK
<1>2. CASE UNCHANGED <<dropped, inputVars, eventVars, applied, acks>>
  BY <1>1, <1>2 DEF WorkOK, inputVars, eventVars
<1>3. ASSUME NEW w \in Writer, Write(w)
      PROVE  WorkOK'
  <2>1. CASE Lock(w)
    BY <1>2, <2>1 DEF Lock, workVars
  <2>2. CASE WriteDone(w)
    <3>1. UNCHANGED <<dropped, inputVars, eventVars, applied>>
      BY <2>2 DEF WriteDone, workVars
    <3>2. acks' \in [Event -> {"none", "accepted", "refused"}]
      BY <1>1, <2>2 DEF WriteDone
    <3> QED
      BY <1>1, <3>1, <3>2 DEF WorkOK, inputVars, eventVars
  <2>3. CASE Unlock(w) \/ WriteFails(w)
    <3>1. UNCHANGED <<inputQueue, inputNext, inputOk, eventQueue, eventOk, acks>>
      BY <2>3 DEF Unlock, WriteFails
    <3>2. PICK ok \in BOOLEAN : AfterWrite(w, ok)
      BY <2>3 DEF Unlock, WriteFails
    <3>3. CASE UNCHANGED <<dropped, eventJob, inputJobs, applied>>
      BY <1>2, <3>1, <3>3 DEF inputVars, eventVars
    <3>4. CASE dropped' = 0 /\ UNCHANGED <<eventJob, inputJobs, applied>>
      BY <1>1, <3>1, <3>4 DEF WorkOK
    <3>5. CASE w = "events" /\ AfterEventAck /\ UNCHANGED <<dropped, inputJobs>>
      <4>1. pc["events"] \in {"write", "sent"}
        BY <2>3, <3>5 DEF Unlock, WriteFails
      <4>2. eventJob \in Event
        BY <1>1, <4>1 DEF TypeInv, InHand, Writing
      <4> QED
        BY <1>1, <3>1, <3>5, <4>2 DEF WorkOK, AfterEventAck
    <3>6. CASE w = "inputs" /\ AfterInputAck /\ UNCHANGED <<dropped, eventJob, applied>>
      <4>1. pc["inputs"] \in {"write", "sent"}
        BY <2>3, <3>6 DEF Unlock, WriteFails
      <4>2. inputJobs' \in Seq(Event)
        BY <1>1, <3>6, <4>1, SeqTail DEF AfterInputAck, TypeInv, InHand, Writing
      <4> QED
        BY <1>1, <3>1, <3>6, <4>2 DEF WorkOK
    <3> QED
      BY <3>2, <3>3, <3>4, <3>5, <3>6 DEF AfterWrite
  <2> QED
    BY <1>3, <2>1, <2>2, <2>3 DEF Write
<1> DEFINE N == Event \cup {0}
<1>16. \A n \in N : Len(eventQueue) < EventCap =>
         /\ Append(eventQueue, n) \in Seq(N)
         /\ Len(Append(eventQueue, n)) <= EventCap
  BY <1>1, Queued, Numbers
<1>4. CASE ReadAnswer
  <2>1. eventQueue' \in Seq(N) /\ Len(eventQueue') <= EventCap
    <3> HIDE DEF N
    <3>1. 0 \in N /\ eventQueue \in Seq(N)
      BY <1>1 DEF N
    <3> QED
      BY <1>1, <1>4, <1>16, <3>1 DEF ReadAnswer, Room
  <2> QED
    BY <1>1, <1>4, <2>1 DEF ReadAnswer, WorkOK, inputVars
<1>5. CASE ReadInput
  <2>1. Head(toHost).id \in Event
    BY <1>5, HeadOfWire DEF ReadInput
  <2>2. inputQueue' \in Seq(Event) /\ Len(inputQueue') <= InputCap
    BY <1>1, <1>5, <2>1, SeqAppend, Numbers DEF ReadInput, Room
  <2> QED
    BY <1>1, <1>5, <2>1, <2>2 DEF ReadInput, Drop, WorkOK, eventVars
<1>6. CASE ReadEvent
  <2>1. Head(toHost).id \in Event
    BY <1>6, HeadOfWire DEF ReadEvent
  <2>2. eventQueue' \in Seq(N) /\ Len(eventQueue') <= EventCap
    <3> HIDE DEF N
    <3>1. Head(toHost).id \in N /\ eventQueue \in Seq(N)
      BY <1>1, <2>1 DEF N
    <3> QED
      BY <1>1, <1>6, <1>16, <3>1 DEF ReadEvent, Room
  <2> QED
    BY <1>1, <1>6, <2>1, <2>2 DEF ReadEvent, Drop, WorkOK, inputVars
<1>7. CASE EventTaken
  <2>1. /\ Head(eventQueue) \in Event \cup {0}
        /\ eventQueue' \in Seq(Event \cup {0}) /\ Len(eventQueue') <= EventCap
    BY <1>1, <1>7, SeqTail, Numbers DEF EventTaken
  <2> QED
    BY <1>1, <1>7, <2>1 DEF EventTaken, WorkOK, inputVars
<1>8. CASE UnpairTaken \/ StatusTaken \/ \E ok \in BOOLEAN : EventApplied(ok)
  <2>1. pc["events"] = "apply"
    BY <1>8 DEF UnpairTaken, StatusTaken, EventApplied
  <2>2. eventJob \in Event
    BY <1>1, <2>1 DEF TypeInv, InHand
  <2> QED
    BY <1>1, <1>8, <2>2 DEF UnpairTaken, StatusTaken, EventApplied, WorkOK, inputVars
<1>9. CASE InputTaken \/ Coalesce
  <2>1. UNCHANGED <<dropped, eventVars, inputOk, applied, acks>>
    BY <1>9 DEF InputTaken, Coalesce, InputStep
  <2>2. inputQueue # <<>> => /\ Head(inputQueue) \in Event
                             /\ Tail(inputQueue) \in Seq(Event)
                             /\ Len(Tail(inputQueue)) <= InputCap
    BY <1>1, SeqTail, Numbers
  <2>3. /\ inputNext' \in Event \cup {0}
        /\ inputQueue' \in Seq(Event) /\ Len(inputQueue') <= InputCap
    BY <1>1, <1>9, <2>2 DEF InputTaken, Coalesce
  <2>4. inputJobs' \in Seq(Event)
    <3>1. CASE InputTaken
      <4>1. PICK n : Begin(n) /\ n \in Event
        BY <1>1, <2>2, <3>1 DEF InputTaken
      <4> QED
        BY <4>1, SeqOne DEF Begin
    <3>2. CASE Coalesce
      BY <1>1, <2>2, <3>2, SeqAppend DEF Coalesce
    <3> QED
      BY <1>9, <3>1, <3>2
  <2> QED
    BY <1>1, <2>1, <2>3, <2>4 DEF WorkOK, eventVars
<1>10. ASSUME NEW ok \in BOOLEAN, InputApplied(ok)
       PROVE  WorkOK'
  <2>1. {inputJobs[i] : i \in DOMAIN inputJobs} \subseteq Event
    BY <1>1
  <2> QED
    BY <1>1, <1>10, <2>1 DEF InputApplied, InputStep, WorkOK, eventVars
<1>11. CASE InputsStop \/ EventsStop \/ ReadFails
  BY <1>2, <1>11 DEF InputsStop, EventsStop, ReadFails, InputStep, workVars
<1>12. ASSUME NEW c \in Caller, Wait(c) \/ (c \in Request /\ Call(c))
       PROVE  WorkOK'
  BY <1>2, <1>12 DEF Wait, Expire, Answered, GivesUp, Call, workVars
<1>13. CASE Run
  BY <1>2, <1>13 DEF Run, Tick, HeartbeatEnds, Close, StateChanged, MediaStops, Cancel,
     workVars
<1>14. CASE Phone
  BY <1>2, <1>14 DEF Phone, PhoneReads, PhoneAnswers, PhoneLeaves, PhoneStarts, workVars
<1>15. CASE UNCHANGED vars
  BY <1>2, <1>15 DEF vars, workVars
<1> QED
  BY <1>3, <1>4, <1>5, <1>6, <1>7, <1>8, <1>9, <1>10, <1>11, <1>12, <1>13, <1>14, <1>15,
     Distinct DEF Next, Read, HandleEvent, HandleInput

(* The steps in which the goroutine w is where it was.                     *)
LEMMA Elsewhere ==
  ASSUME TypeInv, NEW w \in Writer, NEW v \in Writer \ {w}, NEW place, Goto(v, place)
  PROVE  pc'[w] = pc[w]
BY DEF TypeInv, TypeOK, ControlOK, Goto

LEMMA GoesTo ==
  ASSUME TypeInv, NEW w \in Writer, NEW place, Goto(w, place)
  PROVE  pc'[w] = place
BY DEF TypeInv, TypeOK, ControlOK, Goto

(* A step of another goroutine than w.                                     *)
LEMMA WriteElsewhere ==
  ASSUME TypeInv, NEW w \in Writer, NEW v \in Writer \ {w}, Write(v)
  PROVE  pc'[w] = pc[w]
<1>1. \E place : Goto(v, place)
  <2>1. CASE Lock(v) \/ WriteDone(v)
    BY <2>1 DEF Lock, WriteDone
  <2>2. CASE Unlock(v) \/ WriteFails(v)
    <3>1. PICK ok \in BOOLEAN : AfterWrite(v, ok)
      BY <2>2 DEF Unlock, WriteFails
    <3> QED
      BY <3>1 DEF AfterWrite, AfterRequest, Return, AfterInputAck, AfterEventAck, AfterState
  <2> QED
    BY <2>1, <2>2 DEF Write
<1> QED
  BY <1>1, Elsewhere

LEMMA CallElsewhere ==
  ASSUME TypeInv, NEW w \in Writer, NEW c \in Caller \ {w},
         Wait(c) \/ (c \in Request /\ Call(c))
  PROVE  pc'[w] = pc[w]
<1>1. UNCHANGED pc \/ \E place : Goto(c, place)
  BY DEF Wait, Expire, Answered, GivesUp, Return, Call
<1> QED
  BY <1>1, Elsewhere, Distinct

LEMMA BeatCounted ==
  ASSUME TypeInv, [Next]_vars
  PROVE  (pc["beat"] \in InRequest => beatNo # 0)'
<1>1. /\ pc["beat"] \in InRequest => beatNo # 0
      /\ beatNo \in 0..MaxBeats
  BY DEF TypeInv, InHand, TypeOK, CallsOK
<1>2. CASE Tick
  BY <1>1, <1>2, Numbers DEF Tick
<1>3. CASE beatNo' = beatNo /\ (pc'["beat"] \in InRequest => pc["beat"] \in InRequest)
  BY <1>1, <1>3
<1>4. ASSUME NEW w \in Writer, Write(w)
      PROVE  beatNo' = beatNo /\ (pc'["beat"] \in InRequest => pc["beat"] \in InRequest)
  <2>1. beatNo' = beatNo
    BY <1>4 DEF Write, Lock, WriteDone, Unlock, WriteFails, callVars
  <2>2. CASE w = "beat"
    BY <1>4, <2>1, <2>2 DEF Write, Lock, WriteDone, Unlock, WriteFails, InRequest
  <2> QED
    BY <1>4, <2>1, <2>2, WriteElsewhere, Distinct
<1>5. ASSUME NEW c \in Caller, Wait(c) \/ (c \in Request /\ Call(c))
      PROVE  beatNo' = beatNo /\ (pc'["beat"] \in InRequest => pc["beat"] \in InRequest)
  <2>1. beatNo' = beatNo
    BY <1>5 DEF Wait, Expire, Answered, GivesUp, Call
  <2>2. CASE c = "beat"
    BY <1>5, <2>1, <2>2, Distinct DEF Wait, Expire, Answered, GivesUp, InRequest
  <2> QED
    BY <1>5, <2>1, <2>2, CallElsewhere, Distinct
<1>6. CASE QuietStep
  BY <1>3, <1>6, Quiet, TypedBase, Distinct DEF TypeInv
<1>7. CASE HeartbeatEnds
  BY <1>3, <1>7, GoesTo, Distinct DEF HeartbeatEnds, InRequest, callVars
<1>8. CASE UNCHANGED vars
  BY <1>3, <1>8 DEF vars, callVars
<1> QED
  BY <1>2, <1>3, <1>4, <1>5, <1>6, <1>7, <1>8, Distinct DEF Next, Run, QuietStep

LEMMA Sealed ==
  ASSUME TypeInv, [Next]_vars
  PROVE  (\A w \in Writer : pc[w] = "write" => sendCtr # 0)'
<1>1. /\ Base
      /\ \A w \in Writer : pc[w] = "write" => sendCtr # 0
      /\ sendCtr \in Nat
  BY TypedBase DEF TypeInv, InHand, TypeOK, WireOK
<1>2. CASE \/ QuietStep \/ Tick \/ HeartbeatEnds
           \/ \E r \in Request : Call(r)
           \/ \E c \in Caller : Wait(c)
           \/ UNCHANGED vars
  BY <1>1, <1>2, NoWrite
<1>3. ASSUME NEW w \in Writer, Lock(w)
      PROVE  \A v \in Writer : pc'[v] = "write" => sendCtr' # 0
  BY <1>1, <1>3 DEF Lock
<1>4. ASSUME NEW w \in Writer, WriteDone(w)
      PROVE  \A v \in Writer : pc'[v] = "write" => sendCtr' # 0
  <2>1. \A v \in Writer : pc'[v] = "write" => pc[v] = "write"
    BY <1>1, <1>4, Move DEF WriteDone, Place
  <2> QED
    BY <1>1, <1>4, <2>1 DEF WriteDone
<1>5. ASSUME NEW w \in Writer, Unlock(w) \/ WriteFails(w)
      PROVE  \A v \in Writer : pc'[v] = "write" => sendCtr' # 0
  <2>1. \A v \in Writer : pc'[v] = "write" => pc[v] = "write"
    BY <1>1, <1>5, WriterMoves DEF Unlock, WriteFails
  <2> QED
    BY <1>1, <1>5, <2>1 DEF Unlock, WriteFails, wireVars
<1> QED
  BY <1>2, <1>3, <1>4, <1>5 DEF Next, Run, QuietStep, Write

LEMMA ReaderHolds ==
  ASSUME TypeInv, [Next]_vars
  PROVE  (pc["reader"] \in Writing <=> dropped # 0)'
<1>1. /\ pc["reader"] \in Writing <=> dropped # 0
      /\ "reader" \in Writer
  BY Distinct DEF TypeInv, InHand
<1>2. CASE dropped' = dropped /\ pc'["reader"] = pc["reader"]
  BY <1>1, <1>2
<1>3. CASE Write("reader")
  <2>1. CASE Lock("reader") \/ WriteDone("reader")
    BY <1>1, <2>1, GoesTo DEF Lock, WriteDone, Writing, workVars
  <2>2. CASE Unlock("reader") \/ WriteFails("reader")
    <3>1. dropped' = 0 /\ Goto("reader", "read")
      BY <2>2, Distinct DEF Unlock, WriteFails, AfterWrite
    <3> QED
      BY <1>1, <3>1, GoesTo DEF Writing
  <2> QED
    BY <1>3, <2>1, <2>2 DEF Write
<1>4. ASSUME NEW w \in Writer \ {"reader"}, Write(w)
      PROVE  dropped' = dropped /\ pc'["reader"] = pc["reader"]
  <2>1. dropped' = dropped
    BY <1>4 DEF Write, Lock, WriteDone, Unlock, WriteFails, AfterWrite, workVars
  <2> QED
    BY <1>1, <1>4, <2>1, WriteElsewhere
<1>5. ASSUME NEW c \in Caller, Wait(c) \/ (c \in Request /\ Call(c))
      PROVE  dropped' = dropped /\ pc'["reader"] = pc["reader"]
  <2>1. dropped' = dropped
    BY <1>5 DEF Wait, Expire, Answered, GivesUp, Call, workVars
  <2> QED
    BY <1>1, <1>5, <2>1, CallElsewhere, Distinct
<1>6. CASE ReadInput \/ ReadEvent
  <2>1. pc["reader"] = "read" /\ Head(toHost).id \in Event
    BY <1>6, HeadOfWire DEF ReadInput, ReadEvent, Reads
  <2>2. CASE UNCHANGED <<pc, dropped>>
    BY <1>2, <2>2
  <2>3. CASE Drop(Head(toHost).id)
    BY <1>1, <2>1, <2>3, GoesTo DEF Drop, Writing, Event
  <2> QED
    BY <1>6, <2>2, <2>3 DEF ReadInput, ReadEvent
<1>7. CASE ReadAnswer
  BY <1>2, <1>7 DEF ReadAnswer
<1>8. CASE ReadFails
  BY <1>1, <1>8, GoesTo DEF ReadFails, Writing, workVars
<1>9. CASE HandleEvent \/ HandleInput \/ Run
  <2>1. dropped' = dropped
    BY <1>9 DEF HandleEvent, EventTaken, UnpairTaken, StatusTaken, EventsStop, EventApplied,
       HandleInput, InputTaken, Coalesce, InputsStop, InputApplied, InputStep,
       Run, Tick, HeartbeatEnds, Close, StateChanged, MediaStops, Cancel, workVars
  <2>2. UNCHANGED pc \/ \E w \in Writer \ {"reader"}, place \in Place : Goto(w, place)
    <3>1. CASE HandleEvent
      BY <3>1, Distinct DEF HandleEvent, EventTaken, UnpairTaken, StatusTaken, EventsStop,
         EventApplied, Place
    <3>2. CASE HandleInput
      BY <3>2, Distinct DEF HandleInput, InputTaken, Coalesce, InputsStop, InputApplied,
         Begin, Place
    <3>3. CASE Run
      BY <3>3, Distinct DEF Run, Tick, HeartbeatEnds, Close, StateChanged, MediaStops, Cancel,
         Place
    <3> QED
      BY <1>9, <3>1, <3>2, <3>3
  <2> QED
    BY <1>1, <1>2, <2>1, <2>2, Elsewhere
<1>10. CASE Phone \/ UNCHANGED vars
  BY <1>2, <1>10 DEF Phone, PhoneReads, PhoneAnswers, PhoneLeaves, PhoneStarts, vars, workVars
<1> QED
  BY <1>2, <1>3, <1>4, <1>5, <1>6, <1>7, <1>8, <1>9, <1>10, Distinct DEF Next, Read

(* What the messages of the phone are in, and where their goroutines are.  *)
Kept ==
    /\ UNCHANGED <<dropped, inputVars, eventVars, applied, acks, sent, toHost>>
    /\ \A w \in {"reader", "inputs", "events"} : pc'[w] = pc[w]

(* Only three goroutines and the phone handle them.                        *)
LEMMA Others ==
  ASSUME TypeInv, [Next]_vars
  PROVE  \/ Kept
         \/ \E w \in {"reader", "inputs", "events"} : Write(w)
         \/ Read \/ HandleEvent \/ HandleInput
         \/ PhoneAnswers \/ \E k \in Kind : PhoneStarts(k)
<1>1. ASSUME NEW w \in Caller \cup {"media"}, Write(w)
      PROVE  Kept
  <2>1. \A v \in {"reader", "inputs", "events"} : pc'[v] = pc[v]
    BY <1>1, WriteElsewhere, Distinct
  <2>2. FrameOf(w).type # "ack"
    BY FramesOf
  <2>3. UNCHANGED <<dropped, inputVars, eventVars, applied, acks, sent, toHost>>
    <3>1. CASE Lock(w)
      BY <3>1 DEF Lock, workVars, phoneVars
    <3>2. CASE WriteDone(w)
      BY <2>2, <3>2 DEF WriteDone, workVars, phoneVars
    <3>3. CASE Unlock(w) \/ WriteFails(w)
      <4>1. UNCHANGED <<inputQueue, inputNext, inputOk, eventQueue, eventOk, acks, sent, toHost>>
        BY <3>3 DEF Unlock, WriteFails, phoneVars
      <4>2. PICK ok \in BOOLEAN : AfterWrite(w, ok)
        BY <3>3 DEF Unlock, WriteFails
      <4>3. UNCHANGED <<dropped, eventJob, inputJobs, applied>>
        BY <4>2, Distinct DEF AfterWrite
      <4> QED
        BY <4>1, <4>3 DEF inputVars, eventVars
    <3> QED
      BY <1>1, <3>1, <3>2, <3>3 DEF Write
  <2> QED
    BY <2>1, <2>3 DEF Kept
<1>2. ASSUME NEW c \in Caller, Wait(c) \/ (c \in Request /\ Call(c))
      PROVE  Kept
  <2>1. \A v \in {"reader", "inputs", "events"} : pc'[v] = pc[v]
    BY <1>2, CallElsewhere, Distinct
  <2> QED
    BY <1>2, <2>1 DEF Kept, Wait, Expire, Answered, GivesUp, Call, workVars, phoneVars
<1>3. CASE Run
  <2>1. UNCHANGED pc \/ \E v \in {"beat", "media"}, place \in Place : Goto(v, place)
    BY <1>3 DEF Run, Tick, HeartbeatEnds, Close, StateChanged, MediaStops, Cancel, Place
  <2>2. \A v \in {"reader", "inputs", "events"} : pc'[v] = pc[v]
    BY <2>1, Elsewhere, Distinct
  <2>3. UNCHANGED <<dropped, inputVars, eventVars, applied, acks, sent, toHost>>
    BY <1>3 DEF Run, Tick, HeartbeatEnds, Close, StateChanged, MediaStops, Cancel,
       workVars, phoneVars
  <2> QED
    BY <2>2, <2>3 DEF Kept
<1>4. CASE PhoneReads \/ PhoneLeaves \/ UNCHANGED vars
  BY <1>4 DEF PhoneReads, PhoneLeaves, vars, Kept, workVars, phoneVars
<1> QED
  BY <1>1, <1>2, <1>3, <1>4, Distinct DEF Next, Phone

(* What the input worker has in hand is its own.                           *)
LEMMA InputsAlone ==
  ASSUME TypeInv,
         \/ Kept \/ Write("reader") \/ Write("events") \/ Read \/ HandleEvent
         \/ PhoneAnswers \/ \E k \in Kind : PhoneStarts(k)
  PROVE  pc'["inputs"] = pc["inputs"] /\ UNCHANGED <<inputJobs, inputNext, inputOk>>
<1>1. CASE Kept
  BY <1>1 DEF Kept, inputVars
<1>2. ASSUME NEW w \in {"reader", "events"}, Write(w)
      PROVE  pc'["inputs"] = pc["inputs"] /\ UNCHANGED <<inputJobs, inputNext, inputOk>>
  <2>1. UNCHANGED <<inputJobs, inputNext, inputOk>>
    BY <1>2, Distinct DEF Write, Lock, WriteDone, Unlock, WriteFails, AfterWrite, workVars,
       inputVars
  <2> QED
    BY <1>2, <2>1, WriteElsewhere, Distinct
<1>3. CASE Read \/ HandleEvent
  <2>1. UNCHANGED <<inputJobs, inputNext, inputOk>>
    BY <1>3 DEF Read, ReadAnswer, ReadInput, ReadEvent, ReadFails, HandleEvent, EventTaken,
       UnpairTaken, StatusTaken, EventsStop, EventApplied, workVars, inputVars
  <2>2. UNCHANGED pc \/ \E v \in {"reader", "events"}, place \in Place : Goto(v, place)
    BY <1>3 DEF Read, ReadAnswer, ReadInput, ReadEvent, ReadFails, Drop, HandleEvent,
       EventTaken, UnpairTaken, StatusTaken, EventsStop, EventApplied, Place
  <2> QED
    BY <2>1, <2>2, Elsewhere, Distinct
<1>4. CASE PhoneAnswers \/ \E k \in Kind : PhoneStarts(k)
  BY <1>4 DEF PhoneAnswers, PhoneStarts, workVars, inputVars
<1> QED
  BY <1>1, <1>2, <1>3, <1>4

(* So is what the event worker has.                                        *)
LEMMA EventsAlone ==
  ASSUME TypeInv,
         \/ Kept \/ Write("reader") \/ Write("inputs") \/ Read \/ HandleInput
         \/ PhoneAnswers \/ \E k \in Kind : PhoneStarts(k)
  PROVE  pc'["events"] = pc["events"] /\ UNCHANGED <<eventJob, eventOk>>
<1>1. CASE Kept
  BY <1>1 DEF Kept, eventVars
<1>2. ASSUME NEW w \in {"reader", "inputs"}, Write(w)
      PROVE  pc'["events"] = pc["events"] /\ UNCHANGED <<eventJob, eventOk>>
  <2>1. UNCHANGED <<eventJob, eventOk>>
    BY <1>2, Distinct DEF Write, Lock, WriteDone, Unlock, WriteFails, AfterWrite, workVars,
       eventVars
  <2> QED
    BY <1>2, <2>1, WriteElsewhere, Distinct
<1>3. CASE Read \/ HandleInput
  <2>1. UNCHANGED <<eventJob, eventOk>>
    BY <1>3 DEF Read, ReadAnswer, ReadInput, ReadEvent, ReadFails, HandleInput, InputTaken,
       Coalesce, InputsStop, InputApplied, InputStep, workVars, eventVars
  <2>2. UNCHANGED pc \/ \E v \in {"reader", "inputs"}, place \in Place : Goto(v, place)
    BY <1>3 DEF Read, ReadAnswer, ReadInput, ReadEvent, ReadFails, Drop, HandleInput,
       InputTaken, Begin, Coalesce, InputsStop, InputApplied, Place
  <2> QED
    BY <2>1, <2>2, Elsewhere, Distinct
<1>4. CASE PhoneAnswers \/ \E k \in Kind : PhoneStarts(k)
  BY <1>4 DEF PhoneAnswers, PhoneStarts, workVars, eventVars
<1> QED
  BY <1>1, <1>2, <1>3, <1>4

LEMMA InputsHold ==
  ASSUME TypeInv, [Next]_vars
  PROVE  (pc["inputs"] \in {"drain", "apply"} \cup Writing <=> inputJobs # <<>>)'
<1>1. /\ pc["inputs"] \in {"drain", "apply"} \cup Writing <=> inputJobs # <<>>
      /\ "inputs" \in Writer /\ inputJobs \in Seq(Event)
  BY Distinct DEF TypeInv, InHand, TypeOK, WorkOK
<1>2. CASE inputJobs' = inputJobs /\ pc'["inputs"] = pc["inputs"]
  BY <1>1, <1>2
<1>3. CASE Write("inputs")
  <2>1. CASE Lock("inputs") \/ WriteDone("inputs")
    BY <1>1, <2>1, GoesTo DEF Lock, WriteDone, Writing, workVars, inputVars
  <2>2. CASE Unlock("inputs") \/ WriteFails("inputs")
    <3>1. /\ AfterInputAck /\ inputJobs # <<>>
          /\ pc'["inputs"] = IF Len(inputJobs) > 1 THEN "lock" ELSE "idle"
      BY <1>1, <2>2, Distinct, GoesTo DEF Unlock, WriteFails, AfterWrite, AfterInputAck,
         Writing
    <3>2. Len(inputJobs') = Len(inputJobs) - 1 /\ inputJobs' \in Seq(Event)
      BY <1>1, <3>1, SeqTail DEF AfterInputAck
    <3>3. inputJobs' # <<>> <=> Len(inputJobs) > 1
      BY <1>1, <3>2
    <3> QED
      BY <3>1, <3>3 DEF Writing
  <2> QED
    BY <1>3, <2>1, <2>2 DEF Write
<1>4. CASE InputTaken
  <2>1. PICK n \in Event : Begin(n)
    BY <1>4, SeqTail DEF InputTaken, TypeInv, TypeOK, WorkOK
  <2>2. pc'["inputs"] \in {"drain", "apply"} /\ inputJobs' = <<n>>
    BY <1>1, <2>1, GoesTo DEF Begin
  <2>3. inputJobs' # <<>>
    BY <2>2, SeqOne
  <2> QED
    BY <2>2, <2>3
<1>5. CASE Coalesce
  <2>1. inputJobs # <<>>
    BY <1>1, <1>5 DEF Coalesce
  <2>2. pc'["inputs"] \in {"drain", "apply"}
    BY <1>1, <1>5, GoesTo DEF Coalesce
  <2>3. inputJobs' # <<>>
    <3>1. CASE inputJobs' = inputJobs
      BY <2>1, <3>1
    <3>2. ASSUME NEW n \in Event, inputJobs' = Append(inputJobs, n)
          PROVE  inputJobs' # <<>>
      BY <1>1, <3>2
    <3>3. inputQueue # <<>> => Head(inputQueue) \in Event
      BY SeqTail DEF TypeInv, TypeOK, WorkOK
    <3> QED
      BY <1>5, <3>1, <3>2, <3>3 DEF Coalesce
  <2> QED
    BY <2>2, <2>3
<1>6. CASE InputsStop \/ \E ok \in BOOLEAN : InputApplied(ok)
  BY <1>1, <1>6, GoesTo DEF InputsStop, InputApplied, inputVars, Writing
<1> QED
  BY <1>2, <1>3, <1>4, <1>5, <1>6, InputsAlone, Others DEF HandleInput

LEMMA EventsHold ==
  ASSUME TypeInv, [Next]_vars
  PROVE  (pc["events"] \in {"apply"} \cup Writing <=> eventJob # 0)'
<1>1. /\ pc["events"] \in {"apply"} \cup Writing <=> eventJob # 0
      /\ "events" \in Writer
  BY Distinct DEF TypeInv, InHand
<1>2. CASE eventJob' = eventJob /\ pc'["events"] = pc["events"]
  BY <1>1, <1>2
<1>3. CASE Write("events")
  <2>1. CASE Lock("events") \/ WriteDone("events")
    BY <1>1, <2>1, GoesTo DEF Lock, WriteDone, Writing, workVars, eventVars
  <2>2. CASE Unlock("events") \/ WriteFails("events")
    <3>1. AfterEventAck
      BY <2>2, Distinct DEF Unlock, WriteFails, AfterWrite
    <3> QED
      BY <1>1, <3>1, GoesTo DEF AfterEventAck, Writing
  <2> QED
    BY <1>3, <2>1, <2>2 DEF Write
<1>4. CASE HandleEvent
  <2>1. CASE EventTaken
    <3>1. pc["events"] = "idle"
      BY <2>1 DEF EventTaken
    <3> QED
      BY <1>1, <1>2, <2>1, <3>1, GoesTo DEF EventTaken
  <2>2. CASE UnpairTaken \/ StatusTaken \/ EventsStop \/ \E ok \in BOOLEAN : EventApplied(ok)
    BY <1>1, <2>2, GoesTo DEF UnpairTaken, StatusTaken, EventsStop, EventApplied, Writing,
       workVars, eventVars
  <2> QED
    BY <1>4, <2>1, <2>2 DEF HandleEvent
<1> QED
  BY <1>2, <1>3, <1>4, EventsAlone, Others

LEMMA InitInHand == Init => TypeInv
<1> SUFFICES ASSUME Init
             PROVE  TypeInv
  OBVIOUS
<1>1. /\ pc \in [Writer -> Place]
      /\ \A c \in Caller : pc[c] = "idle"
      /\ pc["reader"] = "read" /\ pc["inputs"] = "idle" /\ pc["events"] = "idle"
      /\ pc["media"] = "lock"
  BY Distinct DEF Init, Place
<1>2. \A w \in Writer : pc[w] \in PcOf(w)
  BY <1>1, PlacesOf, Distinct DEF Writing
<1>3. ControlOK
  BY <1>1, <1>2 DEF ControlOK, Init
<1>4. CallsOK
  BY Numbers DEF CallsOK, Init
<1>5. WireOK
  BY Numbers DEF WireOK, Init
<1>6. PhoneOK
  BY DEF PhoneOK, Init
<1>7. WorkOK
  <2>1. acks \in [Event -> {"none", "accepted", "refused"}]
    BY DEF Init
  <2>2. inputQueue \in Seq(Event) /\ inputJobs \in Seq(Event) /\ Len(inputQueue) <= InputCap
    BY Numbers DEF Init
  <2>3. eventQueue \in Seq(Event \cup {0}) /\ Len(eventQueue) <= EventCap
    BY Numbers DEF Init
  <2>4. /\ dropped = 0 /\ inputNext = 0 /\ eventJob = 0 /\ applied = {}
        /\ inputOk = FALSE /\ eventOk = FALSE
    BY DEF Init
  <2> QED
    BY <2>1, <2>2, <2>3, <2>4 DEF WorkOK
<1>8. InHand
  <2>1. inputJobs = <<>> /\ eventJob = 0 /\ dropped = 0
    BY DEF Init
  <2>2. pc["beat"] = "idle" /\ \A w \in Writer : pc[w] # "write"
    BY <1>1, Distinct
  <2> QED
    BY <1>1, <2>1, <2>2 DEF InHand, InRequest, Writing
<1> QED
  BY <1>3, <1>4, <1>5, <1>6, <1>7, <1>8 DEF TypeInv, TypeOK

LEMMA TypeStep ==
  ASSUME TypeInv, [Next]_vars
  PROVE  TypeInv'
BY ControlTyped, CallsTyped, WireTyped, PhoneTyped, WorkTyped, BeatCounted, ReaderHolds,
   InputsHold, EventsHold, Sealed DEF TypeInv, TypeOK, InHand

LEMMA TypesHold == Spec => []TypeInv
BY InitInHand, TypeStep, PTL DEF Spec

(* The connection keeps to its types, queues and windows, and no goroutine *)
(* writes without something in hand.                                       *)
THEOREM DispatchTyped == Spec => []TypeOK
<1>1. TypeInv => TypeOK
  BY DEF TypeInv
<1> QED
  BY <1>1, TypesHold, PTL
=============================================================================
