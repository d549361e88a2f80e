-------------------------- MODULE SessionOrderProofs --------------------------
(***************************************************************************)
(* Proofs about SessionDispatch, for every set of callers and all bounds:  *)
(* the messages of the phone on their way through the host.  The host acts *)
(* on them in order, acknowledges each once, and forgets none.             *)
(***************************************************************************)
EXTENDS SessionDispatchProofs

(* The numbers in a sequence, where 0 stands for no message.               *)
One(n) == {n} \ {0}
Els(s) == {s[i] : i \in DOMAIN s} \ {0}
Increasing(s) ==
    \A i, j \in DOMAIN s : i < j /\ s[i] # 0 /\ s[j] # 0 => s[i] < s[j]
Before(A, B) == \A a \in A, b \in B : a < b

NumbersIn(s) == [i \in DOMAIN s |-> IF s[i].type = "event" THEN s[i].id ELSE 0]
Wire == NumbersIn(toHost)

InputStages == Els(inputJobs) \cup One(inputNext) \cup Els(inputQueue)
EventStages == One(eventJob) \cup Els(eventQueue)
Sent == DOMAIN sent

LEMMA ElsAppend ==
  ASSUME NEW s \in Seq(Nat), NEW x \in Nat
  PROVE  /\ Els(Append(s, x)) = Els(s) \cup One(x)
         /\ Increasing(s) /\ Before(Els(s), One(x)) => Increasing(Append(s, x))
<1>1. /\ DOMAIN s = 1..Len(s) /\ Len(s) \in Nat
      /\ DOMAIN Append(s, x) = 1..(Len(s) + 1)
      /\ \A i \in 1..Len(s) : Append(s, x)[i] = s[i]
      /\ Append(s, x)[Len(s) + 1] = x
  OBVIOUS
<1>2. Els(Append(s, x)) = Els(s) \cup One(x)
  <2>1. ASSUME NEW y \in Els(Append(s, x))
        PROVE  y \in Els(s) \cup One(x)
    <3>1. PICK i \in 1..(Len(s) + 1) : y = Append(s, x)[i]
      BY <1>1 DEF Els
    <3>2. i \in 1..Len(s) \/ i = Len(s) + 1
      BY <1>1
    <3> QED
      BY <1>1, <3>1, <3>2 DEF Els, One
  <2>2. ASSUME NEW y \in Els(s) \cup One(x)
        PROVE  y \in Els(Append(s, x))
    <3>1. CASE y \in Els(s)
      <4>1. PICK i \in 1..Len(s) : y = s[i]
        BY <1>1, <3>1 DEF Els
      <4>2. i \in DOMAIN Append(s, x) /\ Append(s, x)[i] = y
        BY <1>1, <4>1
      <4> QED
        BY <3>1, <4>2 DEF Els
    <3>2. CASE y = x /\ y # 0
      BY <1>1, <3>2 DEF Els
    <3> QED
      BY <2>2, <3>1, <3>2 DEF One
  <2> QED
    BY <2>1, <2>2
<1>3. ASSUME Increasing(s), Before(Els(s), One(x))
      PROVE  Increasing(Append(s, x))
  <2> SUFFICES ASSUME NEW i \in 1..(Len(s) + 1), NEW j \in 1..(Len(s) + 1), i < j,
                      Append(s, x)[i] # 0, Append(s, x)[j] # 0
               PROVE  Append(s, x)[i] < Append(s, x)[j]
    BY <1>1 DEF Increasing
  <2>1. i \in 1..Len(s) /\ (j \in 1..Len(s) \/ j = Len(s) + 1)
    BY <1>1
  <2>2. CASE j \in 1..Len(s)
    BY <1>1, <1>3, <2>1, <2>2 DEF Increasing
  <2>3. CASE j = Len(s) + 1
    BY <1>1, <1>3, <2>1, <2>3 DEF Before, Els, One
  <2> QED
    BY <2>1, <2>2, <2>3
<1> QED
  BY <1>2, <1>3

LEMMA ElsTail ==
  ASSUME NEW s \in Seq(Nat), s # <<>>
  PROVE  /\ Els(s) = One(Head(s)) \cup Els(Tail(s))
         /\ Increasing(s) => /\ Increasing(Tail(s))
                             /\ Before(One(Head(s)), Els(Tail(s)))
<1>1. /\ DOMAIN s = 1..Len(s) /\ Len(s) \in Nat \ {0}
      /\ Head(s) = s[1]
      /\ DOMAIN Tail(s) = 1..(Len(s) - 1)
      /\ \A i \in 1..(Len(s) - 1) : Tail(s)[i] = s[i + 1] /\ i + 1 \in 1..Len(s)
  OBVIOUS
<1>2. Els(s) = One(Head(s)) \cup Els(Tail(s))
  <2>1. ASSUME NEW y \in Els(s)
        PROVE  y \in One(Head(s)) \cup Els(Tail(s))
    <3>1. PICK i \in 1..Len(s) : y = s[i] /\ y # 0
      BY <1>1 DEF Els
    <3>2. CASE i = 1
      BY <1>1, <3>1, <3>2 DEF One
    <3>3. CASE i # 1
      <4>1. i - 1 \in 1..(Len(s) - 1) /\ i = (i - 1) + 1
        BY <1>1, <3>3
      <4>2. i - 1 \in DOMAIN Tail(s) /\ Tail(s)[i - 1] = y
        BY <1>1, <3>1, <4>1
      <4> QED
        BY <3>1, <4>2 DEF Els
    <3> QED
      BY <3>2, <3>3
  <2>2. ASSUME NEW y \in One(Head(s)) \cup Els(Tail(s))
        PROVE  y \in Els(s)
    BY <1>1, <2>2 DEF One, Els
  <2> QED
    BY <2>1, <2>2
<1>3. ASSUME Increasing(s)
      PROVE  Increasing(Tail(s)) /\ Before(One(Head(s)), Els(Tail(s)))
  <2>1. Increasing(Tail(s))
    <3> SUFFICES ASSUME NEW i \in 1..(Len(s) - 1), NEW j \in 1..(Len(s) - 1), i < j,
                        Tail(s)[i] # 0, Tail(s)[j] # 0
                 PROVE  Tail(s)[i] < Tail(s)[j]
      BY <1>1 DEF Increasing
    <3>1. i + 1 \in DOMAIN s /\ j + 1 \in DOMAIN s /\ i + 1 < j + 1
      BY <1>1
    <3> QED
      BY <1>1, <1>3, <3>1 DEF Increasing
  <2>2. ASSUME NEW y \in Els(Tail(s)), Head(s) # 0
        PROVE  Head(s) < y
    <3>1. PICK i \in 1..(Len(s) - 1) : y = Tail(s)[i] /\ y # 0
      BY <1>1 DEF Els
    <3>2. 1 \in DOMAIN s /\ i + 1 \in DOMAIN s /\ 1 < i + 1 /\ y = s[i + 1]
      BY <1>1, <3>1
    <3> QED
      BY <1>1, <1>3, <2>2, <3>1, <3>2 DEF Increasing
  <2> QED
    BY <2>1, <2>2 DEF Before, One
<1> QED
  BY <1>2, <1>3

LEMMA ElsOne ==
  ASSUME NEW x \in Nat
  PROVE  Els(<<x>>) = One(x) /\ Increasing(<<x>>)
<1>1. DOMAIN <<x>> = {1} /\ <<x>>[1] = x
  OBVIOUS
<1> QED
  BY <1>1 DEF Els, One, Increasing
-----------------------------------------------------------------------------
(* The wire to the host.                                                   *)

LEMMA SequencesOfNumbers ==
  ASSUME TypeInv
  PROVE  /\ Event \subseteq Nat \ {0}
         /\ inputQueue \in Seq(Nat) /\ inputJobs \in Seq(Nat) /\ eventQueue \in Seq(Nat)
         /\ inputNext \in Nat /\ eventJob \in Nat /\ dropped \in Nat
         /\ Len(sent) \in Nat /\ Sent = 1..Len(sent) /\ Sent \subseteq Event
<1>1. Event \subseteq Nat \ {0} /\ Event \cup {0} \subseteq Nat
  BY DEF Event
<1>2. /\ inputQueue \in Seq(Event) /\ inputJobs \in Seq(Event)
      /\ eventQueue \in Seq(Event \cup {0})
      /\ inputNext \in Event \cup {0} /\ eventJob \in Event \cup {0}
      /\ dropped \in Event \cup {0}
  BY DEF TypeInv, TypeOK, WorkOK
<1>3. \A S, T : S \subseteq T => Seq(S) \subseteq Seq(T)
  OBVIOUS
<1>4. Len(sent) \in Nat /\ Sent = 1..Len(sent) /\ Len(sent) <= MaxEvents
  BY DEF TypeInv, TypeOK, WireOK, Sent
<1>5. Sent \subseteq Event
  BY <1>4, Numbers DEF Event
<1> QED
  BY <1>1, <1>2, <1>3, <1>4, <1>5

LEMMA NumberOf ==
  ASSUME NEW m \in Upward
  PROVE  (IF m.type = "event" THEN m.id ELSE 0) \in Nat
BY UpwardKinds DEF Event

LEMMA NumbersTyped ==
  ASSUME NEW s \in Seq(Upward)
  PROVE  /\ NumbersIn(s) \in Seq(Nat) /\ DOMAIN NumbersIn(s) = 1..Len(s)
         /\ \A i \in 1..Len(s) :
               NumbersIn(s)[i] = IF s[i].type = "event" THEN s[i].id ELSE 0
<1>1. DOMAIN s = 1..Len(s) /\ Len(s) \in Nat /\ \A i \in 1..Len(s) : s[i] \in Upward
  OBVIOUS
<1>2. NumbersIn(s) = [i \in 1..Len(s) |-> IF s[i].type = "event" THEN s[i].id ELSE 0]
  BY <1>1 DEF NumbersIn
<1>3. \A i \in 1..Len(s) : (IF s[i].type = "event" THEN s[i].id ELSE 0) \in Nat
  BY <1>1, NumberOf
<1> QED
  BY <1>1, <1>2, <1>3

(* Two sequences with the same elements are the same.                      *)
LEMMA SameNumbers ==
  ASSUME NEW v \in Seq(Nat), NEW w \in Seq(Nat), Len(v) = Len(w),
         \A i \in 1..Len(v) : v[i] = w[i]
  PROVE  v = w
<1>1. v = [i \in 1..Len(v) |-> v[i]]
  OBVIOUS
<1>2. w = [i \in 1..Len(w) |-> w[i]]
  OBVIOUS
<1> QED
  BY <1>1, <1>2

LEMMA NumbersTail ==
  ASSUME NEW s \in Seq(Upward), s # <<>>,
         NEW n, n = IF Head(s).type = "event" THEN Head(s).id ELSE 0
  PROVE  /\ Els(NumbersIn(s)) = One(n) \cup Els(NumbersIn(Tail(s)))
         /\ Increasing(NumbersIn(s)) => /\ Increasing(NumbersIn(Tail(s)))
                                        /\ Before(One(n), Els(NumbersIn(Tail(s))))
<1> DEFINE w == NumbersIn(s)
           v == NumbersIn(Tail(s))
<1>1. /\ Len(s) \in Nat \ {0} /\ Head(s) = s[1]
      /\ Tail(s) \in Seq(Upward) /\ Len(Tail(s)) = Len(s) - 1
      /\ \A i \in 1..(Len(s) - 1) : Tail(s)[i] = s[i + 1] /\ i + 1 \in 1..Len(s)
  OBVIOUS
<1>2. /\ w \in Seq(Nat) /\ DOMAIN w = 1..Len(s)
      /\ \A i \in 1..Len(s) : w[i] = IF s[i].type = "event" THEN s[i].id ELSE 0
  BY NumbersTyped
<1>3. /\ v \in Seq(Nat) /\ DOMAIN v = 1..(Len(s) - 1)
      /\ \A i \in 1..(Len(s) - 1) :
            v[i] = IF Tail(s)[i].type = "event" THEN Tail(s)[i].id ELSE 0
  BY <1>1, NumbersTyped
<1> HIDE DEF w, v
<1>4. 1 \in 1..Len(s) /\ w[1] = n
  BY <1>1, <1>2
<1>5. \A i \in 1..(Len(s) - 1) : v[i] = w[i + 1]
  BY <1>1, <1>2, <1>3
<1>6. Len(w) = Len(s) /\ w # <<>> /\ Head(w) = n
  <2>1. Len(w) = Len(s)
    BY <1>1, <1>2
  <2> QED
    BY <1>1, <1>2, <1>4, <2>1
<1>7. Len(v) = Len(s) - 1
  <2>1. Len(s) - 1 \in Nat
    BY <1>1
  <2> QED
    BY <1>3, <2>1
<1>8. v = Tail(w)
  <2>1. /\ Tail(w) \in Seq(Nat) /\ Len(Tail(w)) = Len(s) - 1
        /\ \A i \in 1..(Len(s) - 1) : Tail(w)[i] = w[i + 1]
    BY <1>1, <1>2, <1>6
  <2>2. \A i \in 1..Len(v) : v[i] = Tail(w)[i]
    BY <1>5, <1>7, <2>1
  <2> QED
    BY <1>3, <1>7, <2>1, <2>2, SameNumbers
<1>9. /\ Els(w) = One(n) \cup Els(v)
      /\ Increasing(w) => Increasing(v) /\ Before(One(n), Els(v))
  BY <1>2, <1>6, <1>8, ElsTail
<1> QED
  BY <1>9 DEF w, v

LEMMA NumbersAppend ==
  ASSUME NEW s \in Seq(Upward), NEW m \in Upward,
         NEW n, n = IF m.type = "event" THEN m.id ELSE 0
  PROVE  /\ Els(NumbersIn(Append(s, m))) = Els(NumbersIn(s)) \cup One(n)
         /\ Increasing(NumbersIn(s)) /\ Before(Els(NumbersIn(s)), One(n))
               => Increasing(NumbersIn(Append(s, m)))
<1> DEFINE w == NumbersIn(s)
           v == NumbersIn(Append(s, m))
<1>1. /\ Len(s) \in Nat
      /\ Append(s, m) \in Seq(Upward) /\ Len(Append(s, m)) = Len(s) + 1
      /\ \A i \in 1..Len(s) : Append(s, m)[i] = s[i]
      /\ Append(s, m)[Len(s) + 1] = m
  OBVIOUS
<1>2. /\ w \in Seq(Nat) /\ DOMAIN w = 1..Len(s)
      /\ \A i \in 1..Len(s) : w[i] = IF s[i].type = "event" THEN s[i].id ELSE 0
  BY NumbersTyped
<1>3. /\ v \in Seq(Nat) /\ DOMAIN v = 1..(Len(s) + 1)
      /\ \A i \in 1..(Len(s) + 1) :
            v[i] = IF Append(s, m)[i].type = "event" THEN Append(s, m)[i].id ELSE 0
  BY <1>1, NumbersTyped
<1> HIDE DEF w, v
<1>4. v[Len(s) + 1] = n /\ \A i \in 1..Len(s) : v[i] = w[i]
  <2>1. Len(s) + 1 \in 1..(Len(s) + 1) /\ \A i \in 1..Len(s) : i \in 1..(Len(s) + 1)
    BY <1>1
  <2>2. v[Len(s) + 1] = n
    BY <1>1, <1>3, <2>1
  <2>3. \A i \in 1..Len(s) : v[i] = w[i]
    BY <1>1, <1>2, <1>3, <2>1
  <2> QED
    BY <2>2, <2>3
<1>5. n \in Nat
  BY NumberOf
<1>6. Len(w) = Len(s) /\ Len(v) = Len(s) + 1
  BY <1>1, <1>2, <1>3
<1>7. v = Append(w, n)
  <2>1. /\ Append(w, n) \in Seq(Nat) /\ Len(Append(w, n)) = Len(s) + 1
        /\ \A i \in 1..Len(s) : Append(w, n)[i] = w[i]
        /\ Append(w, n)[Len(s) + 1] = n
    BY <1>1, <1>2, <1>5, <1>6
  <2>2. \A i \in 1..Len(v) : v[i] = Append(w, n)[i]
    BY <1>1, <1>4, <1>6, <2>1
  <2> QED
    BY <1>3, <1>6, <2>1, <2>2, SameNumbers
<1>8. /\ Els(v) = Els(w) \cup One(n)
      /\ Increasing(w) /\ Before(Els(w), One(n)) => Increasing(v)
  BY <1>2, <1>5, <1>7, ElsAppend
<1> QED
  BY <1>8 DEF w, v

(* The reader takes the oldest message.                                    *)
LEMMA WireTaken ==
  ASSUME TypeInv, toHost # <<>>, toHost' = Tail(toHost),
         NEW n, n = IF Head(toHost).type = "event" THEN Head(toHost).id ELSE 0
  PROVE  /\ Els(Wire) = One(n) \cup Els(Wire')
         /\ Increasing(Wire) => Increasing(Wire') /\ Before(One(n), Els(Wire'))
BY NumbersTail DEF Wire, TypeInv, TypeOK, WireOK

(* The phone sends a message.                                              *)
LEMMA WireSent ==
  ASSUME TypeInv, NEW m \in Upward, toHost' = Append(toHost, m),
         NEW n, n = IF m.type = "event" THEN m.id ELSE 0
  PROVE  /\ Els(Wire') = Els(Wire) \cup One(n)
         /\ Increasing(Wire) /\ Before(Els(Wire), One(n)) => Increasing(Wire')
BY NumbersAppend DEF Wire, TypeInv, TypeOK, WireOK

WireOrder == Increasing(Wire) /\ Els(Wire) \subseteq Sent

(* The phone only adds to what it has sent.                                *)
Grows ==
    /\ Sent \subseteq Sent' /\ \A n \in Sent : sent'[n] = sent[n]
    /\ \A n \in Els(Wire') : n \in Els(Wire) \/ \A m \in Sent : m < n

LEMMA OnlyPhoneSends ==
  ASSUME Read \/ HandleEvent \/ HandleInput \/ PhoneAnswers \/ Kept
         \/ \E w \in Writer : Write(w)
  PROVE  sent' = sent
<1>1. ASSUME NEW w \in Writer, Write(w)
      PROVE  sent' = sent
  BY <1>1 DEF Write, Lock, WriteDone, Unlock, WriteFails, phoneVars
<1>2. CASE Read \/ PhoneAnswers \/ Kept
  BY <1>2 DEF Read, ReadAnswer, ReadInput, ReadEvent, ReadFails, PhoneAnswers, Kept, phoneVars
<1>3. CASE HandleEvent \/ HandleInput
  BY <1>3 DEF HandleEvent, EventTaken, UnpairTaken, StatusTaken, EventsStop, EventApplied,
     HandleInput, InputTaken, Coalesce, InputsStop, InputApplied, InputStep, phoneVars
<1> QED
  BY <1>1, <1>2, <1>3

LEMMA WireOrderStep ==
  ASSUME TypeInv, WireOrder, [Next]_vars
  PROVE  WireOrder' /\ Grows
<1>1. CASE UNCHANGED <<sent, toHost>>
  BY <1>1 DEF WireOrder, Grows, Wire, Sent
<1>2. CASE Kept \/ HandleEvent \/ HandleInput
           \/ \E w \in {"reader", "inputs", "events"} : Write(w)
  <2>1. toHost' = toHost
    BY <1>2 DEF Kept, Write, Lock, WriteDone, Unlock, WriteFails,
       HandleEvent, EventTaken, UnpairTaken, StatusTaken, EventsStop, EventApplied,
       HandleInput, InputTaken, Coalesce, InputsStop, InputApplied, InputStep, phoneVars
  <2> QED
    BY <1>1, <1>2, <2>1, OnlyPhoneSends, Distinct
<1>3. CASE Read
  <2>1. CASE ReadFails
    BY <1>1, <2>1 DEF ReadFails, phoneVars
  <2>2. CASE ~ReadFails
    <3>1. sent' = sent /\ toHost # <<>> /\ toHost' = Tail(toHost)
      BY <1>3, <2>2, OnlyPhoneSends DEF Read, ReadAnswer, ReadInput, ReadEvent, Reads
    <3>2. Increasing(Wire') /\ Els(Wire') \subseteq Els(Wire)
      BY <3>1, WireTaken DEF WireOrder
    <3> QED
      BY <3>1, <3>2 DEF WireOrder, Grows, Sent
  <2> QED
    BY <2>1, <2>2
<1>4. CASE PhoneAnswers
  <2> DEFINE m == [type |-> "answer", id |-> phoneTx]
  <2>1. phoneTx \in Tx
    BY <1>4 DEF PhoneAnswers, TypeInv, TypeOK, PhoneOK
  <2>2. m \in Upward /\ m.type # "event"
    BY <2>1, UpwardKinds
  <2>3. toHost' = Append(toHost, m) /\ sent' = sent
    BY <1>4, OnlyPhoneSends DEF PhoneAnswers
  <2> HIDE DEF m
  <2>4. /\ Els(Wire') = Els(Wire) \cup One(0)
        /\ Increasing(Wire) /\ Before(Els(Wire), One(0)) => Increasing(Wire')
    BY <2>2, <2>3, WireSent
  <2>5. One(0) = {}
    BY DEF One
  <2> QED
    BY <2>3, <2>4, <2>5 DEF WireOrder, Grows, Before, Sent
<1>5. ASSUME NEW k \in Kind, PhoneStarts(k)
      PROVE  WireOrder' /\ Grows
  <2> DEFINE n == Len(sent) + 1
             m == [type |-> "event", id |-> n]
  <2>1. sent \in Seq(Kind) /\ Len(sent) < MaxEvents
    BY <1>5 DEF PhoneStarts, TypeInv, TypeOK, WireOK
  <2>2. n \in Event /\ n # 0 /\ m \in Upward
    BY <2>1, Numbers, UpwardKinds DEF Event
  <2>3. /\ Sent = 1..Len(sent) /\ Sent' = 1..n
        /\ \A i \in Sent : sent'[i] = sent[i] /\ i < n
    BY <1>5, <2>1 DEF PhoneStarts, Sent
  <2>4. toHost' = Append(toHost, m) /\ m.type = "event" /\ m.id = n
    BY <1>5 DEF PhoneStarts
  <2> HIDE DEF m, n
  <2>5. /\ Els(Wire') = Els(Wire) \cup One(n)
        /\ Increasing(Wire) /\ Before(Els(Wire), One(n)) => Increasing(Wire')
    BY <2>2, <2>4, WireSent
  <2>6. Before(Els(Wire), One(n))
    BY <2>3 DEF WireOrder, Before, One
  <2>7. Sent \subseteq Sent' /\ n \in Sent'
    BY <2>1, <2>3 DEF n
  <2> QED
    BY <2>3, <2>5, <2>6, <2>7 DEF WireOrder, Grows, One
<1> QED
  BY <1>2, <1>3, <1>4, <1>5, Others
-----------------------------------------------------------------------------
(* The order in which the workers take the messages.                       *)

InputOrder ==
    /\ Increasing(inputQueue) /\ Increasing(inputJobs)
    /\ \A n \in InputStages : n \in Sent /\ IsInput(n)
    /\ Before(Els(inputJobs), One(inputNext) \cup Els(inputQueue))
    /\ Before(One(inputNext), Els(inputQueue))
    /\ Before(InputStages, Els(Wire))

EventOrder ==
    /\ Increasing(eventQueue)
    /\ \A n \in EventStages : n \in Sent /\ ~IsInput(n)
    /\ Before(One(eventJob), Els(eventQueue))
    /\ Before(EventStages, Els(Wire))

(* A step that adds nothing to the stages of the inputs.                   *)
LEMMA InputsKept ==
  ASSUME InputOrder, Grows, UNCHANGED <<inputQueue, inputJobs, inputNext>>
  PROVE  InputOrder'
<1>1. InputStages' = InputStages
  BY DEF InputStages
<1>2. Before(InputStages, Els(Wire'))
  BY DEF InputOrder, Grows, Before
<1>3. \A n \in InputStages : n \in Sent' /\ sent'[n] \in {"move", "key"}
  BY DEF InputOrder, Grows, IsInput
<1> QED
  BY <1>1, <1>2, <1>3 DEF InputOrder, IsInput

LEMMA EventsKept ==
  ASSUME EventOrder, Grows, UNCHANGED <<eventQueue, eventJob>>
  PROVE  EventOrder'
<1>1. EventStages' = EventStages
  BY DEF EventStages
<1>2. Before(EventStages, Els(Wire'))
  BY DEF EventOrder, Grows, Before
<1>3. \A n \in EventStages : n \in Sent' /\ sent'[n] \notin {"move", "key"}
  BY DEF EventOrder, Grows, IsInput
<1> QED
  BY <1>1, <1>2, <1>3 DEF EventOrder, IsInput

(* The stages of the inputs change in four places.                         *)
InputsMove ==
    \/ AfterInputAck /\ pc["inputs"] \in {"write", "sent"} /\ inputJobs # <<>>
                     /\ UNCHANGED <<inputQueue, inputNext, toHost, sent>>
    \/ ReadInput \/ InputTaken \/ Coalesce

LEMMA InputSteps ==
  ASSUME TypeInv, [Next]_vars
  PROVE  UNCHANGED <<inputQueue, inputJobs, inputNext>> \/ InputsMove
<1> DEFINE Stay == UNCHANGED <<inputQueue, inputJobs, inputNext>>
<1>1. CASE Kept
  BY <1>1 DEF Kept, inputVars
<1>2. ASSUME NEW w \in {"reader", "inputs", "events"}, Write(w)
      PROVE  Stay \/ InputsMove
  <2>1. CASE Lock(w) \/ WriteDone(w)
    BY <2>1 DEF Lock, WriteDone, workVars, inputVars
  <2>2. CASE Unlock(w) \/ WriteFails(w)
    <3>1. /\ UNCHANGED <<inputQueue, inputNext, toHost, sent>>
          /\ pc[w] \in {"write", "sent"}
      BY <2>2 DEF Unlock, WriteFails, phoneVars
    <3>2. PICK ok \in BOOLEAN : AfterWrite(w, ok)
      BY <2>2 DEF Unlock, WriteFails
    <3>3. CASE UNCHANGED inputJobs
      BY <3>1, <3>3
    <3>4. CASE w = "inputs" /\ AfterInputAck
      BY <3>1, <3>4 DEF InputsMove, TypeInv, InHand, Writing
    <3> QED
      BY <3>2, <3>3, <3>4 DEF AfterWrite
  <2> QED
    BY <1>2, <2>1, <2>2 DEF Write
<1>3. CASE Read
  BY <1>3 DEF Read, ReadAnswer, ReadEvent, ReadFails, InputsMove, workVars, inputVars
<1>4. CASE HandleEvent \/ PhoneAnswers \/ \E k \in Kind : PhoneStarts(k)
  BY <1>4 DEF HandleEvent, EventTaken, UnpairTaken, StatusTaken, EventsStop, EventApplied,
     PhoneAnswers, PhoneStarts, workVars, inputVars
<1>5. CASE HandleInput
  BY <1>5 DEF HandleInput, InputsStop, InputApplied, InputsMove, inputVars
<1> QED
  BY <1>1, <1>2, <1>3, <1>4, <1>5, Others

(* Movements are coalesced while no other event waits behind them.         *)
Drained == pc["inputs"] = "drain" => inputNext = 0

LEMMA DrainedStep ==
  ASSUME TypeInv, Drained, [Next]_vars
  PROVE  Drained'
<1>1. "inputs" \in Writer
  BY Distinct
<1>2. CASE UNCHANGED inputNext /\ (pc'["inputs"] = "drain" => pc["inputs"] = "drain")
  BY <1>2 DEF Drained
<1>3. CASE InputTaken
  BY <1>3 DEF InputTaken, Drained
<1>4. CASE Coalesce
  BY <1>1, <1>4, GoesTo DEF Coalesce, Drained
<1>5. CASE InputsStop \/ \E ok \in BOOLEAN : InputApplied(ok)
  BY <1>1, <1>2, <1>5, GoesTo DEF InputsStop, InputApplied, inputVars
<1>6. CASE Write("inputs")
  <2>1. CASE Lock("inputs") \/ WriteDone("inputs")
    BY <1>1, <1>2, <2>1, GoesTo DEF Lock, WriteDone, workVars, inputVars
  <2>2. CASE Unlock("inputs") \/ WriteFails("inputs")
    <3>1. AfterInputAck /\ UNCHANGED inputNext
      BY <2>2, Distinct DEF Unlock, WriteFails, AfterWrite
    <3>2. pc'["inputs"] \in {"lock", "idle"}
      BY <1>1, <3>1, GoesTo DEF AfterInputAck
    <3> QED
      BY <1>2, <3>1, <3>2
  <2> QED
    BY <1>6, <2>1, <2>2 DEF Write
<1> QED
  BY <1>2, <1>3, <1>4, <1>5, <1>6, InputsAlone, Others DEF HandleInput

(* The message the reader has taken.                                       *)
LEMMA ReadOne ==
  ASSUME TypeInv, WireOrder, Reads, toHost' = Tail(toHost), NEW n,
         n = Head(toHost).id, Head(toHost).type = "event"
  PROVE  /\ n \in Event /\ n # 0 /\ n \in Sent /\ n \in Els(Wire)
         /\ Els(Wire) = {n} \cup Els(Wire') /\ Before({n}, Els(Wire'))
<1>1. n \in Event /\ n # 0
  BY HeadOfWire, SequencesOfNumbers
<1>2. /\ Els(Wire) = One(n) \cup Els(Wire')
      /\ Before(One(n), Els(Wire'))
  BY WireTaken DEF WireOrder, Reads
<1>3. One(n) = {n}
  BY <1>1 DEF One
<1> QED
  BY <1>1, <1>2, <1>3 DEF WireOrder

LEMMA InputOrderStep ==
  ASSUME TypeInv, WireOrder, InputOrder, Drained, [Next]_vars
  PROVE  InputOrder'
<1> USE SequencesOfNumbers
<1>1. Grows
  BY WireOrderStep
<1>2. CASE UNCHANGED <<inputQueue, inputJobs, inputNext>>
  BY <1>1, <1>2, InputsKept
<1>3. ASSUME UNCHANGED sent,
             Increasing(inputQueue'), Increasing(inputJobs'),
             \A n \in InputStages' : n \in InputStages,
             Before(Els(inputJobs'), One(inputNext') \cup Els(inputQueue')),
             Before(One(inputNext'), Els(inputQueue'))
      PROVE  InputOrder'
  <2>1. \A n \in InputStages : \A m \in Els(Wire') : n < m
    BY <1>1 DEF Grows, InputOrder, Before
  <2> QED
    BY <1>3, <2>1 DEF InputOrder, Before, Sent, IsInput
<1>4. CASE AfterInputAck /\ inputJobs # <<>> /\ UNCHANGED <<inputQueue, inputNext, sent>>
  <2>1. /\ Els(inputJobs) = One(Head(inputJobs)) \cup Els(inputJobs')
        /\ Increasing(inputJobs')
    BY <1>4, ElsTail DEF InputOrder, AfterInputAck
  <2> QED
    BY <1>3, <1>4, <2>1 DEF InputStages, InputOrder, Before
<1>5. CASE ReadInput
  <2> DEFINE n == Head(toHost).id
  <2>1. /\ n \in Event /\ n # 0 /\ n \in Sent /\ n \in Els(Wire)
        /\ Els(Wire) = {n} \cup Els(Wire') /\ Before({n}, Els(Wire'))
    BY <1>5, ReadOne DEF ReadInput
  <2>2. IsInput(n) /\ UNCHANGED <<sent, inputJobs, inputNext>>
    BY <1>5 DEF ReadInput
  <2>3. inputQueue' = inputQueue \/ inputQueue' = Append(inputQueue, n)
    BY <1>5 DEF ReadInput
  <2> HIDE DEF n
  <2>4. Before(InputStages, {n})
    BY <2>1 DEF InputOrder, Before
  <2>5. CASE inputQueue' = Append(inputQueue, n)
    <3>1. /\ Els(inputQueue') = Els(inputQueue) \cup {n}
          /\ Before(Els(inputQueue), {n}) => Increasing(inputQueue')
      <4>1. One(n) = {n} /\ n \in Nat
        BY <2>1 DEF One
      <4> QED
        BY <2>5, <4>1, ElsAppend DEF InputOrder
    <3>2. InputStages' = InputStages \cup {n} /\ Increasing(inputQueue')
      BY <2>2, <2>4, <3>1 DEF InputStages, Before
    <3>3. \A i \in InputStages' : i \in Sent' /\ sent'[i] \in {"move", "key"}
      BY <2>1, <2>2, <3>2 DEF InputOrder, Sent, IsInput
    <3>4. Before(InputStages', Els(Wire'))
      BY <2>1, <3>2 DEF InputOrder, Before
    <3>5. /\ Before(Els(inputJobs'), One(inputNext') \cup Els(inputQueue'))
          /\ Before(One(inputNext'), Els(inputQueue'))
      BY <2>2, <2>4, <3>1 DEF InputStages, InputOrder, Before
    <3> QED
      BY <2>2, <3>2, <3>3, <3>4, <3>5 DEF InputOrder, IsInput
  <2> QED
    BY <1>2, <2>2, <2>3, <2>5
<1>6. ASSUME inputQueue # <<>>
      PROVE  /\ Els(inputQueue) = One(Head(inputQueue)) \cup Els(Tail(inputQueue))
             /\ Increasing(Tail(inputQueue)) /\ Head(inputQueue) \in Nat
             /\ Before(One(Head(inputQueue)), Els(Tail(inputQueue)))
  BY <1>6, ElsTail, SeqTail DEF InputOrder
<1>7. CASE InputTaken
  <2>1. inputJobs = <<>> /\ Els(inputJobs) = {}
    BY <1>7 DEF InputTaken, TypeInv, InHand, Writing, Els
  <2>2. UNCHANGED sent
    BY <1>7 DEF InputTaken, InputStep, phoneVars
  <2>3. CASE inputNext # 0 /\ Begin(inputNext) /\ inputNext' = 0 /\ UNCHANGED inputQueue
    <3>1. Els(inputJobs') = One(inputNext) /\ Increasing(inputJobs') /\ One(inputNext') = {}
      BY <2>3, ElsOne DEF Begin, One
    <3> QED
      BY <1>3, <2>1, <2>2, <2>3, <3>1 DEF InputStages, InputOrder, Before
  <2>4. CASE /\ inputNext = 0 /\ inputQueue # <<>>
             /\ Begin(Head(inputQueue)) /\ inputQueue' = Tail(inputQueue)
             /\ UNCHANGED inputNext
    <3>1. /\ Els(inputJobs') = One(Head(inputQueue)) /\ Increasing(inputJobs')
          /\ One(inputNext) = {}
      BY <1>6, <2>4, ElsOne DEF Begin, One
    <3> QED
      BY <1>3, <1>6, <2>1, <2>2, <2>4, <3>1 DEF InputStages, InputOrder, Before
  <2> QED
    BY <1>7, <2>3, <2>4 DEF InputTaken
<1>8. CASE Coalesce
  <2>1. UNCHANGED sent
    BY <1>8 DEF Coalesce, InputStep, phoneVars
  <2>2. One(inputNext) = {}
    BY <1>8 DEF Coalesce, Drained, One
  <2>3. CASE UNCHANGED <<inputQueue, inputJobs, inputNext>>
    BY <1>2, <2>3
  <2>4. CASE /\ inputQueue # <<>> /\ inputJobs' = Append(inputJobs, Head(inputQueue))
             /\ inputQueue' = Tail(inputQueue) /\ UNCHANGED inputNext
    <3>1. Before(Els(inputJobs), One(Head(inputQueue)))
      BY <1>6, <2>4 DEF InputOrder, Before
    <3>2. /\ Els(inputJobs') = Els(inputJobs) \cup One(Head(inputQueue))
          /\ Increasing(inputJobs')
      BY <1>6, <2>4, <3>1, ElsAppend DEF InputOrder
    <3>3. Before(Els(inputJobs'), Els(inputQueue'))
      BY <1>6, <2>4, <3>2 DEF InputOrder, Before
    <3>4. \A n \in InputStages' : n \in InputStages
      BY <1>6, <2>4, <3>2 DEF InputStages
    <3> QED
      BY <1>3, <1>6, <2>1, <2>2, <2>4, <3>2, <3>3, <3>4 DEF Before
  <2>5. CASE /\ inputQueue # <<>> /\ inputNext' = Head(inputQueue)
             /\ inputQueue' = Tail(inputQueue) /\ UNCHANGED inputJobs
    <3>1. Before(Els(inputJobs'), One(inputNext') \cup Els(inputQueue'))
      BY <1>6, <2>5 DEF InputOrder, Before
    <3>2. \A n \in InputStages' : n \in InputStages
      BY <1>6, <2>5 DEF InputStages
    <3> QED
      BY <1>3, <1>6, <2>1, <2>5, <3>1, <3>2 DEF InputOrder
  <2> QED
    BY <1>8, <2>3, <2>4, <2>5 DEF Coalesce
<1> QED
  BY <1>2, <1>4, <1>5, <1>7, <1>8, InputSteps, OnlyPhoneSends DEF InputsMove

(* The stages of the other messages change in five.                        *)
EventsMove ==
    \/ AfterEventAck /\ pc["events"] \in {"write", "sent"}
                     /\ UNCHANGED <<eventQueue, toHost, sent>>
    \/ ReadAnswer \/ ReadEvent \/ EventTaken \/ StatusTaken

LEMMA EventSteps ==
  ASSUME TypeInv, [Next]_vars
  PROVE  UNCHANGED <<eventQueue, eventJob>> \/ EventsMove
<1> DEFINE Stay == UNCHANGED <<eventQueue, eventJob>>
<1>1. CASE Kept
  BY <1>1 DEF Kept, eventVars
<1>2. ASSUME NEW w \in {"reader", "inputs", "events"}, Write(w)
      PROVE  Stay \/ EventsMove
  <2>1. CASE Lock(w) \/ WriteDone(w)
    BY <2>1 DEF Lock, WriteDone, workVars, eventVars
  <2>2. CASE Unlock(w) \/ WriteFails(w)
    <3>1. /\ UNCHANGED <<eventQueue, toHost, sent>>
          /\ pc[w] \in {"write", "sent"}
      BY <2>2 DEF Unlock, WriteFails, phoneVars
    <3>2. PICK ok \in BOOLEAN : AfterWrite(w, ok)
      BY <2>2 DEF Unlock, WriteFails
    <3>3. CASE UNCHANGED eventJob
      BY <3>1, <3>3
    <3>4. CASE w = "events" /\ AfterEventAck
      BY <3>1, <3>4 DEF EventsMove
    <3> QED
      BY <3>2, <3>3, <3>4 DEF AfterWrite
  <2> QED
    BY <1>2, <2>1, <2>2 DEF Write
<1>3. CASE Read
  BY <1>3 DEF Read, ReadInput, ReadFails, EventsMove, workVars, eventVars
<1>4. CASE HandleInput \/ PhoneAnswers \/ \E k \in Kind : PhoneStarts(k)
  BY <1>4 DEF HandleInput, InputTaken, Coalesce, InputsStop, InputApplied, InputStep,
     PhoneAnswers, PhoneStarts, workVars, eventVars
<1>5. CASE HandleEvent
  BY <1>5 DEF HandleEvent, UnpairTaken, EventsStop, EventApplied, EventsMove, workVars,
     eventVars
<1> QED
  BY <1>1, <1>2, <1>3, <1>4, <1>5, Others

LEMMA EventOrderStep ==
  ASSUME TypeInv, WireOrder, EventOrder, [Next]_vars
  PROVE  EventOrder'
<1> USE SequencesOfNumbers
<1>1. Grows
  BY WireOrderStep
<1>2. CASE UNCHANGED <<eventQueue, eventJob>>
  BY <1>1, <1>2, EventsKept
<1>3. ASSUME UNCHANGED sent, Increasing(eventQueue'),
             \A n \in EventStages' : n \in EventStages,
             Before(One(eventJob'), Els(eventQueue'))
      PROVE  EventOrder'
  <2>1. \A n \in EventStages : \A m \in Els(Wire') : n < m
    BY <1>1 DEF Grows, EventOrder, Before
  <2> QED
    BY <1>3, <2>1 DEF EventOrder, Before, Sent, IsInput
<1>4. CASE eventJob' = 0 /\ UNCHANGED <<eventQueue, sent>>
  BY <1>3, <1>4 DEF EventStages, EventOrder, Before, One
<1>5. CASE EventTaken
  <2>1. UNCHANGED sent /\ eventQueue # <<>> /\ eventQueue' = Tail(eventQueue)
    BY <1>5 DEF EventTaken, phoneVars
  <2>2. /\ Els(eventQueue) = One(Head(eventQueue)) \cup Els(eventQueue')
        /\ Increasing(eventQueue')
        /\ Before(One(Head(eventQueue)), Els(eventQueue'))
    BY <2>1, ElsTail DEF EventOrder
  <2>3. eventJob = 0
    BY <1>5 DEF EventTaken, TypeInv, InHand, Writing
  <2>4. One(eventJob') = {} \/ One(eventJob') = One(Head(eventQueue))
    BY <1>5, <2>3 DEF EventTaken, One
  <2> QED
    BY <1>3, <2>1, <2>2, <2>4 DEF EventStages, EventOrder, Before
<1>6. CASE ReadAnswer
  <2>1. UNCHANGED <<sent, eventJob>>
    BY <1>6 DEF ReadAnswer
  <2>2. CASE eventQueue' = Append(eventQueue, 0)
    <3>1. One(0) = {}
      BY DEF One
    <3>2. Els(eventQueue') = Els(eventQueue) /\ Increasing(eventQueue')
      BY <2>2, <3>1, ElsAppend DEF EventOrder, Before
    <3> QED
      BY <1>3, <2>1, <3>2 DEF EventStages, EventOrder, Before
  <2> QED
    BY <1>2, <1>6, <2>1, <2>2 DEF ReadAnswer
<1>7. CASE ReadEvent
  <2> DEFINE n == Head(toHost).id
  <2>1. /\ n \in Event /\ n # 0 /\ n \in Sent /\ n \in Els(Wire)
        /\ Els(Wire) = {n} \cup Els(Wire') /\ Before({n}, Els(Wire'))
    BY <1>7, ReadOne DEF ReadEvent
  <2>2. ~IsInput(n) /\ UNCHANGED <<sent, eventJob>>
    BY <1>7 DEF ReadEvent
  <2>3. eventQueue' = eventQueue \/ eventQueue' = Append(eventQueue, n)
    BY <1>7 DEF ReadEvent
  <2> HIDE DEF n
  <2>4. Before(EventStages, {n})
    BY <2>1 DEF EventOrder, Before
  <2>5. CASE eventQueue' = Append(eventQueue, n)
    <3>1. /\ Els(eventQueue') = Els(eventQueue) \cup {n}
          /\ Before(Els(eventQueue), {n}) => Increasing(eventQueue')
      <4>1. One(n) = {n} /\ n \in Nat
        BY <2>1 DEF One
      <4> QED
        BY <2>5, <4>1, ElsAppend DEF EventOrder
    <3>2. EventStages' = EventStages \cup {n} /\ Increasing(eventQueue')
      BY <2>2, <2>4, <3>1 DEF EventStages, Before
    <3>3. \A i \in EventStages' : i \in Sent' /\ sent'[i] \notin {"move", "key"}
      BY <2>1, <2>2, <3>2 DEF EventOrder, Sent, IsInput
    <3>4. Before(EventStages', Els(Wire'))
      BY <2>1, <3>2 DEF EventOrder, Before
    <3>5. Before(One(eventJob'), Els(eventQueue'))
      BY <2>2, <2>4, <3>1 DEF EventStages, EventOrder, Before
    <3> QED
      BY <2>2, <3>2, <3>3, <3>4, <3>5 DEF EventOrder, IsInput
  <2> QED
    BY <1>2, <2>2, <2>3, <2>5
<1>8. CASE StatusTaken
  BY <1>4, <1>8 DEF StatusTaken, phoneVars
<1> QED
  BY <1>2, <1>4, <1>5, <1>6, <1>7, <1>8, EventSteps DEF EventsMove, AfterEventAck
-----------------------------------------------------------------------------
(* What the host has acted on.                                             *)

Order == TypeInv /\ WireOrder /\ InputOrder /\ Drained /\ EventOrder

LEMMA OrderStep ==
  ASSUME Order, [Next]_vars
  PROVE  Order'
BY TypeStep, WireOrderStep, InputOrderStep, DrainedStep, EventOrderStep DEF Order

LEMMA InitOrder == Init => Order
<1> SUFFICES ASSUME Init
             PROVE  Order
  OBVIOUS
<1>1. TypeInv
  BY InitInHand
<1>2. /\ toHost = <<>> /\ inputQueue = <<>> /\ inputJobs = <<>> /\ eventQueue = <<>>
      /\ inputNext = 0 /\ eventJob = 0
  BY DEF Init
<1>3. Wire = <<>>
  BY <1>2 DEF Wire, NumbersIn
<1>4. Els(<<>>) = {} /\ Increasing(<<>>) /\ One(0) = {}
  BY DEF Els, Increasing, One
<1>5. InputStages = {} /\ EventStages = {}
  BY <1>2, <1>4 DEF InputStages, EventStages
<1> QED
  BY <1>1, <1>2, <1>3, <1>4, <1>5
  DEF Order, WireOrder, InputOrder, EventOrder, Drained, Before

(* The messages each worker has taken or will take, and not acted on yet.  *)
UnappliedInputs ==
    (IF pc["inputs"] \in {"drain", "apply"} THEN Els(inputJobs) ELSE {})
    \cup One(inputNext) \cup Els(inputQueue)
EventDone == pc["events"] \in Writing /\ sent[eventJob] # "unpair"
UnappliedEvents == (IF EventDone THEN {} ELSE One(eventJob)) \cup Els(eventQueue)

AppliedInv ==
    /\ applied \subseteq Sent
    /\ Before(applied, Els(Wire))
    /\ Before({m \in applied : IsInput(m)}, UnappliedInputs)
    /\ Before({m \in applied : ~IsInput(m)}, UnappliedEvents)

(* A worker only takes what has come over the wire.                        *)
LEMMA InputsComeByWire ==
  ASSUME Order, [Next]_vars
  PROVE  /\ \A n \in UnappliedInputs' : n \in UnappliedInputs \/ n \in Els(Wire)
         /\ (\E ok \in BOOLEAN : InputApplied(ok)) =>
               /\ pc["inputs"] = "apply"
               /\ UnappliedInputs' = One(inputNext) \cup Els(inputQueue)
<1> USE SequencesOfNumbers DEF Order
<1>1. "inputs" \in Writer
  BY Distinct
<1> DEFINE Comes == \A n \in UnappliedInputs' : n \in UnappliedInputs \/ n \in Els(Wire)
<1>2. ASSUME NEW ok \in BOOLEAN, InputApplied(ok)
      PROVE  /\ Comes /\ pc["inputs"] = "apply"
             /\ UnappliedInputs' = One(inputNext) \cup Els(inputQueue)
  <2>1. pc["inputs"] = "apply" /\ pc'["inputs"] = "lock"
    BY <1>1, <1>2, GoesTo DEF InputApplied
  <2>2. UNCHANGED <<inputQueue, inputNext, inputJobs>>
    BY <1>2 DEF InputApplied
  <2> QED
    BY <2>1, <2>2 DEF UnappliedInputs
<1> SUFFICES Comes
  BY <1>2
<1>3. CASE pc'["inputs"] = pc["inputs"] /\ UNCHANGED <<inputJobs, inputNext, inputQueue>>
  BY <1>3 DEF UnappliedInputs
<1>4. CASE ReadInput
  <2> DEFINE n == Head(toHost).id
  <2>1. n \in Event /\ n # 0 /\ n \in Els(Wire)
    BY <1>4, ReadOne DEF ReadInput
  <2>2. inputQueue' = inputQueue \/ inputQueue' = Append(inputQueue, n)
    BY <1>4 DEF ReadInput
  <2>3. pc'["inputs"] = pc["inputs"] /\ UNCHANGED <<inputJobs, inputNext>>
    BY <1>4, InputsAlone DEF Read
  <2> HIDE DEF n
  <2>4. CASE inputQueue' = Append(inputQueue, n)
    <3>1. Els(inputQueue') = Els(inputQueue) \cup One(n)
      BY <2>1, <2>4, ElsAppend
    <3> QED
      BY <2>1, <2>3, <3>1 DEF UnappliedInputs, One
  <2> QED
    BY <1>3, <2>2, <2>3, <2>4
<1>5. inputQueue # <<>> =>
        /\ Els(inputQueue) = One(Head(inputQueue)) \cup Els(Tail(inputQueue))
        /\ Head(inputQueue) \in Nat
  BY ElsTail, SeqTail
<1>6. CASE InputTaken
  <2>1. pc["inputs"] = "idle"
    BY <1>6 DEF InputTaken
  <2>2. \A m \in UnappliedInputs' : m \in Els(inputJobs') \cup One(inputNext') \cup Els(inputQueue')
    BY DEF UnappliedInputs
  <2>3. CASE Begin(inputNext) /\ inputNext' = 0 /\ UNCHANGED inputQueue
    <3>1. Els(inputJobs') = One(inputNext) /\ One(inputNext') = {}
      BY <2>3, ElsOne DEF Begin, One
    <3> QED
      BY <2>2, <2>3, <3>1 DEF UnappliedInputs
  <2>4. CASE /\ inputQueue # <<>> /\ Begin(Head(inputQueue))
             /\ inputQueue' = Tail(inputQueue) /\ UNCHANGED inputNext
    <3>1. Els(inputJobs') = One(Head(inputQueue))
      BY <1>5, <2>4, ElsOne DEF Begin
    <3> QED
      BY <1>5, <2>2, <2>4, <3>1 DEF UnappliedInputs
  <2> QED
    BY <1>6, <2>3, <2>4 DEF InputTaken
<1>7. CASE Coalesce
  <2>1. pc["inputs"] = "drain" /\ pc'["inputs"] \in {"drain", "apply"}
    BY <1>1, <1>7, GoesTo DEF Coalesce
  <2>2. /\ UnappliedInputs = Els(inputJobs) \cup One(inputNext) \cup Els(inputQueue)
        /\ UnappliedInputs' = Els(inputJobs') \cup One(inputNext') \cup Els(inputQueue')
    BY <2>1 DEF UnappliedInputs
  <2>3. CASE UNCHANGED <<inputQueue, inputJobs, inputNext>>
    BY <2>2, <2>3
  <2>4. CASE /\ inputQueue # <<>> /\ inputJobs' = Append(inputJobs, Head(inputQueue))
             /\ inputQueue' = Tail(inputQueue) /\ UNCHANGED inputNext
    <3>1. Els(inputJobs') = Els(inputJobs) \cup One(Head(inputQueue))
      BY <1>5, <2>4, ElsAppend
    <3> QED
      BY <1>5, <2>2, <2>4, <3>1
  <2>5. CASE /\ inputQueue # <<>> /\ inputNext' = Head(inputQueue)
             /\ inputQueue' = Tail(inputQueue) /\ UNCHANGED inputJobs
    BY <1>5, <2>2, <2>5
  <2> QED
    BY <1>7, <2>3, <2>4, <2>5 DEF Coalesce
<1>8. CASE InputsStop
  BY <1>1, <1>8, GoesTo DEF InputsStop, UnappliedInputs, inputVars
<1>9. CASE Write("inputs")
  <2>1. UNCHANGED <<inputNext, inputQueue>>
    BY <1>9 DEF Write, Lock, WriteDone, Unlock, WriteFails, workVars, inputVars
  <2>2. pc'["inputs"] \in {"write", "sent", "lock", "idle"}
    <3>1. CASE Lock("inputs") \/ WriteDone("inputs")
      BY <1>1, <3>1, GoesTo DEF Lock, WriteDone
    <3>2. CASE Unlock("inputs") \/ WriteFails("inputs")
      <4>1. AfterInputAck
        BY <3>2, Distinct DEF Unlock, WriteFails, AfterWrite
      <4> QED
        BY <1>1, <4>1, GoesTo DEF AfterInputAck
    <3> QED
      BY <1>9, <3>1, <3>2 DEF Write
  <2> QED
    BY <2>1, <2>2 DEF UnappliedInputs
<1>10. CASE \/ Kept \/ Write("reader") \/ Write("events") \/ HandleEvent
            \/ ReadAnswer \/ ReadEvent \/ ReadFails
            \/ PhoneAnswers \/ \E k \in Kind : PhoneStarts(k)
  <2>1. pc'["inputs"] = pc["inputs"] /\ UNCHANGED <<inputJobs, inputNext>>
    BY <1>10, InputsAlone DEF Read
  <2>2. UNCHANGED inputQueue
    BY <1>10 DEF Kept, Write, Lock, WriteDone, Unlock, WriteFails, HandleEvent, EventTaken,
       UnpairTaken, StatusTaken, EventsStop, EventApplied, ReadAnswer, ReadEvent, ReadFails,
       PhoneAnswers, PhoneStarts, workVars, inputVars
  <2> QED
    BY <1>3, <2>1, <2>2
<1> QED
  BY <1>2, <1>4, <1>6, <1>7, <1>8, <1>9, <1>10, Others DEF HandleInput, Read

(* The host acts on a message that is not an input: as its worker has it.  *)
ActsOnEvent ==
    /\ applied' = applied \cup {eventJob}
    /\ eventJob \in EventStages /\ ~EventDone
    /\ UnappliedEvents' = Els(eventQueue)
    /\ UNCHANGED <<toHost, sent>>

LEMMA EventsComeByWire ==
  ASSUME Order, [Next]_vars
  PROVE  /\ \A n \in UnappliedEvents' : n \in UnappliedEvents \/ n \in Els(Wire)
         /\ \/ applied' = applied
            \/ ActsOnEvent
            \/ \E ok \in BOOLEAN : InputApplied(ok)
<1> USE SequencesOfNumbers DEF Order
<1>1. "events" \in Writer
  BY Distinct
<1> DEFINE Comes == \A n \in UnappliedEvents' : n \in UnappliedEvents \/ n \in Els(Wire)
           Acts == \/ applied' = applied \/ ActsOnEvent
                   \/ \E ok \in BOOLEAN : InputApplied(ok)
<1> SUFFICES Comes /\ Acts
  OBVIOUS
<1>2. ASSUME eventJob' = 0, UNCHANGED eventQueue
      PROVE  UnappliedEvents' = Els(eventQueue) /\ Comes
  BY <1>2 DEF UnappliedEvents, One
<1>3. eventJob # 0 => eventJob \in EventStages
  BY DEF EventStages, One
<1>4. CASE HandleEvent
  <2>1. ASSUME NEW ok \in BOOLEAN, EventApplied(ok)
        PROVE  Comes /\ Acts
    <3>1. /\ pc["events"] = "apply" /\ pc'["events"] = "lock"
          /\ UNCHANGED <<eventQueue, eventJob, toHost, sent>>
          /\ sent[eventJob] # "unpair"
      BY <1>1, <2>1, GoesTo DEF EventApplied, phoneVars
    <3>2. ~EventDone /\ EventDone' /\ eventJob # 0
      BY <3>1 DEF EventDone, Writing, TypeInv, InHand
    <3>3. UnappliedEvents' = Els(eventQueue)
      BY <3>1, <3>2 DEF UnappliedEvents
    <3> QED
      BY <1>3, <2>1, <3>1, <3>2, <3>3 DEF EventApplied, ActsOnEvent, UnappliedEvents
  <2>2. CASE StatusTaken
    <3>1. ~EventDone /\ eventJob # 0
      BY <2>2 DEF StatusTaken, EventDone, Writing, TypeInv, InHand
    <3> QED
      BY <1>2, <1>3, <2>2, <3>1 DEF StatusTaken, ActsOnEvent, phoneVars
  <2>3. CASE UnpairTaken \/ EventsStop
    <3>1. UNCHANGED <<eventQueue, eventJob, sent, applied>>
      BY <2>3 DEF UnpairTaken, EventsStop, workVars, eventVars, phoneVars
    <3>2. EventDone' <=> EventDone
      BY <1>1, <2>3, <3>1, GoesTo DEF UnpairTaken, EventsStop, EventDone, Writing
    <3> QED
      BY <3>1, <3>2 DEF UnappliedEvents
  <2>4. CASE EventTaken
    <3>1. /\ eventQueue # <<>> /\ eventQueue' = Tail(eventQueue) /\ applied' = applied
          /\ pc["events"] = "idle"
      BY <2>4 DEF EventTaken
    <3>2. Els(eventQueue) = One(Head(eventQueue)) \cup Els(eventQueue')
      BY <3>1, ElsTail
    <3>3. eventJob = 0
      BY <3>1 DEF TypeInv, InHand, Writing
    <3>4. One(eventJob') = {} \/ One(eventJob') = One(Head(eventQueue))
      BY <2>4, <3>3 DEF EventTaken, One
    <3> QED
      BY <3>1, <3>2, <3>4 DEF UnappliedEvents
  <2> QED
    BY <1>4, <2>1, <2>2, <2>3, <2>4 DEF HandleEvent
<1>5. CASE Write("events")
  <2>1. UNCHANGED <<sent, eventQueue, toHost>>
    BY <1>5 DEF Write, Lock, WriteDone, Unlock, WriteFails, workVars, eventVars, phoneVars
  <2>2. CASE Lock("events") \/ WriteDone("events")
    <3>1. UNCHANGED <<eventJob, applied>>
      BY <2>2 DEF Lock, WriteDone, workVars, eventVars
    <3>2. EventDone' <=> EventDone
      BY <1>1, <2>1, <2>2, <3>1, GoesTo DEF Lock, WriteDone, EventDone, Writing
    <3> QED
      BY <2>1, <3>1, <3>2 DEF UnappliedEvents
  <2>3. CASE Unlock("events") \/ WriteFails("events")
    <3>1. AfterEventAck /\ pc["events"] \in {"write", "sent"}
      BY <2>3, Distinct DEF Unlock, WriteFails, AfterWrite
    <3>2. eventJob' = 0 /\ UnappliedEvents' = Els(eventQueue) /\ Comes
      BY <1>2, <2>1, <3>1 DEF AfterEventAck
    <3>3. CASE sent[eventJob] = "unpair"
      <4>1. ~EventDone /\ eventJob # 0
        BY <3>1, <3>3 DEF EventDone, TypeInv, InHand, Writing
      <4> QED
        BY <1>3, <2>1, <3>1, <3>2, <3>3, <4>1 DEF AfterEventAck, ActsOnEvent
    <3> QED
      BY <3>1, <3>2, <3>3 DEF AfterEventAck
  <2> QED
    BY <1>5, <2>2, <2>3 DEF Write
<1>6. CASE ReadAnswer \/ ReadEvent
  <2>1. /\ pc'["events"] = pc["events"] /\ UNCHANGED <<eventJob, sent, applied>>
    BY <1>6, EventsAlone DEF Read, ReadAnswer, ReadEvent
  <2>2. EventDone' <=> EventDone
    BY <2>1 DEF EventDone
  <2>3. \A n \in Els(eventQueue') : n \in Els(eventQueue) \/ n \in Els(Wire)
    <3>1. CASE ReadAnswer
      <4>1. eventQueue' = eventQueue \/ eventQueue' = Append(eventQueue, 0)
        BY <3>1 DEF ReadAnswer
      <4>2. One(0) = {}
        BY DEF One
      <4> QED
        BY <4>1, <4>2, ElsAppend
    <3>2. CASE ReadEvent
      <4> DEFINE n == Head(toHost).id
      <4>1. n \in Event /\ n \in Els(Wire)
        BY <3>2, ReadOne DEF ReadEvent
      <4>2. eventQueue' = eventQueue \/ eventQueue' = Append(eventQueue, n)
        BY <3>2 DEF ReadEvent
      <4> HIDE DEF n
      <4>3. n \in Nat /\ \A m \in One(n) : m = n
        BY <4>1 DEF One
      <4>4. Els(Append(eventQueue, n)) = Els(eventQueue) \cup One(n)
        BY <4>3, ElsAppend
      <4> QED
        BY <4>1, <4>2, <4>3, <4>4
    <3> QED
      BY <1>6, <3>1, <3>2
  <2> QED
    BY <2>1, <2>2, <2>3 DEF UnappliedEvents
<1>7. CASE \/ Kept \/ Write("reader") \/ Write("inputs") \/ ReadInput \/ ReadFails
           \/ HandleInput \/ PhoneAnswers
  <2>1. pc'["events"] = pc["events"] /\ UNCHANGED eventJob
    BY <1>7, EventsAlone DEF Read
  <2>2. UNCHANGED <<eventQueue, sent>>
    BY <1>7 DEF Kept, Write, Lock, WriteDone, Unlock, WriteFails, ReadInput, ReadFails,
       HandleInput, InputTaken, Coalesce, InputsStop, InputApplied, InputStep, PhoneAnswers,
       workVars, eventVars, phoneVars
  <2>3. EventDone' <=> EventDone
    BY <2>1, <2>2 DEF EventDone
  <2>4. Acts
    <3>1. ASSUME NEW w \in {"reader", "inputs"}, Write(w)
          PROVE  applied' = applied
      BY <3>1, Distinct DEF Write, Lock, WriteDone, Unlock, WriteFails, AfterWrite, workVars
    <3> QED
      BY <1>7, <3>1 DEF Kept, ReadInput, ReadFails, HandleInput, InputTaken, Coalesce,
         InputsStop, PhoneAnswers, workVars
  <2> QED
    BY <2>1, <2>2, <2>3, <2>4 DEF UnappliedEvents
<1>8. ASSUME NEW k \in Kind, PhoneStarts(k)
      PROVE  Comes /\ Acts
  <2>1. /\ pc'["events"] = pc["events"]
        /\ UNCHANGED <<eventJob, eventQueue, applied>>
    BY <1>8, EventsAlone DEF PhoneStarts, workVars, eventVars
  <2>2. EventDone' <=> EventDone
    <3>1. eventJob # 0 => sent'[eventJob] = sent[eventJob]
      BY <1>3, WireOrderStep DEF Grows, EventOrder
    <3>2. pc["events"] \in Writing => eventJob # 0
      BY DEF TypeInv, InHand
    <3> QED
      BY <2>1, <3>1, <3>2 DEF EventDone
  <2> QED
    BY <2>1, <2>2 DEF UnappliedEvents
<1> QED
  BY <1>4, <1>5, <1>6, <1>7, <1>8, Others DEF Read

(* The number of a message keeps its kind.                                 *)
LEMMA KindKept ==
  ASSUME Grows, NEW n \in Sent
  PROVE  IsInput(n)' <=> IsInput(n)
BY DEF Grows, IsInput

LEMMA AppliedInvStep ==
  ASSUME Order, AppliedInv, [Next]_vars
  PROVE  AppliedInv'
<1>1. Grows
  BY WireOrderStep DEF Order
<1>2. /\ \A n \in UnappliedInputs' : n \in UnappliedInputs \/ n \in Els(Wire)
      /\ \A n \in UnappliedEvents' : n \in UnappliedEvents \/ n \in Els(Wire)
  BY InputsComeByWire, EventsComeByWire
<1>3. \A n \in applied : IsInput(n)' <=> IsInput(n)
  BY <1>1, KindKept DEF AppliedInv
<1>4. \A n \in applied :
        /\ n \in Sent'
        /\ \A m \in Els(Wire') : n < m
        /\ IsInput(n) => \A m \in UnappliedInputs' : n < m
        /\ ~IsInput(n) => \A m \in UnappliedEvents' : n < m
  BY <1>1, <1>2 DEF AppliedInv, Before, Grows
<1>5. ASSUME \A n \in applied' \ applied :
               /\ n \in Sent
               /\ \A m \in Els(Wire') : n < m
               /\ IsInput(n) => \A m \in UnappliedInputs' : n < m
               /\ ~IsInput(n) => \A m \in UnappliedEvents' : n < m
      PROVE  AppliedInv'
  <2>1. \A n \in applied' :
          /\ n \in Sent'
          /\ \A m \in Els(Wire') : n < m
          /\ IsInput(n)' => \A m \in UnappliedInputs' : n < m
          /\ ~IsInput(n)' => \A m \in UnappliedEvents' : n < m
    BY <1>1, <1>3, <1>4, <1>5, KindKept DEF Grows
  <2> QED
    BY <2>1 DEF AppliedInv, Before
<1>6. CASE applied' = applied
  BY <1>5, <1>6
<1>7. CASE ActsOnEvent
  <2>1. /\ eventJob \in Sent /\ ~IsInput(eventJob)
        /\ UnappliedEvents' = Els(eventQueue) /\ UNCHANGED toHost
    BY <1>7 DEF ActsOnEvent, Order, EventOrder
  <2>2. eventJob # 0
    BY <2>1, SequencesOfNumbers DEF Order
  <2>3. \A m \in Els(eventQueue) \cup Els(Wire) : eventJob < m
    BY <2>2 DEF Order, EventOrder, EventStages, Before, One
  <2>4. Wire' = Wire
    BY <2>1 DEF Wire
  <2>5. \A n \in applied' \ applied : n = eventJob
    BY <1>7 DEF ActsOnEvent
  <2> QED
    BY <1>5, <2>1, <2>3, <2>4, <2>5
<1>8. ASSUME NEW ok \in BOOLEAN, InputApplied(ok)
      PROVE  AppliedInv'
  <2>1. UnappliedInputs' = One(inputNext) \cup Els(inputQueue) /\ UNCHANGED toHost
    BY <1>8, InputsComeByWire DEF InputApplied, InputStep, phoneVars
  <2>2. Wire' = Wire
    BY <2>1 DEF Wire
  <2>3. 0 \notin Sent /\ inputJobs \in Seq(Event) /\ 0 \notin Event
    BY SequencesOfNumbers DEF Order, TypeInv, TypeOK, WorkOK
  <2>4. \A n \in applied' \ applied : n \in Els(inputJobs)
    BY <1>8, <2>3 DEF InputApplied, Els
  <2>5. \A n \in Els(inputJobs) :
          /\ n \in Sent /\ IsInput(n)
          /\ \A m \in One(inputNext) \cup Els(inputQueue) \cup Els(Wire) : n < m
    BY DEF Order, InputOrder, InputStages, Before
  <2> QED
    BY <1>5, <2>1, <2>2, <2>4, <2>5
<1> QED
  BY <1>6, <1>7, <1>8, EventsComeByWire

LEMMA AppliedHolds == Spec => [](Order /\ AppliedInv)
<1>1. Init => Order /\ AppliedInv
  <2>1. Init => applied = {}
    BY DEF Init
  <2> QED
    BY <2>1, InitOrder DEF AppliedInv, Before
<1>2. Order /\ AppliedInv /\ [Next]_vars => Order' /\ AppliedInv'
  BY OrderStep, AppliedInvStep
<1> QED
  BY <1>1, <1>2, PTL DEF Spec

(* Whatever the workers, the reader and the phone do, the host acts on the *)
(* inputs in the order of the phone, and on the other messages too: the    *)
(* two queues and the movements that are coalesced reorder nothing.        *)
THEOREM AppliesOrdered == Spec => AppliedInOrder
<1>1. ASSUME Order, AppliedInv, [Next]_vars
      PROVE  [AppliesInOrder]_vars
  <2> SUFFICES ASSUME NEW n \in applied' \ applied, NEW m \in applied,
                      IsInput(m) = IsInput(n)
               PROVE  m < n
    BY DEF AppliesInOrder
  <2>1. CASE ActsOnEvent
    <3>1. n = eventJob /\ ~IsInput(n) /\ n # 0 /\ n \in UnappliedEvents
      <4>1. n = eventJob /\ ~IsInput(n) /\ n \in Sent /\ ~EventDone
        BY <1>1, <2>1 DEF ActsOnEvent, Order, EventOrder
      <4>2. n # 0
        BY <1>1, <4>1, SequencesOfNumbers DEF Order
      <4> QED
        BY <4>1, <4>2 DEF UnappliedEvents, One
    <3> QED
      BY <1>1, <3>1 DEF AppliedInv, Before
  <2>2. ASSUME NEW ok \in BOOLEAN, InputApplied(ok)
        PROVE  m < n
    <3>1. 0 \notin Event /\ inputJobs \in Seq(Event)
      BY <1>1, SequencesOfNumbers DEF Order, TypeInv, TypeOK, WorkOK
    <3>2. n \in Els(inputJobs)
      BY <2>2, <3>1 DEF InputApplied, Els
    <3>3. n \in UnappliedInputs /\ IsInput(n)
      BY <1>1, <2>2, <3>2
      DEF InputApplied, UnappliedInputs, Order, InputOrder, InputStages
    <3> QED
      BY <1>1, <3>3 DEF AppliedInv, Before
  <2> QED
    BY <1>1, <2>1, <2>2, EventsComeByWire
<1> QED
  BY <1>1, AppliedHolds, PTL DEF Spec, AppliedInOrder
-----------------------------------------------------------------------------
(* The messages somebody still has to settle, and those among them whose   *)
(* acknowledgement has been written by a goroutine that holds pingMutex.   *)
Open == Els(Wire) \cup InputStages \cup EventStages \cup One(dropped)
Acked ==
    (IF pc["inputs"] = "sent" THEN {Head(inputJobs)} ELSE {})
    \cup (IF pc["events"] = "sent" THEN {eventJob} ELSE {})
    \cup (IF pc["reader"] = "sent" THEN {dropped} ELSE {})

(* The message the reader refuses is older than those it has not read, and *)
(* nobody else has it.                                                     *)
DroppedInv ==
    dropped # 0 => /\ dropped \in Sent
                   /\ dropped \notin InputStages \cup EventStages
                   /\ Before({dropped}, Els(Wire))

(* What the reader refuses is its own.                                     *)
LEMMA ReaderAlone ==
  ASSUME TypeInv,
         \/ Kept \/ Write("inputs") \/ Write("events") \/ HandleInput \/ HandleEvent
         \/ PhoneAnswers \/ \E k \in Kind : PhoneStarts(k)
  PROVE  pc'["reader"] = pc["reader"] /\ dropped' = dropped
<1>1. CASE Kept
  BY <1>1 DEF Kept
<1>2. ASSUME NEW w \in {"inputs", "events"}, Write(w)
      PROVE  pc'["reader"] = pc["reader"] /\ dropped' = dropped
  <2>1. dropped' = dropped
    BY <1>2, Distinct DEF Write, Lock, WriteDone, Unlock, WriteFails, AfterWrite, workVars
  <2> QED
    BY <1>2, <2>1, WriteElsewhere, Distinct
<1>3. CASE HandleInput \/ HandleEvent
  <2>1. dropped' = dropped
    BY <1>3 DEF HandleInput, InputTaken, Coalesce, InputsStop, InputApplied, InputStep,
       HandleEvent, EventTaken, UnpairTaken, StatusTaken, EventsStop, EventApplied, workVars
  <2>2. UNCHANGED pc \/ \E v \in {"inputs", "events"}, place \in Place : Goto(v, place)
    BY <1>3 DEF HandleInput, InputTaken, Begin, Coalesce, InputsStop, InputApplied,
       HandleEvent, EventTaken, UnpairTaken, StatusTaken, EventsStop, EventApplied, Place
  <2> QED
    BY <2>1, <2>2, Elsewhere, Distinct
<1>4. CASE PhoneAnswers \/ \E k \in Kind : PhoneStarts(k)
  BY <1>4 DEF PhoneAnswers, PhoneStarts, workVars
<1> QED
  BY <1>1, <1>2, <1>3, <1>4

(* The workers move messages between their queue and their hands.          *)
LEMMA InputsRegroup ==
  ASSUME Order, HandleInput
  PROVE  /\ InputStages' = InputStages
         /\ pc["inputs"] # "sent" /\ pc'["inputs"] # "sent"
<1> USE SequencesOfNumbers DEF Order
<1>1. "inputs" \in Writer
  BY Distinct
<1>2. pc["inputs"] # "sent" /\ pc'["inputs"] # "sent"
  BY <1>1, GoesTo DEF HandleInput, InputTaken, Begin, Coalesce, InputsStop, InputApplied
<1> SUFFICES InputStages' = InputStages
  BY <1>2
<1>3. CASE UNCHANGED <<inputQueue, inputJobs, inputNext>>
  BY <1>3 DEF InputStages
<1>4. inputQueue # <<>> =>
        /\ Els(inputQueue) = One(Head(inputQueue)) \cup Els(Tail(inputQueue))
        /\ Head(inputQueue) \in Nat
  BY ElsTail, SeqTail
<1>5. CASE InputTaken
  <2>1. Els(inputJobs) = {}
    BY <1>5 DEF InputTaken, TypeInv, InHand, Writing, Els
  <2>2. CASE Begin(inputNext) /\ inputNext' = 0 /\ UNCHANGED inputQueue
    <3>1. Els(inputJobs') = One(inputNext) /\ One(inputNext') = {}
      BY <2>2, ElsOne DEF Begin, One
    <3> QED
      BY <2>1, <2>2, <3>1 DEF InputStages
  <2>3. CASE /\ inputQueue # <<>> /\ Begin(Head(inputQueue))
             /\ inputQueue' = Tail(inputQueue) /\ UNCHANGED inputNext
    <3>1. Els(inputJobs') = One(Head(inputQueue))
      BY <1>4, <2>3, ElsOne DEF Begin
    <3> QED
      BY <1>4, <2>1, <2>3, <3>1 DEF InputStages
  <2> QED
    BY <1>5, <2>2, <2>3 DEF InputTaken
<1>6. CASE Coalesce
  <2>1. One(inputNext) = {}
    BY <1>6 DEF Coalesce, Drained, One
  <2>2. CASE /\ inputQueue # <<>> /\ inputJobs' = Append(inputJobs, Head(inputQueue))
             /\ inputQueue' = Tail(inputQueue) /\ UNCHANGED inputNext
    <3>1. Els(inputJobs') = Els(inputJobs) \cup One(Head(inputQueue))
      BY <1>4, <2>2, ElsAppend
    <3> QED
      BY <1>4, <2>2, <3>1 DEF InputStages
  <2>3. CASE /\ inputQueue # <<>> /\ inputNext' = Head(inputQueue)
             /\ inputQueue' = Tail(inputQueue) /\ UNCHANGED inputJobs
    BY <1>4, <2>1, <2>3 DEF InputStages
  <2> QED
    BY <1>3, <1>6, <2>2, <2>3 DEF Coalesce
<1> QED
  BY <1>3, <1>5, <1>6 DEF HandleInput, InputsStop, InputApplied, inputVars

LEMMA EventsRegroup ==
  ASSUME Order, HandleEvent
  PROVE  /\ \/ EventStages' = EventStages
            \/ StatusTaken /\ EventStages' = Els(eventQueue)
         /\ pc["events"] # "sent" /\ pc'["events"] # "sent"
<1> USE SequencesOfNumbers DEF Order
<1>1. "events" \in Writer
  BY Distinct
<1>2. pc["events"] # "sent" /\ pc'["events"] # "sent"
  BY <1>1, GoesTo DEF HandleEvent, EventTaken, UnpairTaken, StatusTaken, EventsStop,
     EventApplied
<1>3. CASE EventTaken
  <2>1. Els(eventQueue) = One(Head(eventQueue)) \cup Els(eventQueue')
    BY <1>3, ElsTail DEF EventTaken
  <2>2. eventJob = 0
    BY <1>3 DEF EventTaken, TypeInv, InHand, Writing
  <2>3. One(eventJob') = One(Head(eventQueue)) /\ One(eventJob) = {}
    BY <1>3, <2>2 DEF EventTaken, One
  <2> QED
    BY <1>2, <2>1, <2>3 DEF EventStages
<1>4. CASE StatusTaken
  BY <1>2, <1>4 DEF StatusTaken, EventStages, One
<1> QED
  BY <1>2, <1>3, <1>4 DEF HandleEvent, UnpairTaken, EventsStop, EventApplied, workVars,
     eventVars, EventStages

(* What a goroutine holds while it writes is nowhere else.                 *)
LEMMA InputHeld ==
  ASSUME Order, DroppedInv, pc["inputs"] \in Writing, NEW h, h = Head(inputJobs)
  PROVE  /\ h \in Event /\ h # 0
         /\ InputStages = {h} \cup Els(Tail(inputJobs)) \cup One(inputNext) \cup Els(inputQueue)
         /\ h \notin Els(Tail(inputJobs)) \cup One(inputNext) \cup Els(inputQueue)
         /\ h \notin EventStages \cup Els(Wire) \cup One(dropped)
<1> USE SequencesOfNumbers DEF Order
<1>1. inputJobs \in Seq(Event) /\ inputJobs # <<>>
  BY DEF TypeInv, TypeOK, WorkOK, InHand
<1>2. h \in Event /\ h \in Nat /\ h # 0 /\ One(h) = {h}
  BY <1>1, SeqTail DEF One
<1>3. /\ Els(inputJobs) = {h} \cup Els(Tail(inputJobs))
      /\ Before({h}, Els(Tail(inputJobs)))
  BY <1>1, <1>2, ElsTail DEF InputOrder
<1>4. InputStages = {h} \cup Els(Tail(inputJobs)) \cup One(inputNext) \cup Els(inputQueue)
  BY <1>3 DEF InputStages
<1>5. h \notin Els(Tail(inputJobs)) \cup One(inputNext) \cup Els(inputQueue) \cup Els(Wire)
  <2>1. \A m \in Els(Tail(inputJobs)) \cup One(inputNext) \cup Els(inputQueue) \cup Els(Wire) :
          h < m
    BY <1>3, <1>4 DEF InputOrder, Before
  <2> QED
    BY <1>2, <2>1
<1>6. h \notin EventStages
  BY <1>4 DEF InputOrder, EventOrder
<1>7. h \notin One(dropped)
  BY <1>4 DEF DroppedInv, One
<1> QED
  BY <1>2, <1>4, <1>5, <1>6, <1>7

LEMMA EventHeld ==
  ASSUME Order, DroppedInv, eventJob # 0
  PROVE  /\ eventJob \in Event
         /\ EventStages = {eventJob} \cup Els(eventQueue)
         /\ eventJob \notin Els(eventQueue)
         /\ eventJob \notin InputStages \cup Els(Wire) \cup One(dropped)
<1> USE SequencesOfNumbers DEF Order
<1>1. eventJob \in Event /\ One(eventJob) = {eventJob}
  BY DEF TypeInv, TypeOK, WorkOK, One
<1>2. EventStages = {eventJob} \cup Els(eventQueue)
  BY <1>1 DEF EventStages
<1>3. eventJob \notin Els(eventQueue) \cup Els(Wire)
  <2>1. \A m \in Els(eventQueue) \cup Els(Wire) : eventJob < m
    BY <1>1, <1>2 DEF EventOrder, Before
  <2> QED
    BY <1>1, <2>1
<1>4. eventJob \notin InputStages
  BY <1>2 DEF InputOrder, EventOrder
<1>5. eventJob \notin One(dropped)
  BY <1>2 DEF DroppedInv, One
<1> QED
  BY <1>1, <1>2, <1>3, <1>4, <1>5

LEMMA DroppedHeld ==
  ASSUME Order, DroppedInv, dropped # 0
  PROVE  /\ dropped \in Event /\ One(dropped) = {dropped}
         /\ dropped \notin InputStages \cup EventStages \cup Els(Wire)
<1> USE SequencesOfNumbers DEF Order
<1>1. dropped \in Event /\ One(dropped) = {dropped}
  BY DEF TypeInv, TypeOK, WorkOK, One
<1>2. \A m \in Els(Wire) : dropped < m
  BY DEF DroppedInv, Before
<1> QED
  BY <1>1, <1>2 DEF DroppedInv

(* The message whose acknowledgement w writes.                             *)
Held(w) ==
    CASE w = "inputs" -> Head(inputJobs)
      [] w = "events" -> eventJob
      [] w = "reader" -> dropped

(* Whoever has written an acknowledgement, or failed to, lets go of the    *)
(* message; a worker fails only when the connection has ended.             *)
LEMMA LetsGo ==
  ASSUME Order, DroppedInv, NEW w \in {"reader", "inputs", "events"},
         Unlock(w) \/ WriteFails(w)
  PROVE  /\ Open' = Open \ {Held(w)} /\ Acked' = Acked \ {Held(w)}
         /\ Unlock(w) => Held(w) \in Acked
         /\ WriteFails(w) => sessionDone \/ broken
         /\ UNCHANGED <<acks, sent, toHost>>
<1> USE SequencesOfNumbers
<1>1. UNCHANGED <<acks, sent, toHost, inputQueue, inputNext, eventQueue>>
  BY DEF Unlock, WriteFails, phoneVars
<1>2. Wire' = Wire
  BY <1>1 DEF Wire
<1>3. /\ Unlock(w) => pc[w] = "sent"
      /\ WriteFails(w) => pc[w] = "write"
      /\ pc[w] \in Writing
  BY DEF Unlock, WriteFails, Writing
<1>4. /\ Unlock(w) => Held(w) \in Acked
      /\ WriteFails(w) => sessionDone \/ broken
  BY <1>3, Distinct DEF Held, Acked, WriteFails, CtxEnded
<1>5. PICK ok \in BOOLEAN : AfterWrite(w, ok)
  BY DEF Unlock, WriteFails
<1>6. TypeInv
  BY DEF Order
<1>7. \A v \in {"reader", "inputs", "events"} \ {w} : pc'[v] = pc[v]
  BY <1>6, WriteElsewhere, Distinct DEF Write
<1>8. CASE w = "inputs"
  <2> DEFINE h == Head(inputJobs)
  <2>1. /\ InputStages = {h} \cup Els(Tail(inputJobs)) \cup One(inputNext) \cup Els(inputQueue)
        /\ h \notin Els(Tail(inputJobs)) \cup One(inputNext) \cup Els(inputQueue)
        /\ h \notin EventStages \cup Els(Wire) \cup One(dropped)
    BY <1>3, <1>8, InputHeld
  <2>2. AfterInputAck /\ UNCHANGED <<eventJob, dropped>>
    BY <1>5, <1>8, Distinct DEF AfterWrite
  <2>3. pc'["inputs"] # "sent" /\ Held(w) = h
    BY <1>6, <1>8, <2>2, GoesTo, Distinct DEF AfterInputAck, Held
  <2>4. InputStages' = Els(Tail(inputJobs)) \cup One(inputNext) \cup Els(inputQueue)
    BY <1>1, <2>2 DEF InputStages, AfterInputAck
  <2>5. EventStages' = EventStages
    BY <1>1, <2>2 DEF EventStages
  <2> HIDE DEF h
  <2>6. Open' = Open \ {h}
    BY <1>2, <2>1, <2>2, <2>4, <2>5 DEF Open
  <2>7. /\ pc["events"] = "sent" => eventJob # 0
        /\ pc["reader"] = "sent" => dropped # 0
    BY <1>6 DEF TypeInv, InHand, Writing
  <2>8. /\ pc["events"] = "sent" => h # eventJob
        /\ pc["reader"] = "sent" => h # dropped
    BY <2>1, <2>7 DEF EventStages, One
  <2>9. Acked' = Acked \ {h}
    BY <1>7, <1>8, <2>2, <2>3, <2>8 DEF Acked, h
  <2> QED
    BY <1>1, <1>4, <2>3, <2>6, <2>9
<1>9. CASE w = "events"
  <2>1. eventJob # 0
    BY <1>3, <1>6, <1>9 DEF TypeInv, InHand
  <2>2. /\ EventStages = {eventJob} \cup Els(eventQueue)
        /\ eventJob \notin Els(eventQueue)
        /\ eventJob \notin InputStages \cup Els(Wire) \cup One(dropped)
    BY <2>1, EventHeld
  <2>3. AfterEventAck /\ UNCHANGED <<inputJobs, dropped>>
    BY <1>5, <1>9, Distinct DEF AfterWrite
  <2>4. pc'["events"] # "sent" /\ Held(w) = eventJob
    BY <1>6, <1>9, <2>3, GoesTo, Distinct DEF AfterEventAck, Held
  <2>5. EventStages' = Els(eventQueue)
    BY <1>1, <2>3 DEF EventStages, AfterEventAck, One
  <2>6. InputStages' = InputStages
    BY <1>1, <2>3 DEF InputStages
  <2>7. Open' = Open \ {eventJob}
    BY <1>2, <2>2, <2>3, <2>5, <2>6 DEF Open
  <2>8. pc["reader"] = "sent" => eventJob # dropped
    BY <2>1, <2>2 DEF One
  <2>9. pc["inputs"] = "sent" => eventJob # Head(inputJobs)
    BY <2>2, InputHeld DEF Writing
  <2>10. Acked' = Acked \ {eventJob}
    BY <1>7, <1>9, <2>3, <2>4, <2>8, <2>9 DEF Acked
  <2> QED
    BY <1>1, <1>4, <2>4, <2>7, <2>10
<1>10. CASE w = "reader"
  <2>1. dropped # 0
    BY <1>3, <1>6, <1>10 DEF TypeInv, InHand
  <2>2. One(dropped) = {dropped} /\ dropped \notin InputStages \cup EventStages \cup Els(Wire)
    BY <2>1, DroppedHeld
  <2>3. Goto("reader", "read") /\ dropped' = 0 /\ UNCHANGED <<inputJobs, eventJob>>
    BY <1>5, <1>10, Distinct DEF AfterWrite
  <2>4. pc'["reader"] # "sent" /\ Held(w) = dropped
    BY <1>6, <1>10, <2>3, GoesTo, Distinct DEF Held
  <2>5. One(dropped') = {}
    BY <2>3 DEF One
  <2>6. InputStages' = InputStages /\ EventStages' = EventStages
    BY <1>1, <2>3 DEF InputStages, EventStages
  <2>7. Open' = Open \ {dropped}
    BY <1>2, <2>2, <2>5, <2>6 DEF Open
  <2>8. pc["events"] = "sent" => eventJob # dropped
    <3>1. pc["events"] = "sent" => eventJob \in EventStages
      BY <1>6 DEF TypeInv, InHand, Writing, EventStages, One
    <3> QED
      BY <2>2, <3>1
  <2>9. pc["inputs"] = "sent" => dropped # Head(inputJobs)
    BY <2>2, InputHeld DEF Writing
  <2>10. Acked' = Acked \ {dropped}
    BY <1>7, <1>10, <2>3, <2>4, <2>8, <2>9 DEF Acked
  <2> QED
    BY <1>1, <1>4, <2>4, <2>7, <2>10
<1> QED
  BY <1>8, <1>9, <1>10

(* Whoever writes an acknowledgement has the message still open, and not   *)
(* acknowledged.                                                           *)
LEMMA Acknowledges ==
  ASSUME Order, DroppedInv, NEW w \in {"reader", "inputs", "events"}, WriteDone(w)
  PROVE  /\ Held(w) \in Event /\ Held(w) \in Open \ Acked
         /\ Open' = Open /\ Acked' = Acked \cup {Held(w)}
         /\ acks' = [acks EXCEPT ![Held(w)] =
                        IF FrameOf(w).ok THEN "accepted" ELSE "refused"]
         /\ UNCHANGED <<sent, toHost, dropped, inputVars, eventVars, applied>>
<1>1. UNCHANGED <<sent, toHost, dropped, inputVars, eventVars, applied>>
  BY DEF WriteDone, phoneVars, workVars
<1>2. Open' = Open
  BY <1>1 DEF Open, Wire, InputStages, EventStages, inputVars, eventVars
<1>3. TypeInv /\ w \in Writer
  BY Distinct DEF Order
<1>4. pc[w] = "write" /\ pc'[w] = "sent"
  BY <1>3, GoesTo DEF WriteDone
<1>5. \A v \in {"reader", "inputs", "events"} \ {w} : pc'[v] = pc[v]
  BY <1>3, WriteElsewhere, Distinct DEF Write
<1>6. FrameOf(w).type = "ack" /\ FrameOf(w).id = Held(w)
  BY FramesOf DEF Held
<1>7. acks' = [acks EXCEPT ![Held(w)] = IF FrameOf(w).ok THEN "accepted" ELSE "refused"]
  BY <1>6 DEF WriteDone
<1>8. Acked' = Acked \cup {Held(w)}
  <2>1. CASE w = "inputs"
    BY <1>1, <1>4, <1>5, <2>1 DEF Acked, Held, inputVars, eventVars
  <2>2. CASE w = "events"
    BY <1>1, <1>4, <1>5, <2>2 DEF Acked, Held, inputVars, eventVars
  <2>3. CASE w = "reader"
    BY <1>1, <1>4, <1>5, <2>3 DEF Acked, Held, inputVars, eventVars
  <2> QED
    BY <2>1, <2>2, <2>3
<1>9. /\ pc["events"] \in Writing => eventJob # 0
      /\ pc["reader"] \in Writing => dropped # 0
  BY <1>3 DEF TypeInv, InHand, Writing
<1>10. Held(w) \in Event /\ Held(w) \in Open /\ Held(w) \notin Acked
  <2>1. CASE w = "inputs"
    <3>1. pc["inputs"] \in Writing /\ pc["inputs"] # "sent" /\ Held(w) = Head(inputJobs)
      BY <1>4, <2>1 DEF Writing, Held
    <3>2. /\ Held(w) \in Event /\ Held(w) \in InputStages
          /\ Held(w) \notin EventStages \cup One(dropped)
      BY <3>1, InputHeld
    <3>3. /\ pc["events"] = "sent" => Held(w) # eventJob
          /\ pc["reader"] = "sent" => Held(w) # dropped
      BY <1>9, <3>2 DEF EventStages, One, Writing
    <3> QED
      BY <3>1, <3>2, <3>3 DEF Open, Acked
  <2>2. CASE w = "events"
    <3>1. Held(w) = eventJob /\ eventJob # 0 /\ pc["events"] # "sent"
      BY <1>4, <1>9, <2>2 DEF Writing, Held
    <3>2. /\ eventJob \in Event /\ eventJob \in EventStages
          /\ eventJob \notin InputStages \cup One(dropped)
      BY <3>1, EventHeld
    <3>3. /\ pc["inputs"] = "sent" => eventJob # Head(inputJobs)
          /\ pc["reader"] = "sent" => eventJob # dropped
      BY <3>1, <3>2, InputHeld DEF One, Writing
    <3> QED
      BY <3>1, <3>2, <3>3 DEF Open, Acked
  <2>3. CASE w = "reader"
    <3>1. Held(w) = dropped /\ dropped # 0 /\ pc["reader"] # "sent"
      BY <1>4, <1>9, <2>3 DEF Writing, Held
    <3>2. /\ dropped \in Event /\ One(dropped) = {dropped}
          /\ dropped \notin InputStages \cup EventStages
      BY <3>1, DroppedHeld
    <3>3. /\ pc["inputs"] = "sent" => dropped # Head(inputJobs)
          /\ pc["events"] = "sent" => dropped # eventJob
      BY <1>9, <3>2, InputHeld, EventHeld DEF Writing
    <3> QED
      BY <3>1, <3>2, <3>3 DEF Open, Acked
  <2> QED
    BY <2>1, <2>2, <2>3
<1> QED
  BY <1>1, <1>2, <1>7, <1>8, <1>10

(* The reader passes a message on, refuses it or forgets it: it forgets    *)
(* only those nobody waits for.                                            *)
LEMMA ReadKeeps ==
  ASSUME Order, DroppedInv, Read
  PROVE  /\ \/ Open' = Open
            \/ \E n \in Sent : /\ sent[n] \in {"call", "unpair", "status"}
                               /\ Open' = Open \ {n} /\ n \notin Acked
         /\ Acked' = Acked /\ UNCHANGED <<acks, sent>> /\ DroppedInv'
<1> USE SequencesOfNumbers DEF Order
<1>1. TypeInv /\ "reader" \in Writer
  BY Distinct
<1>2. UNCHANGED <<acks, sent, inputJobs, inputNext, eventJob>>
  BY DEF Read, ReadAnswer, ReadInput, ReadEvent, ReadFails, phoneVars, workVars, inputVars,
     eventVars
<1>3. pc["reader"] = "read" /\ dropped = 0 /\ One(dropped) = {}
  <2>1. pc["reader"] = "read"
    BY DEF Read, ReadAnswer, ReadInput, ReadEvent, ReadFails, Reads
  <2> QED
    BY <1>1, <2>1 DEF TypeInv, InHand, Writing, One
<1>4. pc'["inputs"] = pc["inputs"] /\ pc'["events"] = pc["events"]
  BY <1>1, InputsAlone, EventsAlone
<1>5. pc'["reader"] # "sent"
  BY <1>1, <1>3, GoesTo DEF Read, ReadAnswer, ReadInput, ReadEvent, ReadFails, Drop
<1>6. Acked' = Acked
  BY <1>2, <1>3, <1>4, <1>5 DEF Acked
<1>7. CASE ReadFails
  <2>1. UNCHANGED <<toHost, dropped, inputVars, eventVars>>
    BY <1>7 DEF ReadFails, phoneVars, workVars
  <2>2. Open' = Open
    BY <2>1 DEF Open, Wire, InputStages, EventStages, inputVars, eventVars
  <2> QED
    BY <1>2, <1>3, <1>6, <2>1, <2>2 DEF DroppedInv
<1>8. CASE ReadAnswer
  <2>1. toHost # <<>> /\ toHost' = Tail(toHost) /\ Head(toHost).type = "answer"
    BY <1>8 DEF ReadAnswer, Reads
  <2>2. One(0) = {}
    BY DEF One
  <2>3. Els(Wire) = Els(Wire')
    <3>1. (IF Head(toHost).type = "event" THEN Head(toHost).id ELSE 0) = 0
      BY <2>1
    <3> QED
      BY <1>1, <2>1, <2>2, <3>1, WireTaken
  <2>4. eventQueue' = eventQueue \/ eventQueue' = Append(eventQueue, 0)
    BY <1>8 DEF ReadAnswer
  <2>5. Els(eventQueue') = Els(eventQueue)
    BY <2>2, <2>4, ElsAppend
  <2>6. UNCHANGED <<dropped, inputQueue>>
    BY <1>8 DEF ReadAnswer, inputVars
  <2>7. Open' = Open
    BY <1>2, <2>3, <2>5, <2>6 DEF Open, InputStages, EventStages
  <2> QED
    BY <1>2, <1>3, <1>6, <2>6, <2>7 DEF DroppedInv
<1>9. CASE ReadInput \/ ReadEvent
  <2> DEFINE n == Head(toHost).id
  <2>1. /\ n \in Event /\ n # 0 /\ n \in Sent /\ n \in Els(Wire)
        /\ Els(Wire) = {n} \cup Els(Wire') /\ Before({n}, Els(Wire'))
    BY <1>9, ReadOne DEF ReadInput, ReadEvent
  <2>2. \/ inputQueue' = Append(inputQueue, n) /\ UNCHANGED <<eventQueue, dropped>>
        \/ eventQueue' = Append(eventQueue, n) /\ UNCHANGED <<inputQueue, dropped>>
        \/ dropped' = n /\ UNCHANGED <<inputQueue, eventQueue>>
        \/ /\ ~IsInput(n) /\ ~IsRefused(n)
           /\ UNCHANGED <<inputQueue, eventQueue, dropped>>
    BY <1>9 DEF ReadInput, ReadEvent, Drop, inputVars, eventVars
  <2> HIDE DEF n
  <2>3. n \notin Els(Wire') /\ One(n) = {n} /\ n \in Nat
    BY <2>1 DEF Before, One
  <2>4. n \notin InputStages \cup EventStages
    <3>1. \A m \in InputStages \cup EventStages : m < n
      BY <2>1 DEF InputOrder, EventOrder, Before
    <3> QED
      BY <2>3, <3>1
  <2>5. CASE inputQueue' = Append(inputQueue, n) /\ UNCHANGED <<eventQueue, dropped>>
    <3>1. Els(inputQueue') = Els(inputQueue) \cup {n}
      BY <2>3, <2>5, ElsAppend
    <3>2. Open' = Open
      BY <1>2, <2>1, <2>5, <3>1 DEF Open, InputStages, EventStages
    <3> QED
      BY <1>2, <1>3, <1>6, <2>5, <3>2 DEF DroppedInv
  <2>6. CASE eventQueue' = Append(eventQueue, n) /\ UNCHANGED <<inputQueue, dropped>>
    <3>1. Els(eventQueue') = Els(eventQueue) \cup {n}
      BY <2>3, <2>6, ElsAppend
    <3>2. Open' = Open
      BY <1>2, <2>1, <2>6, <3>1 DEF Open, InputStages, EventStages
    <3> QED
      BY <1>2, <1>3, <1>6, <2>6, <3>2 DEF DroppedInv
  <2>7. CASE dropped' = n /\ UNCHANGED <<inputQueue, eventQueue>>
    <3>1. InputStages' = InputStages /\ EventStages' = EventStages /\ One(dropped') = {n}
      BY <1>2, <2>3, <2>7 DEF InputStages, EventStages
    <3>2. Open' = Open
      BY <1>3, <2>1, <3>1 DEF Open
    <3>3. DroppedInv'
      BY <1>2, <2>1, <2>4, <2>7, <3>1 DEF DroppedInv, Sent
    <3> QED
      BY <1>2, <1>6, <3>2, <3>3
  <2>8. CASE /\ ~IsInput(n) /\ ~IsRefused(n)
             /\ UNCHANGED <<inputQueue, eventQueue, dropped>>
    <3>1. InputStages' = InputStages /\ EventStages' = EventStages
      BY <1>2, <2>8 DEF InputStages, EventStages
    <3>2. Open' = Open \ {n}
      <4>1. One(dropped') = {} /\ One(dropped) = {}
        BY <1>3, <2>8
      <4>2. /\ Open = {n} \cup Els(Wire') \cup InputStages \cup EventStages
            /\ Open' = Els(Wire') \cup InputStages \cup EventStages
        BY <2>1, <3>1, <4>1 DEF Open
      <4> QED
        BY <2>3, <2>4, <4>2
    <3>3. sent[n] \in {"call", "unpair", "status"}
      <4>1. sent[n] \in Kind
        BY <1>1, <2>1 DEF TypeInv, TypeOK, WireOK, Sent
      <4> QED
        BY <2>8, <4>1 DEF Kind, IsInput, IsRefused
    <3>4. n \notin Acked
      <4>1. pc["events"] = "sent" => eventJob \in EventStages
        BY <1>1 DEF TypeInv, InHand, Writing, EventStages, One
      <4>2. pc["inputs"] = "sent" => Head(inputJobs) \in InputStages
        BY InputHeld DEF Writing
      <4> QED
        BY <1>3, <2>4, <4>1, <4>2 DEF Acked
    <3> QED
      BY <1>2, <1>3, <1>6, <2>1, <2>8, <3>2, <3>3, <3>4 DEF DroppedInv
  <2> QED
    BY <2>2, <2>5, <2>6, <2>7, <2>8
<1> QED
  BY <1>7, <1>8, <1>9 DEF Read

(* Only the reader adds to what the workers have.                          *)
LEMMA StagesShrink ==
  ASSUME Order, [Next]_vars, ~Read
  PROVE  /\ \A n \in InputStages' : n \in InputStages
         /\ \A n \in EventStages' : n \in EventStages
<1> USE SequencesOfNumbers DEF Order
<1>1. \A n \in InputStages' : n \in InputStages
  <2>1. CASE UNCHANGED <<inputQueue, inputJobs, inputNext>>
    BY <2>1 DEF InputStages
  <2>2. CASE AfterInputAck /\ inputJobs # <<>> /\ UNCHANGED <<inputQueue, inputNext>>
    <3>1. Els(inputJobs) = One(Head(inputJobs)) \cup Els(inputJobs')
      BY <2>2, ElsTail DEF AfterInputAck
    <3> QED
      BY <2>2, <3>1 DEF InputStages
  <2>3. CASE InputTaken \/ Coalesce
    BY <2>3, InputsRegroup DEF HandleInput
  <2> QED
    BY <2>1, <2>2, <2>3, InputSteps DEF InputsMove, Read
<1>2. \A n \in EventStages' : n \in EventStages
  <2>1. CASE UNCHANGED <<eventQueue, eventJob>>
    BY <2>1 DEF EventStages
  <2>2. CASE AfterEventAck /\ UNCHANGED eventQueue
    BY <2>2 DEF AfterEventAck, EventStages, One
  <2>3. CASE EventTaken \/ StatusTaken
    BY <2>3, EventsRegroup DEF HandleEvent, EventStages
  <2> QED
    BY <2>1, <2>2, <2>3, EventSteps DEF EventsMove, Read
<1> QED
  BY <1>1, <1>2

LEMMA DroppedStep ==
  ASSUME Order, DroppedInv, [Next]_vars
  PROVE  DroppedInv'
<1>1. CASE Read
  BY <1>1, ReadKeeps
<1>2. CASE dropped' = 0
  BY <1>2 DEF DroppedInv
<1>3. CASE ~Read /\ dropped' = dropped /\ dropped # 0
  <2>1. Grows
    BY WireOrderStep DEF Order
  <2>2. dropped \in Sent' /\ \A m \in Els(Wire') : dropped < m
    BY <1>3, <2>1 DEF DroppedInv, Grows, Before
  <2>3. dropped \notin InputStages' \cup EventStages'
    BY <1>3, StagesShrink DEF DroppedInv
  <2> QED
    BY <1>3, <2>2, <2>3 DEF DroppedInv, Before
<1>4. CASE Write("reader")
  <2>1. Lock("reader") \/ WriteDone("reader") => dropped' = dropped
    BY DEF Lock, WriteDone, workVars
  <2>2. Unlock("reader") \/ WriteFails("reader") => dropped' = 0
    BY Distinct DEF Unlock, WriteFails, AfterWrite
  <2>3. dropped' = dropped \/ dropped' = 0
    BY <1>4, <2>1, <2>2 DEF Write
  <2> QED
    BY <1>1, <1>2, <1>3, <2>3
<1> QED
  BY <1>1, <1>2, <1>3, <1>4, Others, ReaderAlone DEF Order

(* The phone starts a message that nobody has yet.                         *)
LEMMA Opens ==
  ASSUME Order, NEW k \in Kind, PhoneStarts(k), NEW n, n = Len(sent) + 1
  PROVE  /\ n \notin Sent /\ Sent' = Sent \cup {n} /\ \A i \in Sent : sent'[i] = sent[i]
         /\ Open' = Open \cup {n} /\ Acked' = Acked /\ acks' = acks
<1>1. TypeInv /\ sent \in Seq(Kind) /\ Len(sent) < MaxEvents
  BY DEF Order, TypeInv, TypeOK, WireOK, PhoneStarts
<1>2. n \in Event /\ n # 0 /\ One(n) = {n}
  BY <1>1, Numbers DEF Event, One
<1>3. /\ n \notin Sent /\ Sent' = Sent \cup {n}
      /\ \A i \in Sent : sent'[i] = sent[i]
  BY <1>1 DEF PhoneStarts, Sent
<1>4. UNCHANGED <<pc, dropped, inputVars, eventVars, acks>>
  BY DEF PhoneStarts, workVars
<1>5. Els(Wire') = Els(Wire) \cup {n}
  <2> DEFINE m == [type |-> "event", id |-> n]
  <2>1. m \in Upward /\ toHost' = Append(toHost, m) /\ m.type = "event" /\ m.id = n
    BY <1>2, UpwardKinds DEF PhoneStarts
  <2> HIDE DEF m
  <2> QED
    BY <1>1, <1>2, <2>1, WireSent
<1>6. Open' = Open \cup {n}
  BY <1>4, <1>5 DEF Open, InputStages, EventStages, inputVars, eventVars
<1>7. Acked' = Acked
  BY <1>4 DEF Acked, inputVars, eventVars
<1> QED
  BY <1>3, <1>4, <1>6, <1>7

(* A step either leaves the messages as they are, or starts one, settles   *)
(* one or acknowledges one.                                                *)
Settles(n) ==
    /\ Open' = Open \ {n} /\ Acked' = Acked \ {n} /\ UNCHANGED <<acks, sent>>
    /\ \/ n \in Acked \/ sessionDone \/ broken
       \/ n \in Sent /\ sent[n] \in {"call", "unpair", "status"}

LEMMA OpenSteps ==
  ASSUME Order, DroppedInv, [Next]_vars
  PROVE  \/ Open' = Open /\ Acked' = Acked /\ UNCHANGED <<acks, sent>>
         \/ \E n : Settles(n)
         \/ \E k \in Kind : PhoneStarts(k)
         \/ \E w \in {"reader", "inputs", "events"} : WriteDone(w)
<1> DEFINE Same == Open' = Open /\ Acked' = Acked /\ UNCHANGED <<acks, sent>>
           Changes == \/ Same \/ \E n : Settles(n)
                      \/ \E k \in Kind : PhoneStarts(k)
                      \/ \E w \in {"reader", "inputs", "events"} : WriteDone(w)
<1> SUFFICES Changes
  OBVIOUS
<1>1. TypeInv
  BY DEF Order
<1>2. CASE Kept
  BY <1>2 DEF Kept, Open, Acked, Wire, InputStages, EventStages, inputVars, eventVars
<1>3. CASE Read
  <2>1. CASE Open' = Open
    BY <1>3, <2>1, ReadKeeps
  <2>2. ASSUME NEW n \in Sent, sent[n] \in {"call", "unpair", "status"},
               Open' = Open \ {n}, n \notin Acked
        PROVE  Settles(n)
    BY <1>3, <2>2, ReadKeeps DEF Settles
  <2> QED
    BY <1>3, <2>1, <2>2, ReadKeeps
<1>4. ASSUME NEW w \in {"reader", "inputs", "events"}, Write(w)
      PROVE  Changes
  <2>1. CASE Lock(w)
    <3>1. /\ UNCHANGED <<acks, sent, toHost, dropped, inputVars, eventVars>>
          /\ pc[w] # "sent" /\ pc'[w] # "sent"
      BY <1>1, <2>1, GoesTo, Distinct DEF Lock, phoneVars, workVars
    <3>2. \A v \in {"reader", "inputs", "events"} : pc'[v] = "sent" <=> pc[v] = "sent"
      BY <1>1, <1>4, <3>1, WriteElsewhere, Distinct
    <3>3. Open' = Open
      BY <3>1 DEF Open, Wire, InputStages, EventStages, inputVars, eventVars
    <3>4. Acked' = Acked
      BY <3>1, <3>2 DEF Acked, inputVars, eventVars
    <3> QED
      BY <3>1, <3>3, <3>4
  <2>2. CASE Unlock(w) \/ WriteFails(w)
    <3>1. Settles(Held(w))
      BY <2>2, LetsGo DEF Settles
    <3> QED
      BY <3>1
  <2> QED
    BY <1>4, <2>1, <2>2 DEF Write
<1>5. CASE HandleInput
  <2>1. UNCHANGED <<acks, sent, toHost, eventVars>>
    BY <1>5 DEF HandleInput, InputTaken, Coalesce, InputsStop, InputApplied, InputStep,
       phoneVars
  <2>2. InputStages' = InputStages /\ pc["inputs"] # "sent" /\ pc'["inputs"] # "sent"
    BY <1>5, InputsRegroup
  <2>3. /\ pc'["events"] = pc["events"] /\ pc'["reader"] = pc["reader"]
        /\ dropped' = dropped
    BY <1>1, <1>5, EventsAlone, ReaderAlone
  <2>4. Open' = Open
    BY <2>1, <2>2, <2>3 DEF Open, Wire, EventStages, eventVars
  <2>5. Acked' = Acked
    BY <2>1, <2>2, <2>3 DEF Acked, eventVars
  <2> QED
    BY <2>1, <2>4, <2>5
<1>6. CASE HandleEvent
  <2>1. UNCHANGED <<acks, sent, toHost, inputVars>>
    BY <1>6 DEF HandleEvent, EventTaken, UnpairTaken, StatusTaken, EventsStop, EventApplied,
       phoneVars, workVars
  <2>2. pc["events"] # "sent" /\ pc'["events"] # "sent"
    BY <1>6, EventsRegroup
  <2>3. /\ pc'["inputs"] = pc["inputs"] /\ pc'["reader"] = pc["reader"]
        /\ dropped' = dropped
    BY <1>1, <1>6, InputsAlone, ReaderAlone
  <2>4. Acked' = Acked
    BY <2>1, <2>2, <2>3 DEF Acked, inputVars
  <2>5. CASE EventStages' = EventStages
    <3>1. Open' = Open
      BY <2>1, <2>3, <2>5 DEF Open, Wire, InputStages, inputVars
    <3> QED
      BY <2>1, <2>4, <3>1
  <2>6. CASE StatusTaken /\ EventStages' = Els(eventQueue)
    <3>1. sent[eventJob] = "status" /\ pc["events"] = "apply"
      BY <2>6 DEF StatusTaken
    <3>2. eventJob # 0
      BY <1>1, <3>1 DEF TypeInv, InHand
    <3>3. /\ EventStages = {eventJob} \cup Els(eventQueue)
          /\ eventJob \notin Els(eventQueue)
          /\ eventJob \notin InputStages \cup Els(Wire) \cup One(dropped)
      BY <3>2, EventHeld
    <3>4. Open' = Open \ {eventJob}
      BY <2>1, <2>3, <2>6, <3>3 DEF Open, Wire, InputStages, inputVars
    <3>5. eventJob \in Sent
      BY <3>3 DEF Order, EventOrder
    <3>6. eventJob \notin Acked
      <4>1. pc["reader"] = "sent" => dropped # 0
        BY <1>1 DEF TypeInv, InHand, Writing
      <4>2. pc["inputs"] = "sent" => Head(inputJobs) \in InputStages
        BY InputHeld DEF Writing
      <4> QED
        BY <2>2, <3>3, <4>1, <4>2 DEF Acked, One
    <3>7. Settles(eventJob)
      BY <2>1, <2>4, <3>1, <3>4, <3>5, <3>6 DEF Settles
    <3> QED
      BY <3>7
  <2> QED
    BY <1>6, <2>5, <2>6, EventsRegroup
<1>7. CASE PhoneAnswers
  <2> DEFINE m == [type |-> "answer", id |-> phoneTx]
  <2>1. m \in Upward /\ m.type # "event" /\ toHost' = Append(toHost, m)
    BY <1>1, <1>7, UpwardKinds DEF PhoneAnswers, TypeInv, TypeOK, PhoneOK
  <2> HIDE DEF m
  <2>2. Els(Wire') = Els(Wire) \cup One(0)
    BY <1>1, <2>1, WireSent
  <2>3. One(0) = {}
    BY DEF One
  <2>4. UNCHANGED <<pc, dropped, inputVars, eventVars, acks, sent>>
    BY <1>7 DEF PhoneAnswers, workVars
  <2>5. Open' = Open
    BY <2>2, <2>3, <2>4 DEF Open, InputStages, EventStages, inputVars, eventVars
  <2>6. Acked' = Acked
    BY <2>4 DEF Acked, inputVars, eventVars
  <2> QED
    BY <2>4, <2>5, <2>6
<1> QED
  BY <1>1, <1>2, <1>3, <1>4, <1>5, <1>6, <1>7, Others
-----------------------------------------------------------------------------
(* Acknowledgements.                                                       *)

(* A message that is open is unacknowledged until its acknowledgement has  *)
(* been written; one the phone has not started is.                         *)
AckInv ==
    \A n \in Event : /\ n \notin Sent => acks[n] = "none"
                     /\ n \in Open => (acks[n] = "none" <=> n \notin Acked)

(* Workers acknowledge as accepted what the host has acted on.             *)
AcceptedInv ==
    /\ inputOk /\ pc["inputs"] \in Writing => Els(inputJobs) \subseteq applied
    /\ eventOk /\ pc["events"] \in Writing /\ sent[eventJob] \notin {"unpair", "clear"}
          => eventJob \in applied

(* While the connection lives, whoever expects an acknowledgement has got  *)
(* it, or somebody has the message.                                        *)
Accounted ==
    ~sessionDone /\ ~broken =>
        \A n \in Sent : \/ sent[n] \in {"call", "unpair", "status"}
                        \/ n \in Open \/ acks[n] # "none"

LEMMA OpenIsSent ==
  ASSUME Order, DroppedInv
  PROVE  /\ Open \subseteq Sent /\ Acked \subseteq Open
         /\ Sent \subseteq Event /\ acks \in [Event -> {"none", "accepted", "refused"}]
<1> USE SequencesOfNumbers DEF Order
<1>1. Open \subseteq Sent
  BY DEF Open, WireOrder, InputOrder, EventOrder, DroppedInv, One
<1>2. /\ pc["reader"] = "sent" => dropped \in One(dropped)
      /\ pc["events"] = "sent" => eventJob \in EventStages
  BY DEF TypeInv, InHand, Writing, EventStages, One
<1>3. pc["inputs"] = "sent" => Head(inputJobs) \in InputStages
  BY InputHeld DEF Writing
<1>4. Acked \subseteq Open
  BY <1>2, <1>3 DEF Acked, Open
<1> QED
  BY <1>1, <1>4 DEF TypeInv, TypeOK, WorkOK

LEMMA AckStep ==
  ASSUME Order, DroppedInv, AckInv, [Next]_vars
  PROVE  AckInv'
<1> USE OpenIsSent
<1>1. Sent \subseteq Sent'
  BY WireOrderStep DEF Order, Grows
<1>2. CASE Open' = Open /\ Acked' = Acked /\ UNCHANGED <<acks, sent>>
  BY <1>1, <1>2 DEF AckInv
<1>3. ASSUME NEW n, Settles(n)
      PROVE  AckInv'
  BY <1>1, <1>3 DEF Settles, AckInv
<1>4. ASSUME NEW k \in Kind, PhoneStarts(k)
      PROVE  AckInv'
  <2> DEFINE n == Len(sent) + 1
  <2>1. /\ n \notin Sent /\ Open' = Open \cup {n} /\ Acked' = Acked /\ acks' = acks
    BY <1>4, Opens
  <2> HIDE DEF n
  <2>2. n \notin Acked
    BY <2>1
  <2> QED
    BY <1>1, <2>1, <2>2 DEF AckInv
<1>5. ASSUME NEW w \in {"reader", "inputs", "events"}, WriteDone(w)
      PROVE  AckInv'
  <2> DEFINE n == Held(w)
  <2>1. /\ n \in Event /\ n \in Open \ Acked /\ Open' = Open /\ Acked' = Acked \cup {n}
        /\ \E a \in {"accepted", "refused"} : acks' = [acks EXCEPT ![n] = a]
        /\ UNCHANGED sent
    BY <1>5, Acknowledges
  <2> HIDE DEF n
  <2>2. /\ acks'[n] # "none" /\ \A m \in Event \ {n} : acks'[m] = acks[m]
        /\ Sent' = Sent
    BY <2>1 DEF Sent
  <2> QED
    BY <2>1, <2>2 DEF AckInv
<1> QED
  BY <1>2, <1>3, <1>4, <1>5, OpenSteps

LEMMA EndsForGood ==
  ASSUME TypeInv, [Next]_vars
  PROVE  (sessionDone => sessionDone') /\ (broken => broken')
<1> DEFINE Goal == (sessionDone => sessionDone') /\ (broken => broken')
<1> SUFFICES Goal
  OBVIOUS
<1>1. ASSUME NEW w \in Writer, Write(w)
      PROVE  Goal
  <2>1. CASE Lock(w) \/ WriteDone(w)
    BY <2>1 DEF Lock, WriteDone, runVars
  <2>2. CASE Unlock(w) \/ WriteFails(w)
    <3>1. broken' = broken /\ \E ok \in BOOLEAN : AfterWrite(w, ok)
      BY <2>2 DEF Unlock, WriteFails, wireVars
    <3>2. PICK ok \in BOOLEAN : AfterWrite(w, ok)
      BY <3>1
    <3>3. sessionDone' = sessionDone \/ \E how \in {"ok", "failed"} : Return(w, how)
      BY <3>2 DEF AfterWrite, AfterRequest
    <3>4. sessionDone => sessionDone'
      BY <3>3 DEF Return
    <3> QED
      BY <3>1, <3>4
  <2> QED
    BY <1>1, <2>1, <2>2 DEF Write
<1>2. ASSUME NEW c \in Caller, Wait(c) \/ (c \in Request /\ Call(c))
      PROVE  Goal
  <2>1. broken' = broken
    BY <1>2 DEF Wait, Expire, Answered, GivesUp, Call, wireVars
  <2>2. sessionDone' = sessionDone \/ \E how \in {"ok", "failed"} : Return(c, how)
    BY <1>2 DEF Wait, Expire, Answered, GivesUp, Call, runVars
  <2>3. sessionDone => sessionDone'
    BY <2>2 DEF Return
  <2> QED
    BY <2>1, <2>3
<1>3. CASE Read \/ HandleEvent \/ HandleInput
  BY <1>3 DEF Read, ReadAnswer, ReadInput, ReadEvent, ReadFails, HandleEvent, EventTaken,
     UnpairTaken, StatusTaken, EventsStop, EventApplied, HandleInput, InputTaken, Coalesce,
     InputsStop, InputApplied, InputStep, wireVars, runVars
<1>4. CASE Run
  BY <1>4 DEF Run, Tick, HeartbeatEnds, Close, StateChanged, MediaStops, Cancel, wireVars,
     runVars
<1>5. CASE Phone \/ UNCHANGED vars
  BY <1>5 DEF Phone, PhoneReads, PhoneAnswers, PhoneLeaves, PhoneStarts, vars, wireVars,
     runVars
<1> QED
  BY <1>1, <1>2, <1>3, <1>4, <1>5, Distinct DEF Next

LEMMA AccountedStep ==
  ASSUME Order, DroppedInv, AckInv, Accounted, [Next]_vars
  PROVE  Accounted'
<1> USE OpenIsSent
<1> SUFFICES ASSUME ~sessionDone', ~broken', NEW m \in Sent'
             PROVE  \/ sent'[m] \in {"call", "unpair", "status"}
                    \/ m \in Open' \/ acks'[m] # "none"
  BY DEF Accounted
<1>1. ~sessionDone /\ ~broken
  BY EndsForGood DEF Order, TypeInv, TypeOK, ControlOK
<1>2. \A i \in Sent : \/ sent[i] \in {"call", "unpair", "status"}
                      \/ i \in Open \/ acks[i] # "none"
  BY <1>1 DEF Accounted
<1>3. CASE Open' = Open /\ Acked' = Acked /\ UNCHANGED <<acks, sent>>
  BY <1>2, <1>3 DEF Sent
<1>4. ASSUME NEW n, Settles(n)
      PROVE  \/ sent'[m] \in {"call", "unpair", "status"}
             \/ m \in Open' \/ acks'[m] # "none"
  <2>1. m \in Sent /\ UNCHANGED <<acks, sent>>
    BY <1>4 DEF Settles, Sent
  <2>2. CASE m = n
    <3>1. n \in Acked \/ sent[n] \in {"call", "unpair", "status"}
      BY <1>1, <1>4 DEF Settles
    <3>2. n \in Acked => acks[n] # "none"
      BY DEF AckInv
    <3> QED
      BY <2>1, <2>2, <3>1, <3>2
  <2>3. CASE m # n
    BY <1>2, <1>4, <2>1, <2>3 DEF Settles
  <2> QED
    BY <2>2, <2>3
<1>5. ASSUME NEW k \in Kind, PhoneStarts(k)
      PROVE  \/ sent'[m] \in {"call", "unpair", "status"}
             \/ m \in Open' \/ acks'[m] # "none"
  <2> DEFINE n == Len(sent) + 1
  <2>1. /\ Sent' = Sent \cup {n} /\ \A i \in Sent : sent'[i] = sent[i]
        /\ Open' = Open \cup {n} /\ acks' = acks
    BY <1>5, Opens
  <2> HIDE DEF n
  <2> QED
    BY <1>2, <2>1
<1>6. ASSUME NEW w \in {"reader", "inputs", "events"}, WriteDone(w)
      PROVE  \/ sent'[m] \in {"call", "unpair", "status"}
             \/ m \in Open' \/ acks'[m] # "none"
  BY <1>2, <1>6, Acknowledges DEF Sent
<1> QED
  BY <1>3, <1>4, <1>5, <1>6, OpenSteps

LEMMA AccountsHold == Spec => [](Order /\ DroppedInv /\ AckInv /\ Accounted)
<1>1. Init => Order /\ DroppedInv /\ AckInv /\ Accounted
  <2> SUFFICES ASSUME Init
               PROVE  Order /\ DroppedInv /\ AckInv /\ Accounted
    OBVIOUS
  <2>1. Order
    BY InitOrder
  <2>2. DroppedInv
    BY DEF Init, DroppedInv
  <2>3. Sent = {} /\ \A n \in Event : acks[n] = "none"
    BY DEF Init, Sent
  <2>4. Open = {}
    BY <2>1, <2>2, <2>3, OpenIsSent
  <2> QED
    BY <2>1, <2>2, <2>3, <2>4 DEF AckInv, Accounted
<1>2. Order /\ DroppedInv /\ AckInv /\ Accounted /\ [Next]_vars
        => Order' /\ DroppedInv' /\ AckInv' /\ Accounted'
  BY OrderStep, DroppedStep, AckStep, AccountedStep
<1> QED
  BY <1>1, <1>2, PTL DEF Spec

(* dispatchIncoming and the two workers lose nothing: while the session    *)
(* lives, every message of the phone that expects an acknowledgement is on *)
(* its way, queued, in hand, being refused or acknowledged, with full      *)
(* queues and an empty token bucket too.                                   *)
THEOREM NothingIsForgotten == Spec => []NothingForgotten
<1>1. ASSUME Order, Accounted
      PROVE  NothingForgotten
  <2> SUFFICES ASSUME ~sessionDone, ~broken, NEW n \in DOMAIN sent,
                      sent[n] \notin {"call", "unpair", "status"}, acks[n] = "none"
               PROVE  \/ \E i \in DOMAIN toHost : toHost[i] = [type |-> "event", id |-> n]
                      \/ In(n, inputQueue) \/ In(n, inputJobs) \/ inputNext = n
                      \/ In(n, eventQueue) \/ eventJob = n \/ dropped = n
    BY DEF NothingForgotten
  <2>1. n \in Open
    BY <1>1 DEF Accounted, Sent
  <2>2. CASE n \in Els(Wire)
    <3>1. toHost \in Seq(Upward)
      BY <1>1 DEF Order, TypeInv, TypeOK, WireOK
    <3>2. PICK i \in DOMAIN toHost : toHost[i].type = "event" /\ toHost[i].id = n
      BY <2>2 DEF Els, Wire, NumbersIn
    <3>3. toHost[i] \in Upward
      BY <3>1
    <3>4. toHost[i] = [type |-> "event", id |-> n]
      BY <3>2, <3>3, UpwardKinds DEF Upward
    <3> QED
      BY <3>4
  <2> QED
    BY <2>1, <2>2 DEF Open, InputStages, EventStages, Els, One, In
<1> QED
  BY <1>1, AccountsHold, PTL

LEMMA AcceptedStep ==
  ASSUME Order, AcceptedInv, [Next]_vars
  PROVE  AcceptedInv'
<1> USE SequencesOfNumbers DEF Order
<1>1. TypeInv /\ "inputs" \in Writer /\ "events" \in Writer
  BY Distinct
<1>2. applied \subseteq applied'
  BY EventsComeByWire DEF ActsOnEvent, InputApplied
<1>3. (inputOk /\ pc["inputs"] \in Writing => Els(inputJobs) \subseteq applied)'
  <2> DEFINE Goal == inputOk' /\ pc'["inputs"] \in Writing => Els(inputJobs') \subseteq applied'
  <2> SUFFICES Goal
    BY DEF Els
  <2>1. CASE pc'["inputs"] = pc["inputs"] /\ UNCHANGED <<inputJobs, inputOk>>
    BY <1>2, <2>1 DEF AcceptedInv
  <2>2. CASE Write("inputs")
    <3>1. UNCHANGED inputOk /\ pc["inputs"] \in Writing
      BY <2>2 DEF Write, Lock, WriteDone, Unlock, WriteFails, workVars, inputVars, Writing
    <3>2. Els(inputJobs') \subseteq Els(inputJobs)
      <4>1. Lock("inputs") \/ WriteDone("inputs") => inputJobs' = inputJobs
        BY DEF Lock, WriteDone, workVars, inputVars
      <4>2. Unlock("inputs") \/ WriteFails("inputs") => inputJobs' = Tail(inputJobs)
        BY Distinct DEF Unlock, WriteFails, AfterWrite, AfterInputAck
      <4>3. inputJobs # <<>>
        BY <1>1, <3>1 DEF TypeInv, InHand
      <4>4. Els(Tail(inputJobs)) \subseteq Els(inputJobs)
        BY <4>3, ElsTail
      <4> QED
        BY <2>2, <4>1, <4>2, <4>4 DEF Write
    <3> QED
      BY <1>2, <3>1, <3>2 DEF AcceptedInv
  <2>3. CASE InputTaken \/ Coalesce \/ InputsStop
    <3>1. pc'["inputs"] \in {"drain", "apply", "stopped"}
      BY <1>1, <2>3, GoesTo DEF InputTaken, Begin, Coalesce, InputsStop
    <3> QED
      BY <3>1 DEF Writing
  <2>4. ASSUME NEW ok \in BOOLEAN, InputApplied(ok)
        PROVE  Goal
    <3>1. inputOk' = ok /\ inputJobs' = inputJobs
      BY <2>4 DEF InputApplied
    <3>2. ok => Els(inputJobs) \subseteq applied'
      BY <2>4 DEF InputApplied, Els
    <3> QED
      BY <3>1, <3>2
  <2> QED
    BY <1>1, <2>1, <2>2, <2>3, <2>4, InputsAlone, Others DEF HandleInput
<1>4. (eventOk /\ pc["events"] \in Writing /\ sent[eventJob] \notin {"unpair", "clear"}
          => eventJob \in applied)'
  <2> DEFINE Goal == eventOk' /\ pc'["events"] \in Writing
                        /\ sent'[eventJob'] \notin {"unpair", "clear"} => eventJob' \in applied'
  <2> SUFFICES Goal
    OBVIOUS
  <2>1. eventJob # 0 => sent'[eventJob] = sent[eventJob]
    BY WireOrderStep DEF Grows, EventOrder, EventStages, One
  <2>2. CASE pc'["events"] = pc["events"] /\ UNCHANGED <<eventJob, eventOk>>
    <3>1. pc["events"] \in Writing => eventJob # 0
      BY <1>1 DEF TypeInv, InHand
    <3> QED
      BY <1>2, <2>1, <2>2, <3>1 DEF AcceptedInv
  <2>3. CASE Write("events")
    <3>1. pc["events"] \in Writing /\ eventJob # 0 /\ UNCHANGED eventOk
      BY <1>1, <2>3 DEF Write, Lock, WriteDone, Unlock, WriteFails, workVars, eventVars,
         Writing, TypeInv, InHand
    <3>2. Lock("events") \/ WriteDone("events") => eventJob' = eventJob
      BY DEF Lock, WriteDone, workVars, eventVars
    <3>3. Unlock("events") \/ WriteFails("events") => pc'["events"] = "idle"
      BY <1>1, GoesTo, Distinct DEF Unlock, WriteFails, AfterWrite, AfterEventAck
    <3> QED
      BY <1>2, <2>1, <2>3, <3>1, <3>2, <3>3 DEF Write, AcceptedInv, Writing
  <2>4. CASE EventTaken \/ UnpairTaken \/ StatusTaken \/ EventsStop
    <3>1. UNCHANGED sent
      BY <2>4 DEF EventTaken, UnpairTaken, StatusTaken, EventsStop, phoneVars
    <3>2. \/ pc'["events"] \in {"idle", "apply", "stopped"}
          \/ eventJob' = eventJob /\ sent[eventJob] = "unpair"
      BY <1>1, <2>4, GoesTo
      DEF EventTaken, UnpairTaken, StatusTaken, EventsStop
    <3> QED
      BY <3>1, <3>2 DEF Writing
  <2>5. ASSUME NEW ok \in BOOLEAN, EventApplied(ok)
        PROVE  Goal
    BY <2>5 DEF EventApplied, phoneVars
  <2> QED
    BY <1>1, <2>2, <2>3, <2>4, <2>5, EventsAlone, Others DEF HandleEvent
<1> QED
  BY <1>3, <1>4 DEF AcceptedInv

LEMMA AcceptedHolds == Spec => [](Order /\ AcceptedInv)
<1>1. Init => Order /\ AcceptedInv
  BY InitOrder DEF Init, AcceptedInv
<1>2. Order /\ AcceptedInv /\ [Next]_vars => Order' /\ AcceptedInv'
  BY OrderStep, AcceptedStep
<1> QED
  BY <1>1, <1>2, PTL DEF Spec

(* Three goroutines acknowledge, each for messages it is given in another  *)
(* way: no message is acknowledged twice, and none is acknowledged as      *)
(* accepted that the host has not acted on, but for those the source       *)
(* acknowledges first or whatever comes of them.                           *)
THEOREM AcknowledgedOnce == Spec => AckedOnce
<1>1. ASSUME Order, DroppedInv, AckInv, AcceptedInv, [Next]_vars
      PROVE  [\A w \in Worker : AcksOnce(w)]_vars
  <2> SUFFICES ASSUME NEW w \in Worker, WriteDone(w), FrameOf(w).type = "ack"
               PROVE  /\ acks[FrameOf(w).id] = "none"
                      /\ FrameOf(w).ok /\ sent[FrameOf(w).id] \notin {"unpair", "clear"}
                             => FrameOf(w).id \in applied
    BY DEF AcksOnce
  <2>1. w \in {"reader", "inputs", "events"}
    BY FramesOf DEF Worker
  <2>2. FrameOf(w).id = Held(w)
    BY <2>1, FramesOf DEF Held
  <2>3. Held(w) \in Event /\ Held(w) \in Open \ Acked
    BY <1>1, <2>1, Acknowledges
  <2>4. acks[Held(w)] = "none"
    BY <1>1, <2>3 DEF AckInv
  <2>5. pc[w] \in Writing
    BY DEF WriteDone, Writing
  <2>6. FrameOf(w).ok /\ sent[Held(w)] \notin {"unpair", "clear"} => Held(w) \in applied
    <3>1. CASE w = "reader"
      BY <3>1, FramesOf
    <3>2. CASE w = "inputs"
      <4>1. Held(w) = Head(inputJobs) /\ (FrameOf(w).ok <=> inputOk)
        BY <3>2, FramesOf DEF Held
      <4>2. inputJobs \in Seq(Nat) /\ inputJobs # <<>>
        BY <1>1, <2>5, <3>2, SequencesOfNumbers DEF Order, TypeInv, InHand
      <4>3. Held(w) # 0
        BY <1>1, <2>3, SequencesOfNumbers DEF Order
      <4>4. Head(inputJobs) \in Els(inputJobs)
        BY <4>1, <4>2, <4>3, ElsTail DEF One
      <4> QED
        BY <1>1, <2>5, <3>2, <4>1, <4>4 DEF AcceptedInv
    <3>3. CASE w = "events"
      <4>1. Held(w) = eventJob /\ (FrameOf(w).ok <=> eventOk)
        BY <3>3, FramesOf DEF Held
      <4> QED
        BY <1>1, <2>5, <3>3, <4>1 DEF AcceptedInv
    <3> QED
      BY <2>1, <3>1, <3>2, <3>3
  <2> QED
    BY <2>2, <2>4, <2>6
<1> QED
  BY <1>1, AccountsHold, AcceptedHolds, PTL DEF Spec, AckedOnce
=============================================================================
