------------------------ MODULE NotificationsProofs -------------------------
(***************************************************************************)
(* Proofs about Notifications, for any number of keys, calls and messages  *)
(* in the monitor: no echo, a phone that mirrors the host, the two maps of *)
(* the bridge and the dismissals.  The four need each other, so there is   *)
(* one invariant, in parts.                                                *)
(***************************************************************************)
EXTENDS Notifications, FiniteSetTheorems, TLAPS

-----------------------------------------------------------------------------
(* The invariant *)

Msg == [kind : {"call", "marked", "reply", "error", "closed"},
        call : Nat, id : Nat]

NoteTypes ==
    /\ calls \in Nat /\ nextId \in Nat
    /\ monitored \in Seq(Msg) /\ Len(monitored) <= MonitorRoom
    /\ closings \in Seq(Nat)
    /\ showing \in [Key -> {"idle", "call", "record", "mark"}]
    /\ number \in [Key -> Nat]
    /\ replaces \in [Key -> Nat]
    /\ rendered \in [Key -> Nat]
    /\ arriving \in [Key -> SUBSET Nat]
    /\ byKey \in [Key -> Nat]
    /\ byLinux \in [Id -> Key \cup {NoKey}]
    /\ pushing \in {"idle", "push", "clear"} \X Nat

(* Calls that the server has not seen: those of the bridge for a key, and  *)
(* all of them.                                                            *)
Coming(k) == arriving[k] \cup {n \in {number[k]} : showing[k] = "call"}
Unanswered == waiting \cup UNION {Coming(k) : k \in Key}

(* A call is in one place at most, and the ids are no more than the calls  *)
(* the server has answered.                                                *)
Numbering ==
    /\ Unanswered \subseteq 1..calls
    /\ \A k \in Key :
           /\ Coming(k) \cap waiting = {}
           /\ showing[k] = "call" => number[k] \notin arriving[k]
           /\ \A l \in Key \ {k} : Coming(k) \cap Coming(l) = {}
    /\ calls <= MaxCalls
    /\ nextId + Cardinality(Unanswered) <= calls + 1

At(m, kinds) == monitored[m].kind \in kinds

(* What the monitor holds names calls and ids that exist, and of a call    *)
(* one answer.                                                             *)
Messages ==
    /\ \A m \in 1..Len(monitored) :
           /\ At(m, {"call"}) =>
                  /\ monitored[m].call \in 1..calls
                  /\ \A k \in Key : monitored[m].call \notin Coming(k)
           /\ At(m, {"reply", "error"}) =>
                  monitored[m].call \in (1..calls) \ Unanswered
           /\ At(m, {"reply", "closed"}) => monitored[m].id \in 1..(nextId - 1)
    /\ \A m, n \in 1..Len(monitored) :
           /\ At(m, {"reply", "error"}) /\ At(n, {"reply", "error"})
           /\ monitored[m].call = monitored[n].call
           => m = n
    /\ pending \subseteq 1..calls
    /\ \A k \in Key : pending \cap Coming(k) = {}

(* Ids are assigned before they are used, and what the bridge replaces is  *)
(* its own.                                                                *)
Ids ==
    /\ 1 <= nextId
    /\ shown \subseteq 1..(nextId - 1)
    /\ phoneHas \subseteq 1..(nextId - 1)
    /\ originIDs \subseteq 1..(nextId - 1)
    /\ \A k \in Key :
           /\ rendered[k] \in 0..(nextId - 1)
           /\ showing[k] \in {"idle", "call"} => rendered[k] = NoId
           /\ showing[k] \in {"record", "mark"} => rendered[k] # NoId
           /\ byKey[k] \in BridgeIds \cup {NoId}
           /\ replaces[k] \in BridgeIds \cup {NoId}
    /\ \A m \in 1..Len(closings) : closings[m] \in 1..(nextId - 1)
    /\ pushing[1] = "push" => pushing[2] \in 1..(nextId - 1)

(* The watcher never holds a call of the bridge.                           *)
EchoFree ==
    /\ NoEcho
    /\ \A m \in 1..Len(monitored) :
           At(m, {"reply"}) /\ monitored[m].id \in BridgeIds =>
               /\ monitored[m].call \notin pending
               /\ \A n \in 1..Len(monitored) :
                      At(n, {"call"}) => monitored[n].call # monitored[m].call

(* The watcher learns of a call before its answer.                         *)
InOrder ==
    /\ \A c \in waiting :
           \/ c \in pending \/ NoId \in missing
           \/ \E m \in 1..Len(monitored) : At(m, {"call"}) /\ monitored[m].call = c
    /\ \A m \in 1..Len(monitored) :
           At(m, {"reply"}) /\ monitored[m].id \notin BridgeIds =>
               \/ monitored[m].call \in pending \/ NoId \in missing
               \/ \E n \in 1..Len(monitored) :
                      n < m /\ At(n, {"call"}) /\ monitored[n].call = monitored[m].call

(* Each message of kind a for that id has one of kind b behind it.         *)
Follows(a, b, i) == \A m \in 1..Len(monitored) :
    monitored[m].kind = a /\ monitored[m].id = i =>
        \E n \in 1..Len(monitored) :
            n > m /\ monitored[n].kind = b /\ monitored[n].id = i

(* What the phone learns of, or has learned of, it will hear the end of,   *)
(* and of an id that is given again it will hear again.                    *)
Ends(i) ==
    \/ i \in missing
    \/ /\ Follows("reply", "closed", i)
       /\ pushing = <<"push", i>> => OnTheWay("closed", i)
       /\ i \in phoneHas => OnTheWay("closed", i) \/ pushing = <<"clear", i>>

Begins(i) ==
    \/ missing \cap {i, NoId} # {}
    \/ /\ Follows("closed", "reply", i)
       /\ pushing = <<"clear", i>> => OnTheWay("reply", i)
       /\ i \notin phoneHas => OnTheWay("reply", i) \/ pushing = <<"push", i>>

Ending ==
    /\ \A i \in (1..(nextId - 1)) \ shown : Ends(i)
    /\ \A i \in shown \ BridgeIds : Begins(i)

BeingRecorded(i) == \E k \in Key : showing[k] = "record" /\ rendered[k] = i

(* The bridge has got the id again, and not all signals of its last end.   *)
Retaken(i) == i \in reused \/ BeingRecorded(i)

(* The two maps of the bridge are each other's inverse, and no two keys    *)
(* meet at an id.                                                          *)
Maps ==
    /\ \A k \in Key, i \in Id : byLinux[i] = k <=> byKey[k] = i
    /\ \A k \in Key, l \in Key :
           k # l => {byKey[k], replaces[k], rendered[k]}
                    \cap {byKey[l], replaces[l], rendered[l]} \subseteq {NoId}
    /\ \A k \in Key :
           /\ showing[k] \in {"call", "record"} => byKey[k] \in {replaces[k], NoId}
           /\ showing[k] \in {"record", "mark"} /\ rendered[k] # replaces[k] =>
                  replaces[k] \notin shown
           /\ showing[k] = "mark" /\ rendered[k] \in shown =>
                  byLinux[rendered[k]] # NoKey \/ rendered[k] \in reused
    /\ \A i \in originIDs \cap shown :
           byLinux[i] # NoKey \/ Retaken(i)

Noticed(i) == i \in shown \cup early \/ InClosings(i)

(* An id that Show is about to record is on the screen, or its signal is   *)
(* still to come, or came too early.                                       *)
Dismissal ==
    /\ \A k \in Key : showing[k] = "record" => Noticed(rendered[k])
    /\ \A k \in onPhone :
           \/ showing[k] \in {"call", "record"} \/ arriving[k] # {} \/ k \in kept
           \/ byKey[k] # NoId /\ Noticed(byKey[k])
    /\ \A i \in shown \cap BridgeIds : InClosings(i) => Retaken(i)
    /\ onPhone \subseteq Key

NoteInv ==
    /\ NoteTypes /\ Numbering /\ Messages /\ Ids
    /\ EchoFree /\ InOrder /\ Ending /\ Maps /\ Dismissal

(* What a step may do to calls that were made before it, and to ids that   *)
(* were assigned: no call is made anew, no id changes sides.               *)
CallsPast ==
    /\ calls <= calls'
    /\ \A c \in 1..calls :
           /\ c \in waiting' => c \in waiting
           /\ \A k \in Key : c \in Coming(k)' => c \in Coming(k)

IdsPast ==
    /\ nextId <= nextId'
    /\ \A i \in 1..(nextId - 1) :
           i \in BridgeIds' <=> i \in BridgeIds

(* What a step may do to the queue: messages join it at the end, one of    *)
(* them may be lost, or the first one leaves it.                           *)
Adds(S) ==
    /\ monitored' \in Seq(Msg) /\ Len(monitored') <= MonitorRoom
    /\ Len(monitored) \in Nat /\ Len(monitored') \in Nat
    /\ missing \subseteq missing'
    /\ \A m \in 1..Len(monitored) :
           m \in 1..Len(monitored') /\ monitored'[m] = monitored[m]
    /\ \A m \in 1..Len(monitored') :
           m \in 1..Len(monitored) \/ (m > Len(monitored) /\ monitored'[m] \in S)
    /\ \A m, n \in 1..Len(monitored') :
           /\ m > Len(monitored) /\ n > Len(monitored)
           /\ monitored'[m] = monitored'[n]
           => m = n

Delivers(msg) ==
    \/ msg.id \in missing'
    \/ \E m \in 1..Len(monitored') : m > Len(monitored) /\ monitored'[m] = msg

Takes(msg) ==
    /\ monitored' \in Seq(Msg) /\ Len(monitored') <= MonitorRoom
    /\ Len(monitored') = Len(monitored) - 1 /\ Len(monitored) \in Nat
    /\ \A m \in 1..Len(monitored') :
           m + 1 \in 1..Len(monitored) /\ monitored'[m] = monitored[m + 1]
    /\ \A m \in 1..Len(monitored) :
           m = 1 \/ (m - 1 \in 1..Len(monitored') /\ monitored'[m - 1] = monitored[m])
    /\ 1 \in 1..Len(monitored) /\ monitored[1] = msg
    /\ msg \in Msg /\ msg.call \in Nat /\ msg.id \in Nat

-----------------------------------------------------------------------------
(* The queue of the monitor *)

LEMMA MessageIsMsg ==
  ASSUME NEW kind \in {"call", "marked", "reply", "error", "closed"},
         NEW call \in Nat, NEW id \in Nat
  PROVE  /\ Message(kind, call, id) \in Msg
         /\ Message(kind, call, id).kind = kind
         /\ Message(kind, call, id).call = call
         /\ Message(kind, call, id).id = id
BY DEF Message, Msg

LEMMA QueuedMsg ==
  ASSUME NEW q \in Seq(Msg), NEW m \in 1..Len(q)
  PROVE  /\ q[m] \in Msg /\ q[m].call \in Nat /\ q[m].id \in Nat
         /\ q[m].kind \in {"call", "marked", "reply", "error", "closed"}
<1>1. q[m] \in Msg
  OBVIOUS
<1> QED
  BY <1>1 DEF Msg

LEMMA JoinedMsgs ==
  ASSUME NEW q \in Seq(Msg), NEW t \in Seq(Msg)
  PROVE  /\ q \o t \in Seq(Msg) /\ Len(q \o t) = Len(q) + Len(t)
         /\ \A m \in 1..Len(q) : (q \o t)[m] = q[m]
         /\ \A m \in 1..Len(q \o t) :
                m > Len(q) => (q \o t)[m] = t[m - Len(q)]
<1>1. q \o t \in Seq(Msg) /\ Len(q \o t) = Len(q) + Len(t)
      /\ Len(q) \in Nat /\ Len(t) \in Nat
  OBVIOUS
<1>2. \A m \in 1..Len(q) : (q \o t)[m] = q[m]
  OBVIOUS
<1>3. ASSUME NEW m \in 1..Len(q \o t), m > Len(q)
      PROVE  (q \o t)[m] = t[m - Len(q)]
  <2>1. m \in 1..(Len(q) + Len(t))
    BY <1>1
  <2> QED
    BY <2>1, <1>3
<1> QED
  BY <1>1, <1>2, <1>3

(* What the connection takes is queued at the end; what it drops is        *)
(* counted as missing.                                                     *)
LEMMA MonitorGrows ==
  ASSUME NoteTypes, NEW msgs \in Seq(Msg), Monitors(msgs)
  PROVE  /\ monitored' \in Seq(Msg) /\ Len(monitored') <= MonitorRoom
         /\ Len(monitored) \in Nat /\ Len(monitored') \in Nat
         /\ Len(monitored) <= Len(monitored')
         /\ \A m \in 1..Len(monitored) :
                m \in 1..Len(monitored') /\ monitored'[m] = monitored[m]
         /\ \A m \in 1..Len(monitored') :
                \/ m \in 1..Len(monitored)
                \/ /\ m > Len(monitored) /\ m - Len(monitored) \in 1..Len(msgs)
                   /\ monitored'[m] = msgs[m - Len(monitored)]
         /\ missing \subseteq missing'
         /\ \A j \in 1..Len(msgs) :
                \/ /\ Len(monitored) + j \in 1..Len(monitored')
                   /\ monitored'[Len(monitored) + j] = msgs[j]
                \/ msgs[j].id \in missing'
<1> DEFINE room == MonitorRoom - Len(monitored)
           fit == IF Len(msgs) < room THEN Len(msgs) ELSE room
           taken == SubSeq(msgs, 1, fit)
<1>1. /\ monitored \in Seq(Msg) /\ Len(monitored) \in Nat /\ room \in Nat
      /\ Len(msgs) \in Nat
  BY NotificationsAssumption DEF NoteTypes
<1>2. fit \in Nat /\ fit <= Len(msgs) /\ fit <= room
  BY <1>1
<1>3. /\ monitored' = monitored \o taken
      /\ missing' = missing \cup {msgs[i].id : i \in (fit + 1)..Len(msgs)}
  BY DEF Monitors
<1> HIDE DEF fit
<1>4. /\ taken \in Seq(Msg) /\ Len(taken) = fit
      /\ \A j \in 1..fit : taken[j] = msgs[j]
  BY <1>1, <1>2
<1> HIDE DEF taken
<1>5. /\ monitored' \in Seq(Msg) /\ Len(monitored') = Len(monitored) + fit
      /\ \A m \in 1..Len(monitored) : monitored'[m] = monitored[m]
      /\ \A m \in 1..Len(monitored') :
             m > Len(monitored) => monitored'[m] = taken[m - Len(monitored)]
  BY <1>1, <1>3, <1>4, JoinedMsgs
<1>6. \A m \in 1..Len(monitored') :
          \/ m \in 1..Len(monitored)
          \/ m > Len(monitored) /\ m - Len(monitored) \in 1..fit
  BY <1>1, <1>2, <1>5
<1>7. \A j \in 1..Len(msgs) : j \in 1..fit \/ j \in (fit + 1)..Len(msgs)
  BY <1>1, <1>2
<1>8. \A j \in 1..fit : /\ Len(monitored) + j \in 1..Len(monitored')
                        /\ Len(monitored) + j > Len(monitored)
                        /\ (Len(monitored) + j) - Len(monitored) = j
  BY <1>1, <1>2, <1>5
<1>9. Len(monitored') <= MonitorRoom
  BY <1>1, <1>2, <1>5, NotificationsAssumption
<1>10. \A j \in 1..Len(msgs) :
          \/ /\ Len(monitored) + j \in 1..Len(monitored')
             /\ monitored'[Len(monitored) + j] = msgs[j]
          \/ msgs[j].id \in missing'
  BY <1>3, <1>4, <1>5, <1>7, <1>8
<1>11. \A m \in 1..Len(monitored') :
          \/ m \in 1..Len(monitored)
          \/ /\ m > Len(monitored) /\ m - Len(monitored) \in 1..Len(msgs)
             /\ monitored'[m] = msgs[m - Len(monitored)]
  BY <1>1, <1>2, <1>4, <1>5, <1>6
<1>12. \A m \in 1..Len(monitored) : m \in 1..Len(monitored')
  BY <1>1, <1>2, <1>5
<1>13. Len(monitored') \in Nat /\ Len(monitored) <= Len(monitored')
  BY <1>1, <1>2, <1>5
<1>14. missing \subseteq missing'
  BY <1>3
<1> QED
  BY <1>1, <1>5, <1>9, <1>10, <1>11, <1>12, <1>13, <1>14

LEMMA AddsOne ==
  ASSUME NoteTypes, NEW msg \in Msg, Monitors(<<msg>>)
  PROVE  Adds({msg}) /\ Delivers(msg)
<1>1. <<msg>> \in Seq(Msg) /\ Len(<<msg>>) = 1 /\ <<msg>>[1] = msg
  OBVIOUS
<1> DEFINE msgs == <<msg>>
           old == Len(monitored)
           new == Len(monitored')
<1> HIDE DEF msgs
<1>2. msgs \in Seq(Msg) /\ Len(msgs) = 1 /\ msgs[1] = msg /\ Monitors(msgs)
  BY <1>1 DEF msgs
<1>3. /\ monitored' \in Seq(Msg) /\ new <= MonitorRoom
      /\ old \in Nat /\ new \in Nat /\ old <= new
      /\ \A m \in 1..old : m \in 1..new /\ monitored'[m] = monitored[m]
      /\ \A m \in 1..new :
             \/ m \in 1..old
             \/ /\ m > old /\ m - old \in 1..Len(msgs)
                /\ monitored'[m] = msgs[m - old]
      /\ missing \subseteq missing'
      /\ \A j \in 1..Len(msgs) :
             \/ old + j \in 1..new /\ monitored'[old + j] = msgs[j]
             \/ msgs[j].id \in missing'
  BY <1>2, MonitorGrows
<1> HIDE DEF old, new
<1>4. \A m \in 1..new :
          \/ m \in 1..old
          \/ m = old + 1 /\ monitored'[m] = msg
  <2> SUFFICES ASSUME NEW m \in 1..new, m \notin 1..old
               PROVE  m = old + 1 /\ monitored'[m] = msg
    OBVIOUS
  <2>1. m - old \in {1} /\ monitored'[m] = msgs[m - old]
    BY <1>2, <1>3
  <2>2. m - old = 1 => m = old + 1
    BY <1>3
  <2> QED
    BY <1>2, <2>1, <2>2
<1>5. \/ old + 1 \in 1..new /\ monitored'[old + 1] = msg
      \/ msg.id \in missing'
  BY <1>2, <1>3
<1>6. (\A m \in 1..old : ~(m > old)) /\ old + 1 > old
  BY <1>3
<1>7. \A m, n \in 1..new :
          m > old /\ n > old /\ monitored'[m] = monitored'[n] => m = n
  BY <1>4, <1>6
<1>8. \A m \in 1..new : m \in 1..old \/ (m > old /\ monitored'[m] \in {msg})
  BY <1>4, <1>6
<1>9. /\ monitored' \in Seq(Msg) /\ new <= MonitorRoom
      /\ old \in Nat /\ new \in Nat /\ missing \subseteq missing'
      /\ \A m \in 1..old : m \in 1..new /\ monitored'[m] = monitored[m]
  BY <1>3
<1>10. Adds({msg})
  BY <1>7, <1>8, <1>9, Zenon DEF Adds, old, new
<1>11. \/ msg.id \in missing'
       \/ \E m \in 1..new : m > old /\ monitored'[m] = msg
  BY <1>5, <1>6
<1>12. Delivers(msg)
  BY <1>11, Zenon DEF Delivers, old, new
<1> QED
  BY <1>10, <1>12

LEMMA AddsTwo ==
  ASSUME NoteTypes, NEW a \in Msg, NEW b \in Msg, a # b, Monitors(<<a, b>>)
  PROVE  Adds({a, b})
<1>1. /\ <<a, b>> \in Seq(Msg) /\ Len(<<a, b>>) = 2
      /\ <<a, b>>[1] = a /\ <<a, b>>[2] = b
  OBVIOUS
<1> DEFINE msgs == <<a, b>>
           old == Len(monitored)
           new == Len(monitored')
<1> HIDE DEF msgs
<1>2. /\ msgs \in Seq(Msg) /\ Len(msgs) = 2 /\ Monitors(msgs)
      /\ msgs[1] = a /\ msgs[2] = b
  BY <1>1 DEF msgs
<1>3. /\ monitored' \in Seq(Msg) /\ new <= MonitorRoom
      /\ old \in Nat /\ new \in Nat /\ old <= new
      /\ \A m \in 1..old : m \in 1..new /\ monitored'[m] = monitored[m]
      /\ \A m \in 1..new :
             \/ m \in 1..old
             \/ /\ m > old /\ m - old \in 1..Len(msgs)
                /\ monitored'[m] = msgs[m - old]
      /\ missing \subseteq missing'
  BY <1>2, MonitorGrows
<1> HIDE DEF old, new
<1>4. \A m \in 1..new :
          \/ m \in 1..old
          \/ m = old + 1 /\ monitored'[m] = a
          \/ m = old + 2 /\ monitored'[m] = b
  <2> SUFFICES ASSUME NEW m \in 1..new, m \notin 1..old
               PROVE  \/ m = old + 1 /\ monitored'[m] = a
                      \/ m = old + 2 /\ monitored'[m] = b
    OBVIOUS
  <2>1. m - old \in {1, 2} /\ monitored'[m] = msgs[m - old]
    BY <1>2, <1>3
  <2>2. m - old = 1 => m = old + 1
    BY <1>3
  <2>3. m - old = 2 => m = old + 2
    BY <1>3
  <2> QED
    BY <1>2, <2>1, <2>2, <2>3
<1>5. (\A m \in 1..old : ~(m > old)) /\ old + 1 > old /\ old + 2 > old
  BY <1>3
<1>6. \A m, n \in 1..new :
          m > old /\ n > old /\ monitored'[m] = monitored'[n] => m = n
  BY <1>4, <1>5
<1>7. \A m \in 1..new : m \in 1..old \/ (m > old /\ monitored'[m] \in {a, b})
  BY <1>4, <1>5
<1>8. /\ monitored' \in Seq(Msg) /\ new <= MonitorRoom
      /\ old \in Nat /\ new \in Nat /\ missing \subseteq missing'
      /\ \A m \in 1..old : m \in 1..new /\ monitored'[m] = monitored[m]
  BY <1>3
<1> QED
  BY <1>6, <1>7, <1>8, Zenon DEF Adds, old, new

LEMMA TakesHead ==
  ASSUME NoteTypes, NEW kind, Received(kind)
  PROVE  /\ Takes(Head(monitored)) /\ Head(monitored).kind = kind
         /\ pushing = <<"idle", pushing[2]>>
<1>1. /\ monitored \in Seq(Msg) /\ monitored # <<>> /\ monitored' = Tail(monitored)
      /\ Len(monitored) <= MonitorRoom /\ Head(monitored).kind = kind
      /\ pushing[1] = "idle"
  BY DEF NoteTypes, Received
<1>2. /\ monitored' \in Seq(Msg) /\ Len(monitored') = Len(monitored) - 1
      /\ Len(monitored) \in Nat /\ 1 \in 1..Len(monitored)
      /\ Head(monitored) = monitored[1]
      /\ \A m \in 1..Len(monitored') :
             m + 1 \in 1..Len(monitored) /\ monitored'[m] = monitored[m + 1]
  BY <1>1
<1>3. \A m \in 1..Len(monitored) :
          m = 1 \/ (m - 1 \in 1..Len(monitored') /\ (m - 1) + 1 = m)
  BY <1>2
<1>4. \A m \in 1..Len(monitored) :
          \/ m = 1
          \/ m - 1 \in 1..Len(monitored') /\ monitored'[m - 1] = monitored[m]
  BY <1>2, <1>3
<1>5. Len(monitored') <= MonitorRoom
  BY <1>1, <1>2, NotificationsAssumption
<1>6. pushing = <<"idle", pushing[2]>>
  BY <1>1 DEF NoteTypes
<1> QED
  BY <1>1, <1>2, <1>4, <1>5, <1>6, QueuedMsg DEF Takes

(* The message that a step sends.                                          *)
Sends(kind, call, id) ==
    \E msg \in Msg : /\ msg.kind = kind /\ msg.call = call /\ msg.id = id
                     /\ Adds({msg}) /\ Delivers(msg)

LEMMA SendsOne ==
  ASSUME NoteTypes, NEW kind \in {"call", "reply", "error", "closed"},
         NEW call \in Nat, NEW id \in Nat,
         Monitors(<<Message(kind, call, id)>>)
  PROVE  Sends(kind, call, id)
<1> DEFINE msg == Message(kind, call, id)
<1>1. msg \in Msg /\ msg.kind = kind /\ msg.call = call /\ msg.id = id
  BY MessageIsMsg
<1>2. Monitors(<<msg>>)
  OBVIOUS
<1> HIDE DEF msg
<1>3. Adds({msg}) /\ Delivers(msg)
  BY <1>1, <1>2, AddsOne
<1> QED
  BY <1>1, <1>3 DEF Sends

(* Those of Show: the hint that marks the call, and the reply.             *)
SendsMarked(call, id) ==
    \E a \in Msg, b \in Msg :
        /\ a.kind = "marked"
        /\ b.kind = "reply" /\ b.call = call /\ b.id = id
        /\ Adds({a, b})

LEMMA SendsTwo ==
  ASSUME NoteTypes, NEW call \in Nat, NEW id \in Nat,
         Monitors(<<Message("marked", call, NoId), Message("reply", call, id)>>)
  PROVE  SendsMarked(call, id)
<1> DEFINE a == Message("marked", call, NoId)
           b == Message("reply", call, id)
<1>1. /\ a \in Msg /\ a.kind = "marked"
      /\ b \in Msg /\ b.kind = "reply" /\ b.call = call /\ b.id = id
  BY MessageIsMsg DEF NoId
<1>2. Monitors(<<a, b>>)
  OBVIOUS
<1> HIDE DEF a, b
<1>3. Adds({a, b})
  BY <1>1, <1>2, AddsTwo
<1> QED
  BY <1>1, <1>3 DEF SendsMarked

LEMMA AppSends ==
  ASSUME NoteTypes, AppNotifies
  PROVE  Sends("call", calls + 1, NoId)
<1>1. calls + 1 \in Nat /\ NoId \in Nat
  BY DEF NoteTypes, NoId
<1>2. Monitors(<<Message("call", calls + 1, NoId)>>)
  BY DEF AppNotifies
<1> QED
  BY <1>1, <1>2, SendsOne

LEMMA ClosingSends ==
  ASSUME NoteTypes, NEW i \in Id, Closed(i)
  PROVE  Sends("closed", 0, i)
<1>1. i \in Nat /\ 0 \in Nat
  BY DEF Id
<1>2. Monitors(<<Message("closed", 0, i)>>)
  BY DEF Closed
<1> QED
  BY <1>1, <1>2, SendsOne

(* What the server does with a call, and with one of the bridge.           *)
ServerReplies(c, i) ==
    /\ i \in {nextId} \cup (1..(nextId - 1) \ BridgeIds) /\ i \in Nat
    /\ shown' = shown \cup {i}
    /\ nextId' = IF i = nextId THEN nextId + 1 ELSE nextId
    /\ Sends("reply", c, i)

LEMMA AnswerSends ==
  ASSUME NoteTypes, Ids, NEW c \in 1..MaxCalls, ServerAnswers(c)
  PROVE  \/ \E i \in Nat : ServerReplies(c, i)
         \/ Sends("error", c, NoId) /\ UNCHANGED <<shown, nextId>>
<1>1. c \in Nat /\ nextId \in Nat
  BY DEF NoteTypes
<1>2. 1..(nextId - 1) \subseteq Nat
  OBVIOUS
<1>3. ASSUME NEW i \in {nextId} \cup (1..(nextId - 1) \ BridgeIds),
             shown' = shown \cup {i},
             nextId' = IF i = nextId THEN nextId + 1 ELSE nextId,
             Monitors(<<Message("reply", c, i)>>)
      PROVE  \E j \in Nat : ServerReplies(c, j)
  <2>1. i \in Nat
    BY <1>1, <1>2
  <2>2. Sends("reply", c, i)
    BY <1>1, <1>3, <2>1, SendsOne
  <2> QED
    BY <1>3, <2>1, <2>2 DEF ServerReplies
<1>4. ASSUME Monitors(<<Message("error", c, NoId)>>) PROVE Sends("error", c, NoId)
  BY <1>1, <1>4, SendsOne DEF NoId
<1> QED
  BY <1>3, <1>4 DEF ServerAnswers

ShowsAs(k, id) ==
    /\ \/ id = replaces[k] /\ id # NoId
       \/ id = nextId /\ replaces[k] \notin shown
    /\ rendered' = [rendered EXCEPT ![k] = id]
    /\ shown' = shown \cup {id}
    /\ nextId' = IF id = nextId THEN nextId + 1 ELSE nextId
    /\ SendsMarked(number[k], id)

LEMMA ShowSends ==
  ASSUME NoteTypes, Ids, NEW k \in Key, ShowCalls(k)
  PROVE  \E id \in Nat : ShowsAs(k, id)
<1>1. PICK id \in Assigned(replaces[k]) :
          /\ rendered' = [rendered EXCEPT ![k] = id]
          /\ shown' = shown \cup {id}
          /\ nextId' = IF id = nextId THEN nextId + 1 ELSE nextId
          /\ Monitors(<<Message("marked", number[k], NoId),
                        Message("reply", number[k], id)>>)
  BY DEF ShowCalls
<1>2. /\ replaces[k] \in Nat /\ nextId \in Nat /\ number[k] \in Nat
      /\ \A i \in shown : i # NoId
  BY DEF NoteTypes, Ids, NoId
<1>3. \/ id = replaces[k] /\ id # NoId
      \/ id = nextId /\ replaces[k] \notin shown
  BY <1>1, <1>2 DEF Assigned
<1>4. id \in Nat
  BY <1>2, <1>3
<1>5. SendsMarked(number[k], id)
  BY <1>1, <1>2, <1>4, SendsTwo
<1> QED
  BY <1>1, <1>3, <1>4, <1>5 DEF ShowsAs

-----------------------------------------------------------------------------
(* The initial state *)

LEMMA NoteInvInit == NoteInit => NoteInv
<1> SUFFICES ASSUME NoteInit PROVE NoteInv
  OBVIOUS
<1>1. /\ calls = 0 /\ nextId = 1 /\ waiting = {} /\ shown = {}
      /\ monitored = <<>> /\ Len(monitored) = 0 /\ pending = {}
      /\ pushing = <<"idle", 0>> /\ phoneHas = {} /\ missing = {}
      /\ showing = [k \in Key |-> "idle"] /\ number = [k \in Key |-> 0]
      /\ replaces = [k \in Key |-> 0] /\ rendered = [k \in Key |-> 0]
      /\ byLinux = [i \in Id |-> NoKey] /\ byKey = [k \in Key |-> 0]
      /\ originIDs = {} /\ closings = <<>> /\ Len(closings) = 0 /\ onPhone = {}
      /\ arriving = [k \in Key |-> {}]
  BY DEF NoteInit, NoId
<1>2. /\ \A m : m \notin 1..Len(monitored) /\ m \notin 1..Len(closings)
      /\ \A i : i \notin 1..(nextId - 1)
  BY <1>1
<1>3. NoteTypes
  BY <1>1, NotificationsAssumption DEF NoteTypes
<1>4. Unanswered = {} /\ \A k \in Key : Coming(k) = {}
  BY <1>1 DEF Unanswered, Coming
<1>5. Numbering
  <2>1. Cardinality(Unanswered) = 0
    BY <1>4, FS_EmptySet
  <2> QED
    BY <1>1, <1>4, <2>1, NotificationsAssumption DEF Numbering
<1>6. Messages
  BY <1>1, <1>2 DEF Messages
<1>7. BridgeIds \subseteq {NoId}
  BY <1>1 DEF BridgeIds, NoId
<1>8. Ids
  BY <1>1, <1>2, <1>7 DEF Ids, NoId
<1>9. EchoFree
  BY <1>1, <1>2 DEF EchoFree, NoEcho
<1>10. InOrder
  BY <1>1, <1>2 DEF InOrder
<1>11. Ending
  BY <1>1, <1>2 DEF Ending
<1>12. Maps
  BY <1>1, NotificationsAssumption DEF Maps, NoId, Id
<1>13. Dismissal
  BY <1>1, <1>2 DEF Dismissal
<1> QED
  BY <1>3, <1>5, <1>6, <1>8, <1>9, <1>10, <1>11, <1>12, <1>13 DEF NoteInv

-----------------------------------------------------------------------------
(* Types *)

LEMMA HostTypes ==
  ASSUME NoteTypes, Ids,
         \/ AppNotifies
         \/ \E c \in 1..MaxCalls : ServerAnswers(c)
         \/ \E i \in Id : Closed(i)
  PROVE  NoteTypes'
<1>1. CASE AppNotifies
  <2>1. PICK msg \in Msg : Adds({msg})
    BY <1>1, AppSends DEF Sends
  <2> QED
    BY <1>1, <2>1 DEF AppNotifies, NoteTypes, Adds, showNotes, bridgeNotes
<1>2. ASSUME NEW c \in 1..MaxCalls, ServerAnswers(c) PROVE NoteTypes'
  <2>1. UNCHANGED <<calls, pushing, showNotes, bridgeNotes>>
    BY <1>2 DEF ServerAnswers
  <2>2. /\ nextId' \in {nextId, nextId + 1}
        /\ \E msg \in Msg : Adds({msg})
    BY <1>2, AnswerSends DEF ServerReplies, Sends
  <2> QED
    BY <2>1, <2>2 DEF Adds, NoteTypes, showNotes, bridgeNotes
<1>3. ASSUME NEW i \in Id, Closed(i) PROVE NoteTypes'
  <2>1. i \in Nat
    BY DEF Id
  <2>2. closings' \in Seq(Nat)
    BY <1>3, <2>1 DEF Closed, NoteTypes
  <2>3. PICK msg \in Msg : Adds({msg})
    BY <1>3, ClosingSends DEF Sends
  <2> QED
    BY <1>3, <2>2, <2>3 DEF Closed, NoteTypes, Adds, showNotes
<1> QED
  BY <1>1, <1>2, <1>3

LEMMA WatcherTypes ==
  ASSUME NoteTypes,
         \/ HoldCall \/ DropCall \/ MatchReply \/ ForwardClosing
         \/ SyncNotification \/ ClearNotification \/ PhoneNotReached
         \/ \E i \in Id : PhoneSweeps(i)
  PROVE  NoteTypes'
<1>1. UNCHANGED <<hostNotes, showNotes, bridgeNotes>>
  BY DEF HoldCall, DropCall, MatchReply, ForwardClosing, SyncNotification,
         ClearNotification, PhoneNotReached, PhoneSweeps, WatcherGoesOn
<1>2. /\ UNCHANGED <<calls, nextId, closings, showing, number, replaces, rendered,
                     arriving, byKey, byLinux>>
  BY <1>1 DEF hostNotes, showNotes, bridgeNotes
<1>3. /\ monitored' \in Seq(Msg) /\ Len(monitored') <= MonitorRoom
      /\ pushing' \in {"idle", "push", "clear"} \X Nat
  <2>1. CASE HoldCall \/ DropCall
    <3>1. UNCHANGED pushing
      BY <2>1 DEF HoldCall, DropCall
    <3>2. \E kind : Received(kind)
      BY <2>1 DEF HoldCall, DropCall
    <3> QED
      BY <3>1, <3>2, TakesHead DEF Takes, NoteTypes
  <2>2. CASE MatchReply
    <3>1. /\ Received("reply")
          /\ pushing' \in {pushing, <<"push", Head(monitored).id>>}
      BY <2>2 DEF MatchReply
    <3> QED
      BY <3>1, TakesHead DEF Takes, NoteTypes
  <2>3. CASE ForwardClosing
    <3>1. /\ Received("closed")
          /\ pushing' \in {pushing, <<"clear", Head(monitored).id>>}
      BY <2>3 DEF ForwardClosing
    <3> QED
      BY <3>1, TakesHead DEF Takes, NoteTypes
  <2>4. CASE SyncNotification \/ ClearNotification \/ PhoneNotReached
    BY <2>4 DEF SyncNotification, ClearNotification, PhoneNotReached,
                WatcherGoesOn, NoteTypes, NoId
  <2>5. CASE \E i \in Id : PhoneSweeps(i)
    BY <2>5 DEF PhoneSweeps, NoteTypes
  <2> QED
    BY <2>1, <2>2, <2>3, <2>4, <2>5
<1> QED
  BY <1>2, <1>3 DEF NoteTypes

LEMMA BridgeTypes ==
  ASSUME NoteTypes, Ids, NEW k \in Key,
         \/ PhonePosts(k) \/ PhoneRemoves(k)
         \/ ShowBegins(k) \/ ShowCalls(k) \/ ShowFails(k)
         \/ ShowRecords(k) \/ ShowMarks(k) \/ ReplyEnds(k)
  PROVE  NoteTypes'
<1>1. CASE PhonePosts(k)
  <2>1. \/ /\ calls' = calls + 1
           /\ arriving' = [arriving EXCEPT ![k] = @ \cup {calls'}]
        \/ UNCHANGED <<calls, arriving>>
    BY <1>1 DEF PhonePosts
  <2>2. calls' \in Nat /\ arriving' \in [Key -> SUBSET Nat]
    <3>1. ASSUME calls' = calls + 1,
                 arriving' = [arriving EXCEPT ![k] = @ \cup {calls'}]
          PROVE  calls' \in Nat /\ arriving' \in [Key -> SUBSET Nat]
      <4>1. calls' \in Nat /\ arriving[k] \cup {calls'} \in SUBSET Nat
        BY <3>1 DEF NoteTypes
      <4> QED
        BY <3>1, <4>1 DEF NoteTypes
    <3> QED
      BY <2>1, <3>1 DEF NoteTypes
  <2> QED
    BY <1>1, <2>2 DEF PhonePosts, NoteTypes, watcherNotes, showNotes
<1>2. CASE PhoneRemoves(k)
  BY <1>2 DEF PhoneRemoves, NoteTypes, hostNotes, watcherNotes, showNotes
<1>3. CASE ShowBegins(k)
  <2>1. /\ showing' = [showing EXCEPT ![k] = "call"]
        /\ \E c \in arriving[k] :
              /\ arriving' = [arriving EXCEPT ![k] = @ \ {c}]
              /\ number' = [number EXCEPT ![k] = c]
        /\ replaces' = [replaces EXCEPT ![k] = byKey[k]]
        /\ UNCHANGED <<hostNotes, watcherNotes, rendered, byLinux, byKey, closings>>
    BY <1>3 DEF ShowBegins
  <2>2. number' \in [Key -> Nat] /\ arriving' \in [Key -> SUBSET Nat]
    BY <2>1 DEF NoteTypes
  <2> QED
    BY <2>1, <2>2 DEF NoteTypes, hostNotes, watcherNotes
<1>4. CASE ShowCalls(k)
  <2>1. /\ showing' = [showing EXCEPT ![k] = "record"]
        /\ UNCHANGED <<calls, pushing, number, replaces, byLinux, byKey, closings,
                       arriving>>
    BY <1>4 DEF ShowCalls, bridgeNotes
  <2>2. PICK id \in Nat : ShowsAs(k, id)
    BY <1>4, ShowSends
  <2>3. /\ rendered' \in [Key -> Nat] /\ nextId' \in Nat
        /\ monitored' \in Seq(Msg) /\ Len(monitored') <= MonitorRoom
    <3>1. rendered' = [rendered EXCEPT ![k] = id] /\ nextId' \in {nextId, nextId + 1}
      BY <2>2 DEF ShowsAs
    <3>2. PICK S : Adds(S)
      BY <2>2 DEF ShowsAs, SendsMarked
    <3> QED
      BY <3>1, <3>2 DEF NoteTypes, Adds
  <2> QED
    BY <2>1, <2>3 DEF NoteTypes
<1>5. CASE ShowFails(k)
  BY <1>5 DEF ShowFails, NoteTypes, hostNotes, watcherNotes, NoId
<1>6. CASE ShowRecords(k)
  <2>1. byLinux' \in [Id -> Key \cup {NoKey}] /\ byKey' \in [Key -> Nat]
    BY <1>6 DEF ShowRecords, Record, NoteTypes
  <2> QED
    BY <1>6, <2>1 DEF ShowRecords, NoteTypes, hostNotes, watcherNotes
<1>7. CASE ShowMarks(k)
  BY <1>7 DEF ShowMarks, NoteTypes, hostNotes, watcherNotes, NoId
<1>8. CASE ReplyEnds(k)
  BY <1>8 DEF ReplyEnds, NoteTypes, hostNotes, watcherNotes, showNotes
<1> QED
  BY <1>1, <1>2, <1>3, <1>4, <1>5, <1>6, <1>7, <1>8

LEMMA SignalTypes ==
  ASSUME NoteTypes, BridgeSeesClosing \/ \E i \in Id : ReplyBegins(i)
  PROVE  NoteTypes'
<1>1. CASE BridgeSeesClosing
  <2>1. /\ closings # <<>> /\ closings' = Tail(closings)
        /\ byLinux' = [byLinux EXCEPT ![Head(closings)] = NoKey]
        /\ byKey' = [j \in Key |-> IF j = byLinux[Head(closings)] THEN NoId
                                   ELSE byKey[j]]
        /\ UNCHANGED <<hostNotes, watcherNotes, showNotes, arriving>>
    BY <1>1 DEF BridgeSeesClosing, Forgotten
  <2>2. closings' \in Seq(Nat)
    BY <2>1 DEF NoteTypes
  <2>3. byKey' \in [Key -> Nat] /\ byLinux' \in [Id -> Key \cup {NoKey}]
    BY <2>1 DEF NoteTypes, NoId
  <2> QED
    BY <2>1, <2>2, <2>3 DEF NoteTypes, hostNotes, watcherNotes, showNotes
<1>2. ASSUME NEW i \in Id, ReplyBegins(i) PROVE NoteTypes'
  BY <1>2 DEF ReplyBegins, NoteTypes, hostNotes, watcherNotes, showNotes
<1> QED
  BY <1>1, <1>2

-----------------------------------------------------------------------------
(* Calls and their numbers *)

LEMMA UnansweredIsFinite ==
  ASSUME NoteTypes, Numbering
  PROVE  /\ IsFiniteSet(Unanswered) /\ Cardinality(Unanswered) \in Nat
         /\ calls \in Nat /\ calls + 1 \notin Unanswered
<1>1. calls \in Nat /\ Unanswered \subseteq 1..calls
  BY DEF NoteTypes, Numbering
<1>2. IsFiniteSet(1..calls)
  BY <1>1, FS_Interval
<1>3. IsFiniteSet(Unanswered)
  BY <1>1, <1>2, FS_Subset
<1> QED
  BY <1>1, <1>3, FS_CardinalityType

LEMMA ComingWaits ==
  ASSUME NEW k \in Key
  PROVE  Coming(k) \subseteq Unanswered /\ waiting \subseteq Unanswered
BY DEF Unanswered

(* Most steps leave the calls that are to come alone.                      *)
LEMMA NumberingStays ==
  ASSUME NoteTypes, Numbering, UNCHANGED <<calls, nextId, waiting>>,
         \A k \in Key : Coming(k)' = Coming(k),
         \A k \in Key : showing'[k] = "call" => number'[k] \notin arriving'[k]
  PROVE  Numbering' /\ CallsPast
<1>1. Unanswered' = Unanswered
  BY DEF Unanswered
<1> QED
  BY <1>1 DEF Numbering, CallsPast, NoteTypes

(* An application's call, or the next version of a notification.           *)
LEMMA NumberingGrows ==
  ASSUME NoteTypes, Numbering, calls < MaxCalls, calls' = calls + 1,
         UNCHANGED <<nextId, number, showing>>,
         \/ waiting' = waiting \cup {calls'} /\ UNCHANGED arriving
         \/ /\ UNCHANGED waiting
            /\ \E k \in Key : arriving' = [arriving EXCEPT ![k] = @ \cup {calls'}]
  PROVE  Numbering' /\ CallsPast
<1>1. /\ calls + 1 \notin Unanswered /\ calls \in Nat /\ MaxCalls \in Nat
      /\ IsFiniteSet(Unanswered) /\ Cardinality(Unanswered) \in Nat
      /\ nextId \in Nat
  BY UnansweredIsFinite, NotificationsAssumption DEF NoteTypes
<1>2. /\ Cardinality(Unanswered \cup {calls + 1}) = Cardinality(Unanswered) + 1
      /\ Unanswered \cup {calls + 1} \subseteq 1..(calls + 1)
      /\ nextId + Cardinality(Unanswered \cup {calls + 1}) <= (calls + 1) + 1
      /\ calls + 1 <= MaxCalls
      /\ \A c \in 1..calls : c # calls + 1
  <2>1. Cardinality(Unanswered \cup {calls + 1}) = Cardinality(Unanswered) + 1
    BY <1>1, FS_AddElement
  <2> QED
    BY <1>1, <2>1 DEF Numbering
<1>3. \A k \in Key : /\ Coming(k) \subseteq Unanswered /\ waiting \subseteq Unanswered
                     /\ showing[k] = "call" => number[k] \in Unanswered
  BY ComingWaits DEF Coming
<1>4. CASE waiting' = waiting \cup {calls'} /\ UNCHANGED arriving
  <2>1. \A k \in Key : Coming(k)' = Coming(k)
    BY <1>4 DEF Coming
  <2>2. Unanswered' = Unanswered \cup {calls + 1}
    BY <1>4, <2>1 DEF Unanswered
  <2> QED
    BY <1>1, <1>2, <1>3, <1>4, <2>1, <2>2 DEF Numbering, CallsPast
<1>5. ASSUME NEW k \in Key, UNCHANGED waiting,
             arriving' = [arriving EXCEPT ![k] = @ \cup {calls'}]
      PROVE  Numbering' /\ CallsPast
  <2>1. /\ arriving'[k] = arriving[k] \cup {calls + 1}
        /\ \A l \in Key \ {k} : arriving'[l] = arriving[l]
    BY <1>5 DEF NoteTypes
  <2>2. /\ Coming(k)' = Coming(k) \cup {calls + 1}
        /\ \A l \in Key \ {k} : Coming(l)' = Coming(l)
    BY <2>1 DEF Coming
  <2>3. Unanswered' = Unanswered \cup {calls + 1}
    BY <1>5, <2>2 DEF Unanswered
  <2>4. \A l \in Key : showing'[l] = "call" => number'[l] \notin arriving'[l]
    <3> SUFFICES ASSUME NEW l \in Key, showing[l] = "call"
                 PROVE  number[l] \notin arriving'[l]
      OBVIOUS
    <3>1. number[l] \notin arriving[l] /\ number[l] # calls + 1
      BY <1>1, <1>3 DEF Numbering
    <3> QED
      BY <2>1, <3>1
  <2>5. \A l \in Key : /\ Coming(l)' \cap waiting = {}
                       /\ \A j \in Key \ {l} : Coming(l)' \cap Coming(j)' = {}
    BY <1>1, <1>3, <2>2 DEF Numbering
  <2> QED
    BY <1>1, <1>2, <1>5, <2>2, <2>3, <2>4, <2>5 DEF Numbering, CallsPast
<1> QED
  BY <1>4, <1>5

(* The server has seen a call; it assigns one id at most.                  *)
LEMMA NumberingShrinks ==
  ASSUME NoteTypes, Numbering, NEW c \in Unanswered, UNCHANGED calls,
         nextId' \in {nextId, nextId + 1},
         waiting' = waiting \ {c},
         \A k \in Key : Coming(k)' = Coming(k) \ {c},
         \A k \in Key : showing'[k] = "call" => number'[k] \notin arriving'[k]
  PROVE  Numbering' /\ CallsPast
<1>1. Unanswered' = Unanswered \ {c}
  BY DEF Unanswered
<1>2. /\ IsFiniteSet(Unanswered) /\ Cardinality(Unanswered) \in Nat
      /\ calls \in Nat /\ nextId \in Nat
  BY UnansweredIsFinite DEF NoteTypes
<1>3. Cardinality(Unanswered \ {c}) = Cardinality(Unanswered) - 1
  BY <1>2, FS_RemoveElement
<1>4. nextId' + Cardinality(Unanswered') <= calls' + 1
  BY <1>1, <1>2, <1>3 DEF Numbering
<1> QED
  BY <1>1, <1>2, <1>4 DEF Numbering, CallsPast

(* A call that the bridge makes is in no other place.                      *)
LEMMA NumberIsAlone ==
  ASSUME Numbering, NEW k \in Key, showing[k] = "call"
  PROVE  /\ number[k] \in Unanswered /\ number[k] \notin waiting
         /\ Coming(k) \ {number[k]} = arriving[k]
         /\ \A l \in Key \ {k} : Coming(l) \ {number[k]} = Coming(l)
<1>1. /\ number[k] \in Coming(k) /\ Coming(k) = arriving[k] \cup {number[k]}
      /\ number[k] \notin arriving[k]
  BY DEF Numbering, Coming
<1>2. number[k] \notin waiting /\ \A l \in Key \ {k} : number[k] \notin Coming(l)
  BY <1>1 DEF Numbering
<1> QED
  BY <1>1, <1>2, ComingWaits

LEMMA NumberingNext ==
  ASSUME NoteTypes, Numbering, Ids, NoteNext
  PROVE  Numbering' /\ CallsPast
<1>1. ASSUME UNCHANGED <<calls, nextId, waiting, number, showing, arriving>>
      PROVE  Numbering' /\ CallsPast
  <2>1. \A k \in Key : Coming(k)' = Coming(k)
    BY <1>1 DEF Coming
  <2> QED
    BY <1>1, <2>1, NumberingStays DEF Numbering
<1>2. CASE AppNotifies
  BY <1>2, NumberingGrows DEF AppNotifies, showNotes, bridgeNotes
<1>3. ASSUME NEW c \in 1..MaxCalls, ServerAnswers(c) PROVE Numbering' /\ CallsPast
  <2>1. /\ c \in waiting /\ waiting' = waiting \ {c}
        /\ UNCHANGED <<calls, number, showing, arriving>>
    BY <1>3 DEF ServerAnswers, showNotes, bridgeNotes
  <2>2. nextId' \in {nextId, nextId + 1}
    BY <1>3, AnswerSends DEF ServerReplies
  <2>3. c \in Unanswered /\ \A k \in Key : Coming(k)' = Coming(k) /\ c \notin Coming(k)
    BY <2>1 DEF Numbering, Coming, Unanswered
  <2> QED
    BY <2>1, <2>2, <2>3, NumberingShrinks DEF Numbering
<1>4. ASSUME NEW i \in Id, Closed(i) \/ ReplyBegins(i) \/ PhoneSweeps(i)
      PROVE  Numbering' /\ CallsPast
  BY <1>1, <1>4 DEF Closed, ReplyBegins, PhoneSweeps, hostNotes, showNotes,
                    bridgeNotes
<1>5. CASE \/ HoldCall \/ DropCall \/ MatchReply \/ ForwardClosing
           \/ SyncNotification \/ ClearNotification \/ PhoneNotReached
  <2>1. UNCHANGED <<hostNotes, showNotes, bridgeNotes>>
    BY <1>5 DEF HoldCall, DropCall, MatchReply, ForwardClosing, SyncNotification,
                ClearNotification, PhoneNotReached, WatcherGoesOn
  <2> QED
    BY <1>1, <2>1 DEF hostNotes, showNotes, bridgeNotes
<1>6. CASE BridgeSeesClosing
  BY <1>1, <1>6 DEF BridgeSeesClosing, Forgotten, hostNotes, showNotes
<1>7. ASSUME NEW k \in Key, PhonePosts(k) PROVE Numbering' /\ CallsPast
  <2>1. UNCHANGED <<waiting, nextId, showNotes>> /\ calls < MaxCalls
    BY <1>7 DEF PhonePosts
  <2>2. CASE /\ calls' = calls + 1
             /\ arriving' = [arriving EXCEPT ![k] = @ \cup {calls'}]
    BY <2>1, <2>2, NumberingGrows DEF showNotes
  <2>3. CASE UNCHANGED <<calls, arriving>>
    BY <1>1, <2>1, <2>3 DEF showNotes
  <2> QED
    BY <1>7, <2>2, <2>3 DEF PhonePosts
<1>8. ASSUME NEW k \in Key, PhoneRemoves(k) \/ ReplyEnds(k)
      PROVE  Numbering' /\ CallsPast
  BY <1>1, <1>8 DEF PhoneRemoves, ReplyEnds, hostNotes, showNotes
<1>9. ASSUME NEW k \in Key, ShowBegins(k) PROVE Numbering' /\ CallsPast
  <2>1. PICK c \in arriving[k] : /\ arriving' = [arriving EXCEPT ![k] = @ \ {c}]
                                 /\ number' = [number EXCEPT ![k] = c]
    BY <1>9 DEF ShowBegins
  <2>2. /\ showing[k] = "idle" /\ showing' = [showing EXCEPT ![k] = "call"]
        /\ UNCHANGED <<calls, nextId, waiting>>
    BY <1>9 DEF ShowBegins, hostNotes
  <2>3. /\ arriving'[k] = arriving[k] \ {c} /\ number'[k] = c /\ showing'[k] = "call"
        /\ \A l \in Key \ {k} : /\ arriving'[l] = arriving[l]
                                /\ number'[l] = number[l] /\ showing'[l] = showing[l]
    BY <2>1, <2>2 DEF NoteTypes
  <2>4. \A l \in Key : Coming(l)' = Coming(l)
    <3>1. Coming(k)' = Coming(k)
      BY <2>2, <2>3 DEF Coming
    <3>2. \A l \in Key \ {k} : Coming(l)' = Coming(l)
      BY <2>3 DEF Coming
    <3> QED
      BY <3>1, <3>2
  <2>5. \A l \in Key : showing'[l] = "call" => number'[l] \notin arriving'[l]
    BY <2>3 DEF Numbering
  <2> QED
    BY <2>2, <2>4, <2>5, NumberingStays
<1>10. ASSUME NEW k \in Key, ShowCalls(k) \/ ShowFails(k)
       PROVE  Numbering' /\ CallsPast
  <2>1. /\ showing[k] = "call"
        /\ \/ showing' = [showing EXCEPT ![k] = "record"]
           \/ showing' = [showing EXCEPT ![k] = "idle"]
        /\ \A l \in Key \ {k} : number'[l] = number[l]
        /\ UNCHANGED <<calls, waiting, arriving>>
    BY <1>10 DEF ShowCalls, ShowFails, hostNotes, bridgeNotes, NoteTypes
  <2>2. /\ showing'[k] # "call"
        /\ \A l \in Key \ {k} : showing'[l] = showing[l]
    BY <2>1 DEF NoteTypes
  <2>3. nextId' \in {nextId, nextId + 1}
    <3>1. CASE ShowCalls(k)
      BY <3>1, ShowSends DEF ShowsAs
    <3>2. CASE ShowFails(k)
      BY <3>2 DEF ShowFails, hostNotes
    <3> QED
      BY <1>10, <3>1, <3>2
  <2>4. /\ Coming(k)' = arriving[k]
        /\ \A l \in Key \ {k} : Coming(l)' = Coming(l)
    BY <2>1, <2>2 DEF Coming
  <2>5. /\ number[k] \in Unanswered /\ waiting' = waiting \ {number[k]}
        /\ \A l \in Key : Coming(l)' = Coming(l) \ {number[k]}
    BY <2>1, <2>4, NumberIsAlone
  <2>6. \A l \in Key : showing'[l] = "call" => number'[l] \notin arriving'[l]
    BY <2>1, <2>2 DEF Numbering
  <2> QED
    BY <2>1, <2>3, <2>5, <2>6, NumberingShrinks
<1>11. ASSUME NEW k \in Key, ShowRecords(k) \/ ShowMarks(k)
       PROVE  Numbering' /\ CallsPast
  <2>1. /\ showing[k] \in {"record", "mark"}
        /\ \/ showing' = [showing EXCEPT ![k] = "mark"]
           \/ showing' = [showing EXCEPT ![k] = "idle"]
        /\ \A l \in Key \ {k} : number'[l] = number[l]
        /\ UNCHANGED <<calls, nextId, waiting, arriving>>
    BY <1>11 DEF ShowRecords, ShowMarks, hostNotes, NoteTypes
  <2>2. /\ showing'[k] # "call"
        /\ \A l \in Key \ {k} : showing'[l] = showing[l]
    BY <2>1 DEF NoteTypes
  <2>3. \A l \in Key : Coming(l)' = Coming(l)
    <3>1. Coming(k)' = Coming(k)
      BY <2>1, <2>2 DEF Coming
    <3>2. \A l \in Key \ {k} : Coming(l)' = Coming(l)
      BY <2>1, <2>2 DEF Coming
    <3> QED
      BY <3>1, <3>2
  <2>4. \A l \in Key : showing'[l] = "call" => number'[l] \notin arriving'[l]
    BY <2>1, <2>2 DEF Numbering
  <2> QED
    BY <2>1, <2>3, <2>4, NumberingStays
<1> QED
  BY <1>2, <1>3, <1>4, <1>5, <1>6, <1>7, <1>8, <1>9, <1>10, <1>11 DEF NoteNext

-----------------------------------------------------------------------------
(* Ids *)

LEMMA BelowGrows ==
  ASSUME NEW n \in Nat, NEW m \in Nat, n <= m
  PROVE  /\ 1..n \subseteq 1..m
         /\ 1..(n - 1) \subseteq 1..(m - 1) /\ 0..(n - 1) \subseteq 0..(m - 1)
OBVIOUS

LEMMA BelowIsOther ==
  ASSUME NEW n \in Nat
  PROVE  /\ \A i \in 1..(n - 1) : i # n /\ i # 0 /\ i \in 0..(n - 1)
         /\ \A i \in 0..(n - 1) : i # 0 => i \in 1..(n - 1)
         /\ 1 <= n => 0 \in 0..(n - 1) /\ n \in 1..((n + 1) - 1)
OBVIOUS

LEMMA IdsGrow ==
  ASSUME NoteTypes, nextId' \in {nextId, nextId + 1}
  PROVE  /\ nextId <= nextId'
         /\ 1..(nextId - 1) \subseteq 1..(nextId' - 1)
         /\ 0..(nextId - 1) \subseteq 0..(nextId' - 1)
         /\ \A i \in 1..(nextId - 1) : i # nextId /\ i # NoId
<1>1. nextId \in Nat
  BY DEF NoteTypes
<1>2. nextId' \in Nat /\ nextId <= nextId'
  BY <1>1
<1> QED
  BY <1>1, <1>2, BelowGrows, BelowIsOther DEF NoId

(* Steps that leave the bridge's ids and the screen alone.                 *)
LEMMA IdsStay ==
  ASSUME NoteTypes, Ids,
         UNCHANGED <<nextId, shown, originIDs, rendered, showing>>,
         phoneHas' \subseteq 1..(nextId - 1),
         pushing'[1] = "push" => pushing'[2] \in 1..(nextId - 1),
         \A k \in Key : /\ byKey'[k] \in BridgeIds \cup {NoId}
                        /\ replaces'[k] \in BridgeIds \cup {NoId},
         \A m \in 1..Len(closings') : closings'[m] \in 1..(nextId - 1)
  PROVE  Ids' /\ IdsPast
<1>1. BridgeIds' = BridgeIds
  BY DEF BridgeIds
<1> QED
  BY <1>1 DEF Ids, IdsPast, NoteTypes

LEMMA HostIds ==
  ASSUME NoteTypes, Ids,
         \/ AppNotifies
         \/ \E c \in 1..MaxCalls : ServerAnswers(c)
         \/ \E i \in Id : Closed(i)
  PROVE  Ids' /\ IdsPast
<1>1. CASE AppNotifies
  BY <1>1, IdsStay DEF AppNotifies, showNotes, bridgeNotes, Ids
<1>2. ASSUME NEW c \in 1..MaxCalls, ServerAnswers(c) PROVE Ids' /\ IdsPast
  <2>1. UNCHANGED <<pushing, phoneHas, showNotes, bridgeNotes>>
    BY <1>2 DEF ServerAnswers
  <2>2. UNCHANGED <<pushing, phoneHas, closings, originIDs, rendered, showing, byKey,
                    replaces>> /\ BridgeIds' = BridgeIds
    BY <2>1 DEF showNotes, bridgeNotes, BridgeIds
  <2>3. CASE UNCHANGED <<shown, nextId>>
    BY <2>2, <2>3, IdsStay DEF Ids
  <2>4. ASSUME NEW i \in Nat, ServerReplies(c, i) PROVE Ids' /\ IdsPast
    <3>1. /\ shown' = shown \cup {i} /\ nextId' \in {nextId, nextId + 1}
          /\ \/ i = nextId /\ nextId' = nextId + 1
             \/ i \in 1..(nextId - 1)
      BY <2>4 DEF ServerReplies
    <3>2. i \in 1..(nextId' - 1) /\ shown \subseteq 1..(nextId' - 1)
      <4>1. shown \subseteq 1..(nextId - 1) /\ nextId \in Nat /\ 1 <= nextId
        BY DEF Ids, NoteTypes
      <4>2. 1..(nextId - 1) \subseteq 1..(nextId' - 1)
        BY <3>1, IdsGrow
      <4>3. i = nextId /\ nextId' = nextId + 1 => i \in 1..(nextId' - 1)
        BY <4>1, BelowIsOther
      <4> QED
        BY <3>1, <4>1, <4>2, <4>3
    <3>3. IdsPast
      BY <2>2, <3>1, IdsGrow DEF IdsPast
    <3>4. 1 <= nextId'
      BY <3>1 DEF NoteTypes, Ids
    <3>5. /\ phoneHas' \subseteq 1..(nextId' - 1) /\ originIDs' \subseteq 1..(nextId' - 1)
          /\ \A k \in Key : rendered'[k] \in 0..(nextId' - 1)
          /\ \A m \in 1..Len(closings') : closings'[m] \in 1..(nextId' - 1)
          /\ pushing'[1] = "push" => pushing'[2] \in 1..(nextId' - 1)
      BY <2>2, <3>1, IdsGrow DEF Ids
    <3> QED
      BY <2>2, <3>1, <3>2, <3>3, <3>4, <3>5 DEF Ids
  <2> QED
    BY <1>2, <2>3, <2>4, AnswerSends
<1>3. ASSUME NEW i \in Id, Closed(i) PROVE Ids' /\ IdsPast
  <2>1. /\ i \in shown /\ shown' = shown \ {i} /\ closings' = Append(closings, i)
        /\ UNCHANGED <<nextId, pushing, phoneHas, originIDs, rendered, showing,
                       byKey, replaces>>
    BY <1>3 DEF Closed, showNotes
  <2>2. i \in 1..(nextId - 1) /\ closings \in Seq(Nat) /\ i \in Nat
    BY <2>1 DEF Ids, NoteTypes, Id
  <2>3. \A m \in 1..Len(closings') : closings'[m] \in 1..(nextId - 1)
    BY <2>1, <2>2 DEF Ids
  <2>4. BridgeIds' = BridgeIds
    BY <2>1 DEF BridgeIds
  <2> QED
    BY <2>1, <2>3, <2>4 DEF Ids, IdsPast, NoteTypes
<1> QED
  BY <1>1, <1>2, <1>3

LEMMA WatcherIds ==
  ASSUME NoteTypes, Ids, Messages,
         \/ HoldCall \/ DropCall \/ MatchReply \/ ForwardClosing
         \/ SyncNotification \/ ClearNotification \/ PhoneNotReached
         \/ \E i \in Id : PhoneSweeps(i)
  PROVE  Ids' /\ IdsPast
<1>1. UNCHANGED <<hostNotes, showNotes, bridgeNotes>>
  BY DEF HoldCall, DropCall, MatchReply, ForwardClosing, SyncNotification,
         ClearNotification, PhoneNotReached, PhoneSweeps, WatcherGoesOn
<1>2. UNCHANGED <<nextId, shown, closings, showing, replaces, rendered, originIDs, byKey>>
  BY <1>1 DEF hostNotes, showNotes, bridgeNotes
<1>3. /\ phoneHas' \subseteq 1..(nextId - 1)
      /\ pushing'[1] = "push" => pushing'[2] \in 1..(nextId - 1)
  <2>1. CASE HoldCall \/ DropCall
    BY <2>1 DEF HoldCall, DropCall, Ids
  <2>2. CASE MatchReply
    <3>1. /\ Received("reply") /\ UNCHANGED phoneHas
          /\ pushing' \in {pushing, <<"push", Head(monitored).id>>}
      BY <2>2 DEF MatchReply
    <3>2. Head(monitored).id \in 1..(nextId - 1)
      BY <3>1, TakesHead DEF Takes, Messages, At
    <3> QED
      BY <3>1, <3>2 DEF Ids
  <2>3. CASE ForwardClosing
    <3>1. /\ UNCHANGED phoneHas
          /\ pushing' \in {pushing, <<"clear", Head(monitored).id>>}
      BY <2>3 DEF ForwardClosing
    <3> QED
      BY <3>1 DEF Ids
  <2>4. CASE SyncNotification \/ ClearNotification \/ PhoneNotReached
    <3>1. pushing' = <<"idle", NoId>>
      BY <2>4 DEF SyncNotification, ClearNotification, PhoneNotReached, WatcherGoesOn
    <3>2. \/ phoneHas' \subseteq phoneHas
          \/ pushing[1] = "push" /\ phoneHas' = phoneHas \cup {pushing[2]}
      BY <2>4 DEF SyncNotification, ClearNotification, PhoneNotReached
    <3>3. /\ phoneHas \subseteq 1..(nextId - 1)
          /\ pushing[1] = "push" => pushing[2] \in 1..(nextId - 1)
      BY DEF Ids
    <3> QED
      BY <3>1, <3>2, <3>3
  <2>5. CASE \E i \in Id : PhoneSweeps(i)
    BY <2>5 DEF PhoneSweeps, Ids
  <2> QED
    BY <2>1, <2>2, <2>3, <2>4, <2>5
<1> QED
  BY <1>2, <1>3, IdsStay DEF Ids

LEMMA BridgeKeepsIds ==
  ASSUME NoteTypes, Ids, NEW k \in Key,
         \/ PhonePosts(k) \/ PhoneRemoves(k) \/ ReplyEnds(k)
         \/ ShowBegins(k) \/ ShowFails(k) \/ ShowRecords(k)
  PROVE  Ids' /\ IdsPast
<1>0. \A l \in Key : /\ byKey[l] \in BridgeIds \cup {NoId}
                     /\ replaces[l] \in BridgeIds \cup {NoId}
                     /\ rendered[l] \in BridgeIds
  BY DEF Ids, BridgeIds
<1>1. CASE PhonePosts(k) \/ PhoneRemoves(k) \/ ReplyEnds(k)
  <2>1. UNCHANGED <<nextId, shown, closings, showing, replaces, rendered, originIDs,
                    byKey, pushing, phoneHas>>
    BY <1>1 DEF PhonePosts, PhoneRemoves, ReplyEnds, hostNotes, showNotes, watcherNotes
  <2> QED
    BY <2>1, IdsStay DEF Ids
<1>2. CASE ShowBegins(k) \/ ShowFails(k)
  <2>1. /\ \/ replaces' = [replaces EXCEPT ![k] = byKey[k]]
           \/ replaces' = [replaces EXCEPT ![k] = NoId]
        /\ UNCHANGED <<nextId, shown, closings, rendered, originIDs, byKey, pushing,
                       phoneHas>>
        /\ \/ showing' = [showing EXCEPT ![k] = "call"]
           \/ showing' = [showing EXCEPT ![k] = "idle"]
        /\ showing[k] \in {"idle", "call"}
    BY <1>2 DEF ShowBegins, ShowFails, hostNotes, watcherNotes
  <2>2. \A l \in Key : replaces'[l] \in BridgeIds \cup {NoId}
    BY <1>0, <2>1 DEF NoteTypes
  <2>3. BridgeIds' = BridgeIds
    BY <2>1 DEF BridgeIds
  <2>4. rendered[k] = NoId /\ showing'[k] \in {"idle", "call"}
        /\ \A l \in Key \ {k} : showing'[l] = showing[l]
    BY <2>1 DEF Ids, NoteTypes
  <2> QED
    BY <1>0, <2>1, <2>2, <2>3, <2>4 DEF Ids, IdsPast, NoteTypes
<1>3. CASE ShowRecords(k)
  <2>1. /\ showing[k] = "record" /\ showing' = [showing EXCEPT ![k] = "mark"]
        /\ byKey' = [byKey EXCEPT ![k] = rendered[k]]
        /\ UNCHANGED <<nextId, shown, closings, replaces, rendered, originIDs, pushing,
                       phoneHas>>
    BY <1>3 DEF ShowRecords, hostNotes, watcherNotes
  <2>2. \A l \in Key : byKey'[l] \in BridgeIds \cup {NoId}
    BY <1>0, <2>1 DEF NoteTypes
  <2>3. BridgeIds' = BridgeIds
    BY <2>1 DEF BridgeIds
  <2>4. rendered[k] # NoId /\ showing'[k] = "mark"
        /\ \A l \in Key \ {k} : showing'[l] = showing[l]
    BY <2>1 DEF Ids, NoteTypes
  <2> QED
    BY <1>0, <2>1, <2>2, <2>3, <2>4 DEF Ids, IdsPast, NoteTypes
<1> QED
  BY <1>1, <1>2, <1>3

(* The id that Show gets, a new one or that of the notification it         *)
(* replaces, is the bridge's from now on.                                  *)
LEMMA ShowsAsOwn ==
  ASSUME NoteTypes, Ids, NEW k \in Key, NEW id \in Nat, ShowsAs(k, id),
         showing[k] = "call", originIDs' = originIDs
  PROVE  /\ nextId' \in {nextId, nextId + 1}
         /\ id \in 1..(nextId' - 1) /\ id # NoId
         /\ \/ /\ id \in 1..(nextId - 1) /\ id \in BridgeIds
               /\ id = replaces[k] /\ nextId' = nextId
            \/ id = nextId /\ nextId' = nextId + 1 /\ replaces[k] \notin shown
         /\ rendered'[k] = id
         /\ \A l \in Key \ {k} : rendered'[l] = rendered[l]
         /\ \A i : i # NoId => (i \in BridgeIds' <=> i \in BridgeIds \cup {id})
<1>1. /\ rendered' = [rendered EXCEPT ![k] = id] /\ nextId \in Nat /\ 1 <= nextId
      /\ \/ id = replaces[k] /\ id # NoId
         \/ id = nextId /\ replaces[k] \notin shown
      /\ nextId' = IF id = nextId THEN nextId + 1 ELSE nextId
      /\ originIDs \subseteq 1..(nextId - 1)
      /\ \A l \in Key : rendered[l] \in 0..(nextId - 1)
      /\ replaces[k] \in BridgeIds \cup {NoId}
      /\ rendered[k] = NoId
  BY DEF ShowsAs, Ids, NoteTypes
<1>2. \A i \in BridgeIds : i # NoId => i \in 1..(nextId - 1) /\ i # nextId
  <2>1. /\ \A i \in 0..(nextId - 1) : i # NoId => i \in 1..(nextId - 1)
        /\ \A i \in 1..(nextId - 1) : i # nextId
    BY <1>1, BelowIsOther DEF NoId
  <2>2. ASSUME NEW i \in BridgeIds PROVE i \in originIDs \/ i \in 0..(nextId - 1)
    BY <1>1, <2>2 DEF BridgeIds
  <2> QED
    BY <1>1, <2>1, <2>2
<1>3. /\ rendered'[k] = id
      /\ \A l \in Key \ {k} : rendered'[l] = rendered[l]
  BY <1>1 DEF NoteTypes
<1>4. \A i : i # NoId => (i \in BridgeIds' <=> i \in BridgeIds \cup {id})
  BY <1>1, <1>3 DEF BridgeIds
<1>5. CASE id = replaces[k] /\ id # NoId
  <2>1. /\ id \in BridgeIds /\ id \in 1..(nextId - 1) /\ id # nextId
    BY <1>1, <1>2, <1>5
  <2> QED
    BY <1>1, <1>3, <1>4, <1>5, <2>1
<1>6. CASE id = nextId /\ replaces[k] \notin shown
  <2>1. nextId' = nextId + 1 /\ id \in 1..(nextId' - 1) /\ id # NoId
    BY <1>1, <1>6 DEF NoId
  <2> QED
    BY <1>3, <1>4, <1>6, <2>1
<1> QED
  BY <1>1, <1>5, <1>6

LEMMA ShowIds ==
  ASSUME NoteTypes, Ids, NEW k \in Key, ShowCalls(k)
  PROVE  Ids' /\ IdsPast
<1>1. PICK id \in Nat : ShowsAs(k, id)
  BY ShowSends
<1>2. /\ showing[k] = "call" /\ showing' = [showing EXCEPT ![k] = "record"]
      /\ UNCHANGED <<pushing, phoneHas, replaces, byKey, closings, originIDs>>
      /\ shown' = shown \cup {id}
  BY <1>1 DEF ShowCalls, bridgeNotes, ShowsAs
<1>3. /\ nextId' \in {nextId, nextId + 1}
      /\ id \in 1..(nextId' - 1) /\ id # NoId
      /\ id \in BridgeIds \/ id = nextId
      /\ rendered'[k] = id
      /\ \A l \in Key \ {k} : rendered'[l] = rendered[l]
      /\ \A i : i # NoId => (i \in BridgeIds' <=> i \in BridgeIds \cup {id})
  BY <1>1, <1>2, ShowsAsOwn
<1>4. /\ showing'[k] = "record" /\ \A l \in Key \ {k} : showing'[l] = showing[l]
      /\ 1 <= nextId'
  BY <1>2, <1>3 DEF NoteTypes, Ids
<1>5. /\ shown' \subseteq 1..(nextId' - 1)
      /\ phoneHas' \subseteq 1..(nextId' - 1) /\ originIDs' \subseteq 1..(nextId' - 1)
      /\ \A m \in 1..Len(closings') : closings'[m] \in 1..(nextId' - 1)
      /\ pushing'[1] = "push" => pushing'[2] \in 1..(nextId' - 1)
  BY <1>2, <1>3, IdsGrow DEF Ids
<1>6. \A l \in Key : rendered'[l] \in 0..(nextId' - 1)
  <2>1. \A l \in Key : rendered[l] \in 0..(nextId' - 1)
    BY <1>3, IdsGrow DEF Ids
  <2>2. nextId' \in Nat
    BY <1>3 DEF NoteTypes
  <2>3. id \in 0..(nextId' - 1)
    BY <1>3, <2>2, BelowIsOther
  <2> QED
    BY <1>3, <2>1, <2>3
<1>7. \A l \in Key : /\ showing'[l] \in {"idle", "call"} => rendered'[l] = NoId
                     /\ showing'[l] \in {"record", "mark"} => rendered'[l] # NoId
  BY <1>3, <1>4 DEF Ids
<1>8. \A l \in Key : /\ byKey'[l] \in BridgeIds' \cup {NoId}
                     /\ replaces'[l] \in BridgeIds' \cup {NoId}
  BY <1>2, <1>3 DEF Ids
<1>9. IdsPast
  BY <1>2, <1>3, IdsGrow DEF IdsPast
<1> QED
  BY <1>4, <1>5, <1>6, <1>7, <1>8, <1>9 DEF Ids

LEMMA MarkIds ==
  ASSUME NoteTypes, Ids, NEW k \in Key, ShowMarks(k)
  PROVE  Ids' /\ IdsPast
<1>1. /\ showing[k] = "mark" /\ showing' = [showing EXCEPT ![k] = "idle"]
      /\ replaces' = [replaces EXCEPT ![k] = NoId]
      /\ rendered' = [rendered EXCEPT ![k] = NoId]
      /\ originIDs' = originIDs \cup {rendered[k]}
      /\ UNCHANGED <<nextId, shown, pushing, phoneHas, byKey, closings>>
  BY DEF ShowMarks, hostNotes, watcherNotes
<1>2. /\ showing'[k] = "idle" /\ rendered'[k] = NoId /\ replaces'[k] = NoId
      /\ \A l \in Key \ {k} : /\ showing'[l] = showing[l] /\ rendered'[l] = rendered[l]
                              /\ replaces'[l] = replaces[l]
  BY <1>1 DEF NoteTypes
<1>3. \A i : i # NoId => (i \in BridgeIds' <=> i \in BridgeIds)
  BY <1>1, <1>2 DEF BridgeIds
<1>4. /\ originIDs' \subseteq 1..(nextId - 1) /\ nextId \in Nat
      /\ 0 \in 0..(nextId - 1)
  <2>1. nextId \in Nat /\ 1 <= nextId /\ rendered[k] \in 0..(nextId - 1)
        /\ rendered[k] # 0 /\ originIDs \subseteq 1..(nextId - 1)
    BY <1>1 DEF Ids, NoteTypes, NoId
  <2>2. rendered[k] \in 1..(nextId - 1) /\ 0 \in 0..(nextId - 1)
    BY <2>1, BelowIsOther
  <2> QED
    BY <1>1, <2>1, <2>2
<1>5. \A l \in Key : /\ byKey'[l] \in BridgeIds' \cup {NoId}
                     /\ replaces'[l] \in BridgeIds' \cup {NoId}
  BY <1>1, <1>2, <1>3 DEF Ids
<1>6. \A l \in Key : /\ rendered'[l] \in 0..(nextId - 1)
                     /\ showing'[l] \in {"idle", "call"} => rendered'[l] = NoId
                     /\ showing'[l] \in {"record", "mark"} => rendered'[l] # NoId
  BY <1>2, <1>4 DEF Ids, NoId
<1>7. \A i \in 1..(nextId - 1) : i # NoId
  BY <1>4 DEF NoId
<1>8. IdsPast
  BY <1>1, <1>3, <1>4, <1>7 DEF IdsPast
<1> QED
  BY <1>1, <1>4, <1>5, <1>6, <1>8 DEF Ids

LEMMA SignalIds ==
  ASSUME NoteTypes, Ids, BridgeSeesClosing \/ \E i \in Id : ReplyBegins(i)
  PROVE  Ids' /\ IdsPast
<1>1. CASE BridgeSeesClosing
  <2>1. /\ closings # <<>> /\ closings' = Tail(closings)
        /\ byKey' = [j \in Key |-> IF j = byLinux[Head(closings)] THEN NoId
                                   ELSE byKey[j]]
        /\ UNCHANGED <<nextId, shown, pushing, phoneHas, showing, replaces, rendered,
                       originIDs>>
    BY <1>1 DEF BridgeSeesClosing, Forgotten, hostNotes, watcherNotes, showNotes
  <2>2. \A l \in Key : byKey'[l] \in BridgeIds \cup {NoId}
    BY <2>1 DEF Ids
  <2>3. \A m \in 1..Len(closings') :
            m + 1 \in 1..Len(closings) /\ closings'[m] = closings[m + 1]
    BY <2>1 DEF NoteTypes
  <2>4. \A m \in 1..Len(closings') : closings'[m] \in 1..(nextId - 1)
    BY <2>3 DEF Ids
  <2> QED
    BY <2>1, <2>2, <2>4, IdsStay DEF Ids
<1>2. ASSUME NEW i \in Id, ReplyBegins(i) PROVE Ids' /\ IdsPast
  <2>1. UNCHANGED <<nextId, shown, closings, showing, replaces, rendered, originIDs,
                    byKey, pushing, phoneHas>>
    BY <1>2 DEF ReplyBegins, hostNotes, showNotes, watcherNotes
  <2> QED
    BY <2>1, IdsStay DEF Ids
<1> QED
  BY <1>1, <1>2

LEMMA IdsNext ==
  ASSUME NoteTypes, Ids, Messages, NoteNext
  PROVE  Ids' /\ IdsPast
BY HostIds, WatcherIds, BridgeKeepsIds, ShowIds, MarkIds, SignalIds DEF NoteNext

-----------------------------------------------------------------------------
(* Messages *)

LEMMA AnsweredStays ==
  ASSUME CallsPast, NEW c \in 1..calls, c \notin Unanswered
  PROVE  c \notin Unanswered'
BY DEF CallsPast, Unanswered

LEMMA EarlierGrow ==
  ASSUME NoteTypes, NoteTypes', CallsPast, IdsPast
  PROVE  1..calls \subseteq 1..calls' /\ 1..(nextId - 1) \subseteq 1..(nextId' - 1)
<1>1. /\ calls \in Nat /\ calls' \in Nat /\ nextId \in Nat /\ nextId' \in Nat
      /\ calls <= calls' /\ nextId <= nextId'
  BY DEF NoteTypes, CallsPast, IdsPast
<1> QED
  BY <1>1, BelowGrows

(* A message of the queue, and what is true of it on its own.              *)
SoundMessage(msg) ==
    /\ msg.kind = "call" =>
           msg.call \in 1..calls /\ \A k \in Key : msg.call \notin Coming(k)
    /\ msg.kind \in {"reply", "error"} => msg.call \in (1..calls) \ Unanswered
    /\ msg.kind \in {"reply", "closed"} => msg.id \in 1..(nextId - 1)

SoundLater(msg) ==
    /\ msg.kind = "call" =>
           msg.call \in 1..calls' /\ \A k \in Key : msg.call \notin Coming(k)'
    /\ msg.kind \in {"reply", "error"} => msg.call \in (1..calls') \ Unanswered'
    /\ msg.kind \in {"reply", "closed"} => msg.id \in 1..(nextId' - 1)

LEMMA SoundStays ==
  ASSUME NoteTypes, NoteTypes', CallsPast, IdsPast, NEW msg, SoundMessage(msg)
  PROVE  SoundLater(msg)
<1>1. msg.kind = "call" => msg.call \in 1..calls' /\ \A k \in Key : msg.call \notin Coming(k)'
  BY EarlierGrow DEF SoundMessage, CallsPast
<1>2. msg.kind \in {"reply", "error"} => msg.call \in (1..calls') \ Unanswered'
  BY EarlierGrow, AnsweredStays DEF SoundMessage
<1>3. msg.kind \in {"reply", "closed"} => msg.id \in 1..(nextId' - 1)
  BY EarlierGrow DEF SoundMessage
<1> QED
  BY <1>1, <1>2, <1>3 DEF SoundLater

Answer(msg) == msg.kind \in {"reply", "error"}

LEMMA PendingStays ==
  ASSUME NoteTypes, NoteTypes', CallsPast, IdsPast, Messages,
         \A c \in pending' :
             c \in pending \/ (c \in 1..calls /\ \A k \in Key : c \notin Coming(k))
  PROVE  pending' \subseteq 1..calls' /\ \A k \in Key : pending' \cap Coming(k)' = {}
BY EarlierGrow DEF Messages, CallsPast

LEMMA MessagesStay ==
  ASSUME NoteTypes, NoteTypes', CallsPast, IdsPast, Messages,
         UNCHANGED monitored, pending' \subseteq pending
  PROVE  Messages'
<1>1. \A m \in 1..Len(monitored) : SoundMessage(monitored[m])
  BY DEF Messages, SoundMessage, At
<1>2. \A m \in 1..Len(monitored') : SoundLater(monitored'[m])
  BY <1>1, SoundStays
<1>3. pending' \subseteq 1..calls' /\ \A k \in Key : pending' \cap Coming(k)' = {}
  BY PendingStays
<1> QED
  BY <1>2, <1>3 DEF Messages, SoundLater, At

LEMMA MessagesTaken ==
  ASSUME NoteTypes, NoteTypes', CallsPast, IdsPast, Messages, NEW msg, Takes(msg),
         \A c \in pending' : c \in pending \/ (msg.kind = "call" /\ c = msg.call)
  PROVE  Messages'
<1>1. /\ \A m \in 1..Len(monitored) : SoundMessage(monitored[m])
      /\ \A m, n \in 1..Len(monitored) :
             /\ Answer(monitored[m]) /\ Answer(monitored[n])
             /\ monitored[m].call = monitored[n].call
             => m = n
  BY DEF Messages, SoundMessage, At, Answer
<1>2. \A m \in 1..Len(monitored') :
          m + 1 \in 1..Len(monitored) /\ monitored'[m] = monitored[m + 1] /\ m \in Nat
  BY DEF Takes
<1>3. \A m \in 1..Len(monitored') : SoundLater(monitored'[m])
  BY <1>1, <1>2, SoundStays
<1>4. ASSUME NEW m \in 1..Len(monitored'), NEW n \in 1..Len(monitored'),
             Answer(monitored'[m]), Answer(monitored'[n]),
             monitored'[m].call = monitored'[n].call
      PROVE  m = n
  <2>1. m + 1 = n + 1
    BY <1>1, <1>2, <1>4
  <2> QED
    BY <1>2, <2>1
<1>5. \A c \in pending' :
          c \in pending \/ (c \in 1..calls /\ \A k \in Key : c \notin Coming(k))
  <2>1. SoundMessage(msg)
    BY <1>1 DEF Takes
  <2> QED
    BY <2>1 DEF SoundMessage
<1>6. pending' \subseteq 1..calls' /\ \A k \in Key : pending' \cap Coming(k)' = {}
  BY <1>5, PendingStays
<1>7. /\ \A m \in 1..Len(monitored') :
             /\ monitored'[m].kind = "call" =>
                    /\ monitored'[m].call \in 1..calls'
                    /\ \A k \in Key : monitored'[m].call \notin Coming(k)'
             /\ monitored'[m].kind \in {"reply", "error"} =>
                    monitored'[m].call \in (1..calls') \ Unanswered'
             /\ monitored'[m].kind \in {"reply", "closed"} =>
                    monitored'[m].id \in 1..(nextId' - 1)
  BY <1>3 DEF SoundLater
<1> QED
  BY <1>4, <1>6, <1>7 DEF Messages, At, Answer

(* An answer that joins the queue is the first to its call.                *)
LEMMA MessagesAdded ==
  ASSUME NoteTypes, NoteTypes', CallsPast, IdsPast, Messages, NEW S, Adds(S),
         \A msg \in S : /\ SoundLater(msg)
                        /\ Answer(msg) => msg.call \in Unanswered,
         \A a, b \in S : Answer(a) /\ Answer(b) => a = b,
         UNCHANGED pending
  PROVE  Messages'
<1>1. /\ \A m \in 1..Len(monitored) : SoundMessage(monitored[m])
      /\ \A m, n \in 1..Len(monitored) :
             /\ Answer(monitored[m]) /\ Answer(monitored[n])
             /\ monitored[m].call = monitored[n].call
             => m = n
  BY DEF Messages, SoundMessage, At, Answer
<1>2. /\ \A m \in 1..Len(monitored) : monitored'[m] = monitored[m]
      /\ \A m \in 1..Len(monitored') :
             m \in 1..Len(monitored) \/ (m > Len(monitored) /\ monitored'[m] \in S)
      /\ \A m, n \in 1..Len(monitored') :
             /\ m > Len(monitored) /\ n > Len(monitored)
             /\ monitored'[m] = monitored'[n]
             => m = n
  BY DEF Adds
<1>3. \A m \in 1..Len(monitored') : SoundLater(monitored'[m])
  BY <1>1, <1>2, SoundStays
<1>4. \A m \in 1..Len(monitored) :
          Answer(monitored[m]) => monitored[m].call \notin Unanswered
  BY <1>1 DEF SoundMessage, Answer
<1>5. ASSUME NEW m \in 1..Len(monitored'), NEW n \in 1..Len(monitored'),
             Answer(monitored'[m]), Answer(monitored'[n]),
             monitored'[m].call = monitored'[n].call
      PROVE  m = n
  <2>1. CASE m \in 1..Len(monitored) /\ n \in 1..Len(monitored)
    BY <1>1, <1>2, <1>5, <2>1
  <2>2. CASE m \in 1..Len(monitored) /\ monitored'[n] \in S
    BY <1>2, <1>4, <1>5, <2>2
  <2>3. CASE n \in 1..Len(monitored) /\ monitored'[m] \in S
    BY <1>2, <1>4, <1>5, <2>3
  <2>4. CASE /\ m > Len(monitored) /\ n > Len(monitored)
             /\ monitored'[m] \in S /\ monitored'[n] \in S
    BY <1>2, <1>5, <2>4
  <2> QED
    BY <1>2, <2>1, <2>2, <2>3, <2>4
<1>6. pending' \subseteq 1..calls' /\ \A k \in Key : pending' \cap Coming(k)' = {}
  BY PendingStays
<1>7. /\ \A m \in 1..Len(monitored') :
             /\ monitored'[m].kind = "call" =>
                    /\ monitored'[m].call \in 1..calls'
                    /\ \A k \in Key : monitored'[m].call \notin Coming(k)'
             /\ monitored'[m].kind \in {"reply", "error"} =>
                    monitored'[m].call \in (1..calls') \ Unanswered'
             /\ monitored'[m].kind \in {"reply", "closed"} =>
                    monitored'[m].id \in 1..(nextId' - 1)
  BY <1>3 DEF SoundLater
<1> QED
  BY <1>5, <1>6, <1>7 DEF Messages, At, Answer

(* The calls that a step answers.                                          *)
LEMMA AnswersCall ==
  ASSUME Numbering, NEW c \in 1..MaxCalls, ServerAnswers(c)
  PROVE  c \in Unanswered /\ c \notin Unanswered' /\ c \in 1..calls' /\ c \in waiting
<1>1. /\ c \in waiting /\ waiting' = waiting \ {c}
      /\ UNCHANGED <<calls, number, showing, arriving>>
  BY DEF ServerAnswers, showNotes, bridgeNotes
<1>2. \A k \in Key : Coming(k)' = Coming(k) /\ c \notin Coming(k)
  BY <1>1 DEF Numbering, Coming
<1> QED
  BY <1>1, <1>2 DEF Numbering, Unanswered

LEMMA ShowAnswersCall ==
  ASSUME NoteTypes, Numbering, NEW k \in Key, ShowCalls(k)
  PROVE  /\ number[k] \in Unanswered /\ number[k] \notin Unanswered'
         /\ number[k] \in 1..calls' /\ number[k] \in Coming(k)
<1>1. /\ showing[k] = "call" /\ showing' = [showing EXCEPT ![k] = "record"]
      /\ UNCHANGED <<calls, waiting, number, arriving>>
  BY DEF ShowCalls, bridgeNotes
<1>2. /\ showing'[k] # "call" /\ \A l \in Key \ {k} : showing'[l] = showing[l]
  BY <1>1 DEF NoteTypes
<1>3. Coming(k)' = arriving[k] /\ \A l \in Key \ {k} : Coming(l)' = Coming(l)
  BY <1>1, <1>2 DEF Coming
<1>4. /\ number[k] \in Unanswered /\ number[k] \notin waiting
      /\ number[k] \notin arriving[k]
      /\ \A l \in Key \ {k} : number[k] \notin Coming(l)
  BY <1>1, NumberIsAlone DEF Numbering
<1>5. number[k] \notin Unanswered'
  BY <1>1, <1>3, <1>4 DEF Unanswered
<1> QED
  BY <1>1, <1>4, <1>5 DEF Numbering, Coming

LEMMA MessagesNext ==
  ASSUME NoteTypes, NoteTypes', Numbering, CallsPast, IdsPast, Ids, Ids', Messages, NoteNext
  PROVE  Messages'
<1>1. ASSUME UNCHANGED <<monitored, pending>> PROVE Messages'
  BY <1>1, MessagesStay
<1>2. CASE AppNotifies
  <2>1. PICK msg \in Msg : msg.kind = "call" /\ msg.call = calls + 1 /\ Adds({msg})
    BY <1>2, AppSends DEF Sends
  <2>2. calls + 1 \notin Unanswered /\ calls + 1 \in 1..calls' /\ UNCHANGED pending
        /\ \A k \in Key : Coming(k)' = Coming(k)
    BY <1>2, UnansweredIsFinite DEF AppNotifies, showNotes, bridgeNotes, Coming
  <2>3. \A k \in Key : calls + 1 \notin Coming(k)'
    BY <2>2, ComingWaits
  <2>4. SoundLater(msg) /\ ~Answer(msg)
    BY <2>1, <2>2, <2>3 DEF SoundLater, Answer
  <2> QED
    BY <2>1, <2>2, <2>4, MessagesAdded
<1>3. ASSUME NEW c \in 1..MaxCalls, ServerAnswers(c) PROVE Messages'
  <2>1. PICK kind \in {"reply", "error"}, i \in Nat :
            /\ Sends(kind, c, i)
            /\ kind = "reply" => i \in shown'
    BY <1>3, AnswerSends DEF ServerReplies, NoId
  <2>2. PICK msg \in Msg : /\ msg.kind = kind /\ msg.call = c /\ msg.id = i
                           /\ Adds({msg})
    BY <2>1 DEF Sends
  <2>3. SoundLater(msg) /\ msg.call \in Unanswered
    BY <1>3, <2>1, <2>2, AnswersCall DEF SoundLater, Ids
  <2>4. UNCHANGED pending
    BY <1>3 DEF ServerAnswers
  <2> QED
    BY <2>2, <2>3, <2>4, MessagesAdded
<1>4. ASSUME NEW i \in Id, Closed(i) PROVE Messages'
  <2>1. PICK msg \in Msg : msg.kind = "closed" /\ msg.id = i /\ Adds({msg})
    BY <1>4, ClosingSends DEF Sends
  <2>2. i \in 1..(nextId' - 1) /\ UNCHANGED pending
    BY <1>4 DEF Closed, Ids
  <2>3. SoundLater(msg) /\ ~Answer(msg)
    BY <2>1, <2>2 DEF SoundLater, Answer
  <2> QED
    BY <2>1, <2>2, <2>3, MessagesAdded
<1>5. CASE HoldCall \/ DropCall \/ MatchReply \/ ForwardClosing
  <2>1. PICK kind : Received(kind)
    BY <1>5 DEF HoldCall, DropCall, MatchReply, ForwardClosing
  <2>2. \A c \in pending' :
            c \in pending \/ (Head(monitored).kind = "call" /\ c = Head(monitored).call)
    BY <1>5 DEF HoldCall, DropCall, MatchReply, ForwardClosing, Received
  <2> QED
    BY <2>1, <2>2, TakesHead, MessagesTaken
<1>6. CASE \/ SyncNotification \/ ClearNotification \/ PhoneNotReached
           \/ \E i \in Id : PhoneSweeps(i)
  BY <1>1, <1>6 DEF SyncNotification, ClearNotification, PhoneNotReached, PhoneSweeps,
                    WatcherGoesOn
<1>7. CASE BridgeSeesClosing \/ \E i \in Id : ReplyBegins(i)
  BY <1>1, <1>7 DEF BridgeSeesClosing, Forgotten, ReplyBegins, watcherNotes
<1>8. ASSUME NEW k \in Key,
             \/ PhonePosts(k) \/ PhoneRemoves(k) \/ ReplyEnds(k)
             \/ ShowBegins(k) \/ ShowFails(k) \/ ShowRecords(k) \/ ShowMarks(k)
      PROVE  Messages'
  BY <1>1, <1>8 DEF PhonePosts, PhoneRemoves, ReplyEnds, ShowBegins, ShowFails,
                    ShowRecords, ShowMarks, watcherNotes
<1>9. ASSUME NEW k \in Key, ShowCalls(k) PROVE Messages'
  <2>1. PICK id \in Nat : ShowsAs(k, id)
    BY <1>9, ShowSends
  <2>2. PICK a \in Msg, b \in Msg :
            /\ a.kind = "marked"
            /\ b.kind = "reply" /\ b.call = number[k] /\ b.id = id
            /\ Adds({a, b})
    BY <2>1 DEF ShowsAs, SendsMarked
  <2>3. id \in 1..(nextId' - 1) /\ UNCHANGED pending
    BY <1>9, <2>1 DEF ShowCalls, ShowsAs, Ids
  <2>4. /\ SoundLater(a) /\ ~Answer(a)
        /\ SoundLater(b) /\ b.call \in Unanswered
    BY <1>9, <2>2, <2>3, ShowAnswersCall DEF SoundLater, Answer
  <2> QED
    BY <2>2, <2>3, <2>4, MessagesAdded
<1> QED
  BY <1>2, <1>3, <1>4, <1>5, <1>6, <1>7, <1>8, <1>9 DEF NoteNext

-----------------------------------------------------------------------------
(* No echo *)

(* An id that was assigned, and not to the bridge.                         *)
Clean(i) == i \in 1..(nextId - 1) /\ i \notin BridgeIds

LEMMA CleanStays ==
  ASSUME IdsPast, NEW i, Clean(i)
  PROVE  i \notin BridgeIds'
BY DEF Clean, IdsPast

LEMMA PhoneIsClean ==
  ASSUME NoteTypes, Ids, NoEcho
  PROVE  /\ \A i \in phoneHas : Clean(i)
         /\ pushing[1] = "push" => Clean(pushing[2])
<1>1. \A i \in 1..(nextId - 1) : i # NoId
  BY BelowIsOther DEF NoteTypes, NoId
<1> QED
  BY <1>1 DEF Clean, NoEcho, Ids

LEMMA NoEchoStays ==
  ASSUME IdsPast, \A i \in phoneHas' : Clean(i),
         pushing'[1] = "push" => Clean(pushing'[2])
  PROVE  NoEcho'
BY CleanStays DEF NoEcho

(* The replies of the bridge and the calls of applications.                *)
QueueFree ==
    \A m \in 1..Len(monitored) :
        monitored[m].kind = "reply" /\ monitored[m].id \in BridgeIds =>
            /\ monitored[m].call \notin pending
            /\ \A n \in 1..Len(monitored) :
                   monitored[n].kind = "call" => monitored[n].call # monitored[m].call

LEMMA EchoFreeIs == EchoFree <=> NoEcho /\ QueueFree
BY DEF EchoFree, QueueFree, At

LEMMA RepliesPast ==
  ASSUME Messages, IdsPast, NEW m \in 1..Len(monitored), monitored[m].kind = "reply"
  PROVE  /\ monitored[m].id \in 1..(nextId - 1) /\ monitored[m].call \in 1..calls
         /\ monitored[m].id \in BridgeIds' <=> monitored[m].id \in BridgeIds
BY DEF Messages, At, IdsPast

LEMMA QueueFreeStays ==
  ASSUME Messages, IdsPast, QueueFree, UNCHANGED <<monitored, pending>>
  PROVE  QueueFree'
BY RepliesPast DEF QueueFree

LEMMA QueueFreeTakes ==
  ASSUME Messages, IdsPast, QueueFree, NEW msg, Takes(msg),
         \A c \in pending' : c \in pending \/ (msg.kind = "call" /\ c = msg.call)
  PROVE  QueueFree'
<1>1. \A m \in 1..Len(monitored') :
          m + 1 \in 1..Len(monitored) /\ monitored'[m] = monitored[m + 1]
  BY DEF Takes
<1>2. 1 \in 1..Len(monitored) /\ monitored[1] = msg
  BY DEF Takes
<1>3. ASSUME NEW m \in 1..Len(monitored'), monitored'[m].kind = "reply",
             monitored'[m].id \in BridgeIds'
      PROVE  /\ monitored'[m].call \notin pending'
             /\ \A n \in 1..Len(monitored') :
                    monitored'[n].kind = "call" => monitored'[n].call # monitored'[m].call
  <2>1. /\ m + 1 \in 1..Len(monitored) /\ monitored[m + 1].kind = "reply"
        /\ monitored[m + 1].id \in BridgeIds
    BY <1>1, <1>3, RepliesPast
  <2>2. /\ monitored[m + 1].call \notin pending
        /\ \A n \in 1..Len(monitored) :
               monitored[n].kind = "call" => monitored[n].call # monitored[m + 1].call
    BY <2>1 DEF QueueFree
  <2> QED
    BY <1>1, <1>2, <2>2
<1> QED
  BY <1>3 DEF QueueFree

LEMMA QueueFreeAdds ==
  ASSUME Messages, IdsPast, QueueFree, NEW S, Adds(S), UNCHANGED pending,
         \A s \in S : s.kind = "call" => s.call \notin 1..calls,
         \A s \in S : s.kind = "reply" /\ s.id \in BridgeIds' =>
             /\ \E k \in Key : s.call \in Coming(k)
             /\ \A t \in S : t.kind # "call"
  PROVE  QueueFree'
<1>1. /\ \A m \in 1..Len(monitored) : monitored'[m] = monitored[m]
      /\ \A m \in 1..Len(monitored') :
             m \in 1..Len(monitored) \/ (m > Len(monitored) /\ monitored'[m] \in S)
  BY DEF Adds
<1>2. ASSUME NEW m \in 1..Len(monitored'), monitored'[m].kind = "reply",
             monitored'[m].id \in BridgeIds'
      PROVE  /\ monitored'[m].call \notin pending
             /\ \A n \in 1..Len(monitored') :
                    monitored'[n].kind = "call" => monitored'[n].call # monitored'[m].call
  <2>1. CASE m \in 1..Len(monitored)
    <3>1. /\ monitored[m].kind = "reply" /\ monitored[m].id \in BridgeIds
          /\ monitored[m].call \in 1..calls /\ monitored'[m] = monitored[m]
      BY <1>1, <1>2, <2>1, RepliesPast
    <3>2. /\ monitored[m].call \notin pending
          /\ \A n \in 1..Len(monitored) :
                 monitored[n].kind = "call" => monitored[n].call # monitored[m].call
      BY <2>1, <3>1 DEF QueueFree
    <3> QED
      BY <1>1, <3>1, <3>2
  <2>2. CASE monitored'[m] \in S
    <3>1. PICK k \in Key : monitored'[m].call \in Coming(k)
      BY <1>2, <2>2
    <3>2. /\ monitored'[m].call \notin pending
          /\ \A n \in 1..Len(monitored) :
                 monitored[n].kind = "call" => monitored[n].call # monitored'[m].call
      BY <3>1 DEF Messages, At
    <3> QED
      BY <1>1, <1>2, <2>2, <3>2
  <2> QED
    BY <1>1, <2>1, <2>2
<1> QED
  BY <1>2 DEF QueueFree

(* The reply to an application does not carry an id of the bridge.         *)
LEMMA RepliesAreClean ==
  ASSUME NoteTypes, Ids, NEW c \in 1..MaxCalls, ServerAnswers(c), NEW i \in Nat,
         ServerReplies(c, i)
  PROVE  i \notin BridgeIds'
<1>1. BridgeIds' = BridgeIds
  BY DEF ServerAnswers, showNotes, bridgeNotes, BridgeIds
<1>2. /\ originIDs \subseteq 1..(nextId - 1) /\ nextId \in Nat /\ 1 <= nextId
      /\ \A k \in Key : rendered[k] \in 0..(nextId - 1)
  BY DEF Ids, NoteTypes
<1>3. nextId \notin 1..(nextId - 1) /\ nextId \notin 0..(nextId - 1)
  BY <1>2
<1>4. nextId \notin BridgeIds
  BY <1>2, <1>3 DEF BridgeIds
<1> QED
  BY <1>1, <1>4 DEF ServerReplies

LEMMA EchoFreeNext ==
  ASSUME NoteTypes, Numbering, Messages, Ids, EchoFree, CallsPast, IdsPast, NoteNext
  PROVE  EchoFree'
<1>0. /\ \A i \in phoneHas : Clean(i)
      /\ pushing[1] = "push" => Clean(pushing[2])
      /\ QueueFree
  BY PhoneIsClean, EchoFreeIs DEF EchoFree
<1>1. ASSUME QueueFree', NoEcho' PROVE EchoFree'
  BY <1>1 DEF EchoFree, QueueFree, At
<1>2. ASSUME UNCHANGED <<monitored, pending>>, NoEcho' PROVE EchoFree'
  BY <1>0, <1>1, <1>2, QueueFreeStays
<1>3. ASSUME UNCHANGED <<pushing, phoneHas>> PROVE NoEcho'
  BY <1>0, <1>3, NoEchoStays
<1>4. CASE AppNotifies
  <2>1. PICK msg \in Msg : msg.kind = "call" /\ msg.call = calls + 1 /\ Adds({msg})
    BY <1>4, AppSends DEF Sends
  <2>2. calls + 1 \notin 1..calls /\ UNCHANGED <<pending, pushing, phoneHas>>
    BY <1>4 DEF AppNotifies, NoteTypes
  <2>3. QueueFree'
    BY <1>0, <2>1, <2>2, QueueFreeAdds
  <2> QED
    BY <1>1, <1>3, <2>2, <2>3
<1>5. ASSUME NEW c \in 1..MaxCalls, ServerAnswers(c) PROVE EchoFree'
  <2>1. PICK kind \in {"reply", "error"}, i \in Nat :
            /\ Sends(kind, c, i)
            /\ kind = "reply" => i \notin BridgeIds'
    BY <1>5, AnswerSends, RepliesAreClean DEF ServerReplies, NoId
  <2>2. PICK msg \in Msg : /\ msg.kind = kind /\ msg.call = c /\ msg.id = i
                           /\ Adds({msg})
    BY <2>1 DEF Sends
  <2>3. UNCHANGED <<pending, pushing, phoneHas>>
    BY <1>5 DEF ServerAnswers
  <2>4. QueueFree'
    BY <1>0, <2>1, <2>2, <2>3, QueueFreeAdds
  <2> QED
    BY <1>1, <1>3, <2>3, <2>4
<1>6. ASSUME NEW i \in Id, Closed(i) PROVE EchoFree'
  <2>1. PICK msg \in Msg : msg.kind = "closed" /\ msg.id = i /\ Adds({msg})
    BY <1>6, ClosingSends DEF Sends
  <2>2. UNCHANGED <<pending, pushing, phoneHas>>
    BY <1>6 DEF Closed
  <2>3. QueueFree'
    BY <1>0, <2>1, <2>2, QueueFreeAdds
  <2> QED
    BY <1>1, <1>3, <2>2, <2>3
<1>7. CASE HoldCall \/ DropCall \/ MatchReply \/ ForwardClosing
  <2>1. PICK kind : Received(kind)
    BY <1>7 DEF HoldCall, DropCall, MatchReply, ForwardClosing
  <2>2. \A c \in pending' :
            c \in pending \/ (Head(monitored).kind = "call" /\ c = Head(monitored).call)
    BY <1>7 DEF HoldCall, DropCall, MatchReply, ForwardClosing, Received
  <2>3. QueueFree'
    BY <1>0, <2>1, <2>2, TakesHead, QueueFreeTakes
  <2>4. UNCHANGED phoneHas
    BY <1>7 DEF HoldCall, DropCall, MatchReply, ForwardClosing
  <2>5. pushing'[1] = "push" => Clean(pushing'[2])
    <3>1. CASE HoldCall \/ DropCall
      BY <1>0, <3>1 DEF HoldCall, DropCall
    <3>2. CASE MatchReply
      <4>1. /\ Received("reply")
            /\ pushing' = IF Head(monitored).call \in pending
                          THEN <<"push", Head(monitored).id>> ELSE pushing
        BY <3>2 DEF MatchReply
      <4>2. /\ 1 \in 1..Len(monitored) /\ monitored[1] = Head(monitored)
            /\ monitored[1].kind = "reply"
        BY <4>1, TakesHead DEF Takes
      <4>3. /\ Head(monitored).id \in 1..(nextId - 1)
            /\ Head(monitored).call \in pending => Head(monitored).id \notin BridgeIds
        BY <1>0, <4>2, RepliesPast DEF QueueFree
      <4> QED
        BY <1>0, <4>1, <4>3 DEF Clean
    <3>3. CASE ForwardClosing
      <4>1. pushing' \in {pushing, <<"clear", Head(monitored).id>>}
        BY <3>3 DEF ForwardClosing
      <4> QED
        BY <1>0, <4>1
    <3> QED
      BY <1>7, <3>1, <3>2, <3>3
  <2> QED
    BY <1>0, <1>1, <2>3, <2>4, <2>5, NoEchoStays
<1>8. CASE SyncNotification \/ ClearNotification \/ PhoneNotReached
  <2>1. pushing' = <<"idle", NoId>> /\ UNCHANGED <<monitored, pending>>
    BY <1>8 DEF SyncNotification, ClearNotification, PhoneNotReached, WatcherGoesOn
  <2>2. \/ phoneHas' \subseteq phoneHas
        \/ pushing[1] = "push" /\ phoneHas' = phoneHas \cup {pushing[2]}
    BY <1>8 DEF SyncNotification, ClearNotification, PhoneNotReached
  <2>3. \A i \in phoneHas' : Clean(i)
    BY <1>0, <2>2
  <2>4. ~(pushing'[1] = "push")
    BY <2>1
  <2> QED
    BY <1>2, <2>1, <2>3, <2>4, NoEchoStays
<1>9. ASSUME NEW i \in Id, PhoneSweeps(i) PROVE EchoFree'
  <2>1. UNCHANGED <<monitored, pending, pushing>> /\ phoneHas' \subseteq phoneHas
    BY <1>9 DEF PhoneSweeps
  <2> QED
    BY <1>0, <1>2, <2>1, NoEchoStays
<1>10. ASSUME UNCHANGED watcherNotes PROVE EchoFree'
  BY <1>2, <1>3, <1>10 DEF watcherNotes
<1>11. CASE BridgeSeesClosing \/ \E i \in Id : ReplyBegins(i)
  BY <1>10, <1>11 DEF BridgeSeesClosing, Forgotten, ReplyBegins
<1>12. ASSUME NEW k \in Key,
              \/ PhonePosts(k) \/ PhoneRemoves(k) \/ ReplyEnds(k)
              \/ ShowBegins(k) \/ ShowFails(k) \/ ShowRecords(k) \/ ShowMarks(k)
       PROVE  EchoFree'
  BY <1>10, <1>12 DEF PhonePosts, PhoneRemoves, ReplyEnds, ShowBegins, ShowFails,
                      ShowRecords, ShowMarks
<1>13. ASSUME NEW k \in Key, ShowCalls(k) PROVE EchoFree'
  <2>1. PICK id \in Nat : ShowsAs(k, id)
    BY <1>13, ShowSends
  <2>2. PICK a \in Msg, b \in Msg :
            /\ a.kind = "marked"
            /\ b.kind = "reply" /\ b.call = number[k] /\ b.id = id
            /\ Adds({a, b})
    BY <2>1 DEF ShowsAs, SendsMarked
  <2>3. UNCHANGED <<pending, pushing, phoneHas>> /\ number[k] \in Coming(k)
    BY <1>13, ShowAnswersCall DEF ShowCalls
  <2>4. QueueFree'
    BY <1>0, <2>2, <2>3, QueueFreeAdds
  <2> QED
    BY <1>1, <1>3, <2>3, <2>4
<1> QED
  BY <1>4, <1>5, <1>6, <1>7, <1>8, <1>9, <1>11, <1>12, <1>13 DEF NoteNext

-----------------------------------------------------------------------------
(* Order *)

(* The monitor has, or had, the call; or one of its messages was lost.     *)
Heard(c) ==
    \/ c \in pending \/ NoId \in missing
    \/ \E m \in 1..Len(monitored) :
           monitored[m].kind = "call" /\ monitored[m].call = c

HeardBefore(m) ==
    \/ monitored[m].call \in pending \/ NoId \in missing
    \/ \E n \in 1..Len(monitored) :
           n < m /\ monitored[n].kind = "call" /\ monitored[n].call = monitored[m].call

CallsHeard == \A c \in waiting : Heard(c)

RepliesHeard ==
    \A m \in 1..Len(monitored) :
        monitored[m].kind = "reply" /\ monitored[m].id \notin BridgeIds => HeardBefore(m)

LEMMA InOrderIs == InOrder <=> CallsHeard /\ RepliesHeard
BY DEF InOrder, CallsHeard, RepliesHeard, Heard, HeardBefore, At

(* The ids of what is queued were assigned.                                *)
LEMMA QueuedPast ==
  ASSUME Messages, IdsPast, NEW m \in 1..Len(monitored),
         monitored[m].kind \in {"reply", "closed"}
  PROVE  /\ monitored[m].id \in 1..(nextId - 1)
         /\ monitored[m].id \in BridgeIds' <=> monitored[m].id \in BridgeIds
BY DEF Messages, At, IdsPast

LEMMA InOrderStays ==
  ASSUME NoteTypes, NoteTypes', Messages, IdsPast, InOrder,
         UNCHANGED <<monitored, pending>>, missing \subseteq missing',
         waiting' \subseteq waiting
  PROVE  InOrder'
<1>1. CallsHeard /\ RepliesHeard
  BY InOrderIs
<1>2. CallsHeard'
  BY <1>1 DEF CallsHeard, Heard
<1>3. RepliesHeard'
  <2> SUFFICES ASSUME NEW m \in 1..Len(monitored), monitored[m].kind = "reply",
                      monitored[m].id \notin BridgeIds'
               PROVE  HeardBefore(m)'
    BY DEF RepliesHeard
  <2>1. HeardBefore(m)
    BY <1>1, QueuedPast DEF RepliesHeard
  <2> QED
    BY <2>1 DEF HeardBefore
<1> QED
  BY <1>2, <1>3 DEF InOrder, CallsHeard, RepliesHeard, Heard, HeardBefore, At

LEMMA InOrderTakes ==
  ASSUME NoteTypes, NoteTypes', Messages, IdsPast, InOrder, NEW msg, Takes(msg),
         UNCHANGED <<missing, waiting>>,
         msg.kind = "call" => msg.call \in pending',
         \A c \in pending : c \in pending' \/ (Answer(msg) /\ c = msg.call)
  PROVE  InOrder'
<1>0. CallsHeard /\ RepliesHeard
  BY InOrderIs
<1>1. /\ \A m \in 1..Len(monitored') :
             /\ m + 1 \in 1..Len(monitored) /\ monitored'[m] = monitored[m + 1]
             /\ m \in Nat
      /\ \A m \in 1..Len(monitored) :
             \/ m = 1
             \/ m - 1 \in 1..Len(monitored') /\ monitored'[m - 1] = monitored[m]
      /\ 1 \in 1..Len(monitored) /\ monitored[1] = msg
  BY DEF Takes
<1>2. Answer(msg) => msg.call \notin Unanswered
      /\ \A n \in 1..Len(monitored) :
             Answer(monitored[n]) /\ monitored[n].call = msg.call => n = 1
  BY <1>1 DEF Messages, At, Answer
<1>3. CallsHeard'
  <2> SUFFICES ASSUME NEW c \in waiting PROVE Heard(c)'
    BY DEF CallsHeard
  <2>1. Heard(c) /\ c \in Unanswered
    BY <1>0 DEF CallsHeard, Unanswered
  <2>2. CASE c \in pending
    BY <1>2, <2>1, <2>2 DEF Heard
  <2>3. CASE NoId \in missing
    BY <2>3 DEF Heard
  <2>4. ASSUME NEW m \in 1..Len(monitored), monitored[m].kind = "call", monitored[m].call = c
        PROVE  Heard(c)'
    <3>1. CASE m = 1
      BY <1>1, <2>4, <3>1 DEF Heard
    <3>2. CASE m - 1 \in 1..Len(monitored') /\ monitored'[m - 1] = monitored[m]
      BY <2>4, <3>2 DEF Heard
    <3> QED
      BY <1>1, <3>1, <3>2
  <2> QED
    BY <2>1, <2>2, <2>3, <2>4 DEF Heard
<1>4. RepliesHeard'
  <2> SUFFICES ASSUME NEW m \in 1..Len(monitored'), monitored'[m].kind = "reply",
                      monitored'[m].id \notin BridgeIds'
               PROVE  HeardBefore(m)'
    BY DEF RepliesHeard
  <2>1. /\ m + 1 \in 1..Len(monitored) /\ monitored'[m] = monitored[m + 1] /\ m \in Nat
        /\ m + 1 # 1
    BY <1>1
  <2>2. HeardBefore(m + 1)
    BY <1>0, <2>1, QueuedPast DEF RepliesHeard
  <2>3. CASE monitored[m + 1].call \in pending
    <3>1. monitored[m + 1].call \in pending'
      BY <1>2, <2>1, <2>3 DEF Answer
    <3> QED
      BY <2>1, <3>1 DEF HeardBefore
  <2>4. CASE NoId \in missing
    BY <2>4 DEF HeardBefore
  <2>5. ASSUME NEW n \in 1..Len(monitored), n < m + 1, monitored[n].kind = "call",
               monitored[n].call = monitored[m + 1].call
        PROVE  HeardBefore(m)'
    <3>1. CASE n = 1
      BY <1>1, <2>1, <2>5, <3>1 DEF HeardBefore
    <3>2. CASE n - 1 \in 1..Len(monitored') /\ monitored'[n - 1] = monitored[n]
      <4>1. n - 1 < m
        BY <2>1, <2>5, <3>2
      <4> QED
        BY <2>1, <2>5, <3>2, <4>1 DEF HeardBefore
    <3> QED
      BY <1>1, <3>1, <3>2
  <2> QED
    BY <2>2, <2>3, <2>4, <2>5 DEF HeardBefore
<1> QED
  BY <1>3, <1>4 DEF InOrder, CallsHeard, RepliesHeard, Heard, HeardBefore, At

LEMMA InOrderAdds ==
  ASSUME NoteTypes, NoteTypes', Messages, IdsPast, InOrder, NEW S, Adds(S),
         UNCHANGED pending,
         \A c \in waiting' : c \in waiting \/ Heard(c)',
         \A s \in S :
             s.kind = "reply" => s.id \in BridgeIds' \/ s.call \in waiting
  PROVE  InOrder'
<1>0. CallsHeard /\ RepliesHeard
  BY InOrderIs
<1>1. /\ \A m \in 1..Len(monitored) :
             m \in 1..Len(monitored') /\ monitored'[m] = monitored[m] /\ m \in Nat
      /\ \A m \in 1..Len(monitored') :
             /\ m \in Nat
             /\ m \in 1..Len(monitored) \/ (m > Len(monitored) /\ monitored'[m] \in S)
      /\ \A m \in 1..Len(monitored) : \A n \in Nat : n > Len(monitored) => m < n
      /\ missing \subseteq missing'
  BY DEF Adds
<1>2. CallsHeard'
  BY <1>0, <1>1 DEF CallsHeard, Heard
<1>3. RepliesHeard'
  <2> SUFFICES ASSUME NEW m \in 1..Len(monitored'), monitored'[m].kind = "reply",
                      monitored'[m].id \notin BridgeIds'
               PROVE  HeardBefore(m)'
    BY DEF RepliesHeard
  <2>1. CASE m \in 1..Len(monitored)
    <3>1. HeardBefore(m) /\ monitored'[m] = monitored[m]
      BY <1>0, <1>1, <2>1, QueuedPast DEF RepliesHeard
    <3> QED
      BY <1>1, <3>1 DEF HeardBefore
  <2>2. CASE m > Len(monitored) /\ monitored'[m] \in S
    <3>1. Heard(monitored'[m].call)
      BY <1>0, <2>2 DEF CallsHeard
    <3>2. \A n \in 1..Len(monitored) : n < m
      BY <1>1, <2>2
    <3> QED
      BY <1>1, <3>1, <3>2 DEF Heard, HeardBefore
  <2> QED
    BY <1>1, <2>1, <2>2
<1> QED
  BY <1>2, <1>3 DEF InOrder, CallsHeard, RepliesHeard, Heard, HeardBefore, At

LEMMA InOrderNext ==
  ASSUME NoteTypes, NoteTypes', Numbering, Messages, Ids, Ids', InOrder, CallsPast, IdsPast,
         NoteNext
  PROVE  InOrder'
<1>1. ASSUME UNCHANGED <<hostNotes, monitored, pending>>, missing \subseteq missing'
      PROVE  InOrder'
  BY <1>1, InOrderStays DEF hostNotes
<1>2. ASSUME UNCHANGED <<hostNotes, watcherNotes>> PROVE InOrder'
  BY <1>1, <1>2 DEF watcherNotes
<1>3. CASE AppNotifies
  <2>1. PICK msg \in Msg : /\ msg.kind = "call" /\ msg.call = calls + 1 /\ msg.id = NoId
                           /\ Adds({msg}) /\ Delivers(msg)
    BY <1>3, AppSends DEF Sends
  <2>2. /\ calls' = calls + 1 /\ waiting' = waiting \cup {calls'}
        /\ UNCHANGED pending
    BY <1>3 DEF AppNotifies
  <2>3. ASSUME NEW c, c = calls + 1 PROVE Heard(c)'
    BY <2>1, <2>3 DEF Delivers, Heard
  <2>4. \A c \in waiting' : c \in waiting \/ Heard(c)'
    BY <2>2, <2>3
  <2> QED
    BY <2>1, <2>2, <2>4, InOrderAdds
<1>4. ASSUME NEW c \in 1..MaxCalls, ServerAnswers(c) PROVE InOrder'
  <2>1. PICK kind \in {"reply", "error"}, i \in Nat :
            Sends(kind, c, i)
    BY <1>4, AnswerSends DEF ServerReplies, NoId
  <2>2. PICK msg \in Msg : /\ msg.kind = kind /\ msg.call = c /\ msg.id = i
                           /\ Adds({msg})
    BY <2>1 DEF Sends
  <2>3. c \in waiting /\ waiting' \subseteq waiting /\ UNCHANGED pending
    BY <1>4 DEF ServerAnswers
  <2> QED
    BY <2>1, <2>2, <2>3, InOrderAdds
<1>5. ASSUME NEW i \in Id, Closed(i) PROVE InOrder'
  <2>1. PICK msg \in Msg : msg.kind = "closed" /\ msg.id = i /\ Adds({msg})
    BY <1>5, ClosingSends DEF Sends
  <2>2. UNCHANGED <<waiting, pending>>
    BY <1>5 DEF Closed
  <2> QED
    BY <2>1, <2>2, InOrderAdds
<1>6. CASE HoldCall \/ DropCall \/ MatchReply \/ ForwardClosing
  <2>1. UNCHANGED <<missing, waiting>>
    BY <1>6 DEF HoldCall, DropCall, MatchReply, ForwardClosing, hostNotes
  <2>2. PICK kind : Received(kind)
    BY <1>6 DEF HoldCall, DropCall, MatchReply, ForwardClosing
  <2>3. Takes(Head(monitored)) /\ Head(monitored).kind = kind
    BY <2>2, TakesHead
  <2>4. /\ kind = "call" => Head(monitored).call \in pending'
        /\ \A c \in pending :
               c \in pending' \/ (Answer(Head(monitored)) /\ c = Head(monitored).call)
    <3>1. CASE HoldCall
      BY <2>2, <3>1 DEF HoldCall, Received
    <3>2. CASE DropCall
      BY <2>2, <3>2 DEF DropCall, Received, Answer
    <3>3. CASE MatchReply
      BY <2>2, <3>3 DEF MatchReply, Received, Answer
    <3>4. CASE ForwardClosing
      BY <2>2, <3>4 DEF ForwardClosing, Received
    <3> QED
      BY <1>6, <3>1, <3>2, <3>3, <3>4
  <2> QED
    BY <2>1, <2>3, <2>4, InOrderTakes
<1>7. CASE \/ SyncNotification \/ ClearNotification \/ PhoneNotReached
           \/ \E i \in Id : PhoneSweeps(i)
  BY <1>1, <1>7 DEF SyncNotification, ClearNotification, PhoneNotReached, PhoneSweeps,
                    WatcherGoesOn
<1>8. CASE BridgeSeesClosing \/ \E i \in Id : ReplyBegins(i)
  BY <1>2, <1>8 DEF BridgeSeesClosing, Forgotten, ReplyBegins
<1>9. ASSUME NEW k \in Key,
             \/ PhoneRemoves(k) \/ ReplyEnds(k)
             \/ ShowBegins(k) \/ ShowFails(k) \/ ShowRecords(k) \/ ShowMarks(k)
      PROVE  InOrder'
  BY <1>2, <1>9 DEF PhoneRemoves, ReplyEnds, ShowBegins, ShowFails,
                    ShowRecords, ShowMarks
<1>10. ASSUME NEW k \in Key, PhonePosts(k) PROVE InOrder'
  BY <1>10, InOrderStays DEF PhonePosts, watcherNotes
<1>11. ASSUME NEW k \in Key, ShowCalls(k) PROVE InOrder'
  <2>1. PICK id \in Nat : ShowsAs(k, id)
    BY <1>11, ShowSends
  <2>2. PICK a \in Msg, b \in Msg :
            /\ a.kind = "marked"
            /\ b.kind = "reply" /\ b.call = number[k] /\ b.id = id
            /\ Adds({a, b})
    BY <2>1 DEF ShowsAs, SendsMarked
  <2>3. UNCHANGED <<pending, waiting, originIDs>> /\ showing[k] = "call"
    BY <1>11 DEF ShowCalls, bridgeNotes
  <2>4. id \in BridgeIds'
    <3>1. rendered'[k] = id
      BY <2>1, <2>3, ShowsAsOwn
    <3> QED
      BY <3>1 DEF BridgeIds
  <2> QED
    BY <2>2, <2>3, <2>4, InOrderAdds
<1> QED
  BY <1>3, <1>4, <1>5, <1>6, <1>7, <1>8, <1>9, <1>10, <1>11 DEF NoteNext

-----------------------------------------------------------------------------
(* What the phone hears of *)

LEMMA AddsOnTheWay ==
  ASSUME NEW S, Adds(S), NEW kind, NEW i, OnTheWay(kind, i)
  PROVE  OnTheWay(kind, i)'
BY DEF Adds, OnTheWay

LEMMA AddsFollows ==
  ASSUME NEW S, Adds(S), NEW a, NEW b, NEW i, Follows(a, b, i),
         \A s \in S : ~(s.kind = a /\ s.id = i)
  PROVE  Follows(a, b, i)'
<1>1. /\ \A m \in 1..Len(monitored) :
             m \in 1..Len(monitored') /\ monitored'[m] = monitored[m]
      /\ \A m \in 1..Len(monitored') :
             m \in 1..Len(monitored) \/ monitored'[m] \in S
  BY DEF Adds
<1> SUFFICES ASSUME NEW m \in 1..Len(monitored'),
                    monitored'[m].kind = a, monitored'[m].id = i
             PROVE  \E n \in 1..Len(monitored') :
                        n > m /\ monitored'[n].kind = b /\ monitored'[n].id = i
  BY DEF Follows
<1>2. m \in 1..Len(monitored) /\ monitored'[m] = monitored[m]
  BY <1>1
<1>3. PICK n \in 1..Len(monitored) :
          n > m /\ monitored[n].kind = b /\ monitored[n].id = i
  BY <1>2 DEF Follows
<1> QED
  BY <1>1, <1>3

(* A message that is queued has none behind it.                            *)
LEMMA DeliversLast ==
  ASSUME NEW msg, Adds({msg}), Delivers(msg), NEW a, NEW b, NEW i,
         msg.kind = b, msg.id = i, a # b
  PROVE  i \in missing' \/ (OnTheWay(b, i)' /\ Follows(a, b, i)')
<1> SUFFICES ASSUME NEW n \in 1..Len(monitored'), n > Len(monitored),
                    monitored'[n] = msg
             PROVE  OnTheWay(b, i)' /\ Follows(a, b, i)'
  BY DEF Delivers
<1>1. \A m \in 1..Len(monitored') :
          monitored'[m].kind = a => m \in 1..Len(monitored)
  BY DEF Adds
<1>2. \A m \in 1..Len(monitored) : n > m
  BY DEF Adds
<1>3. Follows(a, b, i)'
  BY <1>1, <1>2 DEF Follows
<1> QED
  BY <1>3 DEF OnTheWay

LEMMA TakesOnTheWay ==
  ASSUME NEW msg, Takes(msg), NEW kind, NEW i, OnTheWay(kind, i)
  PROVE  OnTheWay(kind, i)' \/ (msg.kind = kind /\ msg.id = i)
<1>1. /\ \A m \in 1..Len(monitored) :
             \/ m = 1
             \/ m - 1 \in 1..Len(monitored') /\ monitored'[m - 1] = monitored[m]
      /\ monitored[1] = msg
  BY DEF Takes
<1>2. PICK m \in 1..Len(monitored) : monitored[m].kind = kind /\ monitored[m].id = i
  BY DEF OnTheWay
<1>3. CASE m = 1
  BY <1>1, <1>2, <1>3
<1>4. CASE m - 1 \in 1..Len(monitored') /\ monitored'[m - 1] = monitored[m]
  BY <1>2, <1>4 DEF OnTheWay
<1> QED
  BY <1>1, <1>3, <1>4

LEMMA TakesFollows ==
  ASSUME NEW msg, Takes(msg), NEW a, NEW b, NEW i, Follows(a, b, i)
  PROVE  /\ Follows(a, b, i)'
         /\ msg.kind = a /\ msg.id = i => OnTheWay(b, i)'
<1>1. /\ \A m \in 1..Len(monitored') :
             m + 1 \in 1..Len(monitored) /\ monitored'[m] = monitored[m + 1]
      /\ \A m \in 1..Len(monitored) :
             \/ m = 1
             \/ m - 1 \in 1..Len(monitored') /\ monitored'[m - 1] = monitored[m]
      /\ 1 \in 1..Len(monitored) /\ monitored[1] = msg
  BY DEF Takes
<1>2. ASSUME NEW m \in 1..Len(monitored'),
             monitored'[m].kind = a, monitored'[m].id = i
      PROVE  \E n \in 1..Len(monitored') :
                 n > m /\ monitored'[n].kind = b /\ monitored'[n].id = i
  <2>1. m + 1 \in 1..Len(monitored) /\ monitored'[m] = monitored[m + 1]
    BY <1>1
  <2>2. PICK n \in 1..Len(monitored) :
            n > m + 1 /\ monitored[n].kind = b /\ monitored[n].id = i
    BY <1>2, <2>1 DEF Follows
  <2>3. n # 1 /\ n - 1 > m
    BY <2>2
  <2>4. n - 1 \in 1..Len(monitored') /\ monitored'[n - 1] = monitored[n]
    BY <1>1, <2>3
  <2> QED
    BY <2>2, <2>3, <2>4
<1>3. ASSUME msg.kind = a, msg.id = i PROVE OnTheWay(b, i)'
  <2>1. PICK n \in 1..Len(monitored) :
            n > 1 /\ monitored[n].kind = b /\ monitored[n].id = i
    BY <1>1, <1>3 DEF Follows
  <2>2. n # 1
    BY <2>1
  <2>3. n - 1 \in 1..Len(monitored') /\ monitored'[n - 1] = monitored[n]
    BY <1>1, <2>2
  <2> QED
    BY <2>1, <2>3 DEF OnTheWay
<1>4. Follows(a, b, i)'
  BY <1>2 DEF Follows
<1> QED
  BY <1>3, <1>4

LEMMA AddsEnds ==
  ASSUME NEW S, Adds(S), UNCHANGED <<pushing, phoneHas>>, NEW i, Ends(i),
         \A s \in S : ~(s.kind = "reply" /\ s.id = i)
  PROVE  Ends(i)'
<1>1. missing \subseteq missing'
  BY DEF Adds
<1>2. OnTheWay("closed", i) => OnTheWay("closed", i)'
  BY AddsOnTheWay
<1>3. Follows("reply", "closed", i) => Follows("reply", "closed", i)'
  BY AddsFollows
<1> QED
  BY <1>1, <1>2, <1>3 DEF Ends

LEMMA AddsBegins ==
  ASSUME NEW S, Adds(S), UNCHANGED <<pushing, phoneHas>>, NEW i, Begins(i),
         \A s \in S : ~(s.kind = "closed" /\ s.id = i)
  PROVE  Begins(i)'
<1>1. missing \subseteq missing'
  BY DEF Adds
<1>2. OnTheWay("reply", i) => OnTheWay("reply", i)'
  BY AddsOnTheWay
<1>3. Follows("closed", "reply", i) => Follows("closed", "reply", i)'
  BY AddsFollows
<1> QED
  BY <1>1, <1>2, <1>3 DEF Begins

(* The ids on the screen that are not the bridge's were so before, or one  *)
(* has just been assigned.                                                 *)
LEMMA ScreenPast ==
  ASSUME Ids, IdsPast, NEW i \in shown
  PROVE  i \in BridgeIds' <=> i \in BridgeIds
BY DEF Ids, IdsPast

(* Steps that leave the watcher and the screen alone.                      *)
LEMMA EndingStays ==
  ASSUME NoteTypes, Ids, IdsPast, Ending, UNCHANGED <<nextId, shown, watcherNotes>>
  PROVE  Ending'
<1>1. \A i : (Ends(i)' <=> Ends(i)) /\ (Begins(i)' <=> Begins(i))
  BY DEF Ends, Begins, Follows, OnTheWay, watcherNotes
<1> QED
  BY <1>1, ScreenPast DEF Ending

LEMMA HostEnding ==
  ASSUME NoteTypes, Ids, IdsPast, Ending,
         \/ AppNotifies
         \/ \E c \in 1..MaxCalls : ServerAnswers(c)
         \/ \E i \in Id : Closed(i)
  PROVE  Ending'
<1>1. ASSUME NEW msg, Adds({msg}), UNCHANGED <<nextId, shown, pushing, phoneHas>>,
             msg.kind \in {"call", "error"}
      PROVE  Ending'
  <2>1. \A i : (Ends(i) => Ends(i)') /\ (Begins(i) => Begins(i)')
    BY <1>1, AddsEnds, AddsBegins
  <2> QED
    BY <1>1, <2>1, ScreenPast DEF Ending
<1>2. CASE AppNotifies
  <2>1. PICK msg \in Msg : msg.kind = "call" /\ Adds({msg})
    BY <1>2, AppSends DEF Sends
  <2>2. UNCHANGED <<nextId, shown, pushing, phoneHas>>
    BY <1>2 DEF AppNotifies
  <2> QED
    BY <1>1, <2>1, <2>2
<1>3. ASSUME NEW c \in 1..MaxCalls, Sends("error", c, NoId),
             UNCHANGED <<nextId, shown, pushing, phoneHas>>
      PROVE  Ending'
  <2>1. PICK msg \in Msg : msg.kind = "error" /\ Adds({msg})
    BY <1>3 DEF Sends
  <2> QED
    BY <1>1, <1>3, <2>1
<1>4. ASSUME NEW c \in 1..MaxCalls, NEW j \in Nat, ServerReplies(c, j),
             UNCHANGED <<pushing, phoneHas>>
      PROVE  Ending'
  <2>1. PICK msg \in Msg : /\ msg.kind = "reply" /\ msg.id = j
                           /\ Adds({msg}) /\ Delivers(msg)
    BY <1>4 DEF ServerReplies, Sends
  <2>2. /\ shown' = shown \cup {j} /\ nextId \in Nat
        /\ \/ j = nextId /\ nextId' = nextId + 1
           \/ UNCHANGED nextId
    BY <1>4 DEF ServerReplies, NoteTypes
  <2>3. ASSUME NEW i \in (1..(nextId' - 1)) \ shown' PROVE Ends(i)'
    <3>1. i # j /\ i \in (1..(nextId - 1)) \ shown
      BY <2>2
    <3>2. Ends(i)
      BY <3>1 DEF Ending
    <3> QED
      BY <1>4, <2>1, <3>1, <3>2, AddsEnds
  <2>4. ASSUME NEW i \in shown' \ BridgeIds' PROVE Begins(i)'
    <3>1. CASE i = j
      <4>1. \/ i \in missing'
            \/ OnTheWay("reply", i)' /\ Follows("closed", "reply", i)'
        BY <2>1, <3>1, DeliversLast
      <4> QED
        BY <4>1 DEF Begins
    <3>2. CASE i \in shown
      <4>1. Begins(i)
        BY <2>4, <3>2, ScreenPast DEF Ending
      <4> QED
        BY <1>4, <2>1, <4>1, AddsBegins
    <3> QED
      BY <2>2, <2>4, <3>1, <3>2
  <2> QED
    BY <2>3, <2>4 DEF Ending
<1>5. ASSUME NEW c \in 1..MaxCalls, ServerAnswers(c) PROVE Ending'
  <2>1. UNCHANGED <<pushing, phoneHas>>
    BY <1>5 DEF ServerAnswers
  <2> QED
    BY <1>3, <1>4, <1>5, <2>1, AnswerSends
<1>6. ASSUME NEW j \in Id, Closed(j) PROVE Ending'
  <2>1. PICK msg \in Msg : /\ msg.kind = "closed" /\ msg.id = j
                           /\ Adds({msg}) /\ Delivers(msg)
    BY <1>6, ClosingSends DEF Sends
  <2>2. shown' = shown \ {j} /\ UNCHANGED <<nextId, pushing, phoneHas>>
    BY <1>6 DEF Closed
  <2>3. ASSUME NEW i \in (1..(nextId - 1)) \ shown' PROVE Ends(i)'
    <3>1. CASE i = j
      <4>1. /\ Adds({msg}) /\ Delivers(msg)
            /\ msg.kind = "closed" /\ msg.id = i /\ "reply" # "closed"
        BY <2>1, <3>1
      <4>2. \/ i \in missing'
            \/ OnTheWay("closed", i)' /\ Follows("reply", "closed", i)'
        BY <4>1, DeliversLast
      <4> QED
        BY <4>2 DEF Ends
    <3>2. CASE i # j
      <4>1. Ends(i)
        BY <2>2, <2>3, <3>2 DEF Ending
      <4> QED
        BY <2>1, <2>2, <4>1, AddsEnds
    <3> QED
      BY <3>1, <3>2
  <2>4. ASSUME NEW i \in shown' \ BridgeIds' PROVE Begins(i)'
    <3>1. i # j /\ Begins(i)
      BY <2>2, <2>4, ScreenPast DEF Ending
    <3> QED
      BY <2>1, <2>2, <3>1, AddsBegins
  <2> QED
    BY <2>2, <2>3, <2>4 DEF Ending
<1> QED
  BY <1>2, <1>5, <1>6

(* The watcher takes a message off the queue.                              *)
LEMMA WatcherEnding ==
  ASSUME NoteTypes, Messages, Ids, EchoFree, InOrder, Ending,
         HoldCall \/ DropCall \/ MatchReply \/ ForwardClosing
  PROVE  Ending'
<1> DEFINE msg == Head(monitored)
<1>1. PICK kind : Received(kind)
  BY DEF HoldCall, DropCall, MatchReply, ForwardClosing
<1>2. /\ UNCHANGED <<nextId, shown, missing, phoneHas, originIDs, rendered>>
      /\ BridgeIds' = BridgeIds
  BY DEF HoldCall, DropCall, MatchReply, ForwardClosing, hostNotes, showNotes,
         bridgeNotes, BridgeIds
<1>3. Takes(msg) /\ msg.kind = kind /\ pushing[1] = "idle"
  BY <1>1, TakesHead DEF Received
<1>4. 1 \in 1..Len(monitored) /\ monitored[1] = msg
  BY <1>3 DEF Takes
<1>5. RepliesHeard /\ NoEcho
  BY InOrderIs DEF EchoFree
<1>6. \/ UNCHANGED pushing /\ kind \in {"call", "marked", "error"}
      \/ /\ kind = "reply"
         /\ pushing' = IF msg.call \in pending THEN <<"push", msg.id>> ELSE pushing
      \/ /\ kind = "closed"
         /\ pushing' = IF msg.id \in originIDs THEN pushing ELSE <<"clear", msg.id>>
  <2>1. CASE HoldCall \/ DropCall
    BY <1>1, <2>1 DEF HoldCall, DropCall, Received
  <2>2. CASE MatchReply
    BY <1>1, <2>2 DEF MatchReply, Received
  <2>3. CASE ForwardClosing
    BY <1>1, <2>3 DEF ForwardClosing, Received
  <2> QED
    BY <2>1, <2>2, <2>3
<1> HIDE DEF msg
<1>7. \A i : pushing # <<"push", i>> /\ pushing # <<"clear", i>>
  BY <1>3
<1>8. /\ \A i : pushing' = <<"push", i>> => kind = "reply" /\ msg.id = i
      /\ \A i : pushing' = <<"clear", i>> => kind = "closed" /\ msg.id = i
  BY <1>6, <1>7
<1>9. ASSUME NEW i, Ends(i) PROVE Ends(i)'
  <2>1. CASE i \in missing
    BY <1>2, <2>1 DEF Ends
  <2>2. CASE i \notin missing
    <3>1. Follows("reply", "closed", i) /\ (i \in phoneHas => OnTheWay("closed", i))
      BY <1>7, <1>9, <2>2 DEF Ends
    <3>2. /\ Follows("reply", "closed", i)'
          /\ kind = "reply" /\ msg.id = i => OnTheWay("closed", i)'
      BY <1>3, <3>1, TakesFollows
    <3>3. ASSUME i \in phoneHas
          PROVE  OnTheWay("closed", i)' \/ pushing' = <<"clear", i>>
      <4>1. OnTheWay("closed", i)' \/ (kind = "closed" /\ msg.id = i)
        BY <1>3, <3>1, <3>3, TakesOnTheWay
      <4>2. i \notin originIDs
        <5>1. i \in 1..(nextId - 1) /\ i # NoId
          BY <3>3, BelowIsOther DEF Ids, NoteTypes, NoId
        <5> QED
          BY <1>5, <3>3, <5>1 DEF NoEcho, BridgeIds
      <4> QED
        BY <1>6, <4>1, <4>2
    <3>4. pushing' = <<"push", i>> => OnTheWay("closed", i)'
      BY <1>8, <3>2
    <3> QED
      BY <1>2, <3>2, <3>3, <3>4 DEF Ends
  <2> QED
    BY <2>1, <2>2
<1>10. ASSUME NEW i \in shown \ BridgeIds, Begins(i) PROVE Begins(i)'
  <2>1. CASE missing \cap {i, NoId} # {}
    BY <1>2, <2>1 DEF Begins
  <2>2. CASE missing \cap {i, NoId} = {}
    <3>1. Follows("closed", "reply", i) /\ (i \notin phoneHas => OnTheWay("reply", i))
      BY <1>7, <1>10, <2>2 DEF Begins
    <3>2. /\ Follows("closed", "reply", i)'
          /\ kind = "closed" /\ msg.id = i => OnTheWay("reply", i)'
      BY <1>3, <3>1, TakesFollows
    <3>3. ASSUME i \notin phoneHas
          PROVE  OnTheWay("reply", i)' \/ pushing' = <<"push", i>>
      <4>1. OnTheWay("reply", i)' \/ (kind = "reply" /\ msg.id = i)
        BY <1>3, <3>1, <3>3, TakesOnTheWay
      <4>2. ASSUME kind = "reply", msg.id = i PROVE msg.call \in pending
        <5>1. HeardBefore(1)
          BY <1>3, <1>4, <1>5, <1>10, <4>2 DEF RepliesHeard
        <5>2. \A n \in 1..Len(monitored) : ~(n < 1)
          OBVIOUS
        <5> QED
          BY <1>4, <2>2, <5>1, <5>2 DEF HeardBefore
      <4> QED
        BY <1>6, <4>1, <4>2
    <3>4. pushing' = <<"clear", i>> => OnTheWay("reply", i)'
      BY <1>8, <3>2
    <3> QED
      BY <1>2, <3>2, <3>3, <3>4 DEF Begins
  <2> QED
    BY <2>1, <2>2
<1> QED
  BY <1>2, <1>9, <1>10 DEF Ending

(* The phone does as it is told, or of its own.                            *)
LEMMA PhoneEnding ==
  ASSUME NoteTypes, Ending,
         \/ SyncNotification \/ ClearNotification \/ PhoneNotReached
         \/ \E i \in Id : PhoneSweeps(i)
  PROVE  Ending'
<1>1. /\ UNCHANGED <<nextId, shown, monitored, originIDs, rendered>>
      /\ BridgeIds' = BridgeIds
      /\ \A kind, i : OnTheWay(kind, i)' <=> OnTheWay(kind, i)
      /\ \A a, b, i : Follows(a, b, i)' <=> Follows(a, b, i)
  BY DEF SyncNotification, ClearNotification, PhoneNotReached, PhoneSweeps,
         WatcherGoesOn, hostNotes, showNotes, bridgeNotes, BridgeIds, OnTheWay, Follows
<1>2. /\ pushing \in {"idle", "push", "clear"} \X Nat
      /\ \A i : /\ pushing = <<"push", i>> => pushing[1] = "push" /\ i = pushing[2]
                /\ pushing = <<"clear", i>> => pushing[1] = "clear" /\ i = pushing[2]
  BY DEF NoteTypes
<1>3. /\ pushing[1] = "push" => pushing = <<"push", pushing[2]>>
      /\ pushing[1] = "clear" => pushing = <<"clear", pushing[2]>>
  BY <1>2
<1>4. ASSUME \A i : (Ends(i) => Ends(i)') /\ (Begins(i) => Begins(i)')
      PROVE  Ending'
  BY <1>1, <1>4 DEF Ending
<1>5. CASE SyncNotification
  <2>1. /\ pushing[1] = "push" /\ phoneHas' = phoneHas \cup {pushing[2]}
        /\ UNCHANGED missing
        /\ \A i : pushing' # <<"push", i>> /\ pushing' # <<"clear", i>>
    BY <1>5 DEF SyncNotification, WatcherGoesOn
  <2>2. \A i : pushing # <<"clear", i>>
    BY <2>1
  <2>3. ASSUME NEW i, Ends(i) PROVE Ends(i)'
    <3>1. i \in phoneHas' => i \in phoneHas \/ pushing = <<"push", i>>
      BY <1>3, <2>1
    <3> QED
      BY <1>1, <2>1, <2>2, <2>3, <3>1 DEF Ends
  <2>4. ASSUME NEW i, Begins(i) PROVE Begins(i)'
    <3>1. i \notin phoneHas' => i \notin phoneHas /\ pushing # <<"push", i>>
      BY <1>2, <2>1
    <3> QED
      BY <1>1, <2>1, <2>4, <3>1 DEF Begins
  <2> QED
    BY <1>4, <2>3, <2>4
<1>6. CASE ClearNotification
  <2>1. /\ pushing[1] = "clear"
        /\ phoneHas' = phoneHas \ Cancelled(pushing[2])
        /\ missing' = missing \cup (Cancelled(pushing[2]) \ {pushing[2]})
        /\ \A i : pushing' # <<"push", i>> /\ pushing' # <<"clear", i>>
    BY <1>6 DEF ClearNotification, WatcherGoesOn
  <2>2. /\ pushing[2] \notin phoneHas'
        /\ phoneHas' \subseteq phoneHas /\ missing \subseteq missing'
        /\ \A i \in phoneHas \ {pushing[2]} : i \in phoneHas' \/ i \in missing'
    BY <2>1 DEF Cancelled
  <2>3. \A i : pushing # <<"push", i>>
    BY <2>1
  <2>4. ASSUME NEW i, Ends(i) PROVE Ends(i)'
    <3>1. i \in phoneHas' => i \in phoneHas /\ pushing # <<"clear", i>>
      BY <1>2, <2>2
    <3> QED
      BY <1>1, <2>1, <2>2, <2>4, <3>1 DEF Ends
  <2>5. ASSUME NEW i, Begins(i) PROVE Begins(i)'
    <3>1. i \notin phoneHas' =>
              \/ i \notin phoneHas \/ pushing = <<"clear", i>> \/ i \in missing'
      BY <1>3, <2>1, <2>2
    <3> QED
      BY <1>1, <2>1, <2>2, <2>3, <2>5, <3>1 DEF Begins
  <2> QED
    BY <1>4, <2>4, <2>5
<1>7. CASE PhoneNotReached
  <2>1. /\ missing' = missing \cup {pushing[2]} /\ UNCHANGED phoneHas
        /\ \A i : pushing' # <<"push", i>> /\ pushing' # <<"clear", i>>
    BY <1>7 DEF PhoneNotReached, WatcherGoesOn
  <2>2. \A i : pushing = <<"push", i>> \/ pushing = <<"clear", i>> => i \in missing'
    BY <1>2, <2>1
  <2>3. \A i : (Ends(i) => Ends(i)') /\ (Begins(i) => Begins(i)')
    BY <1>1, <2>1, <2>2 DEF Ends, Begins
  <2> QED
    BY <1>4, <2>3
<1>8. ASSUME NEW j \in Id, PhoneSweeps(j) PROVE Ending'
  <2>1. /\ missing' = missing \cup {j} /\ phoneHas' = phoneHas \ {j}
        /\ UNCHANGED pushing
    BY <1>8 DEF PhoneSweeps
  <2>2. \A i : (Ends(i) => Ends(i)') /\ (Begins(i) => Begins(i)')
    BY <1>1, <2>1 DEF Ends, Begins
  <2> QED
    BY <1>4, <2>2
<1> QED
  BY <1>5, <1>6, <1>7, <1>8

LEMMA ShowEnding ==
  ASSUME NoteTypes, Ids, IdsPast, Ending, NEW k \in Key, ShowCalls(k)
  PROVE  Ending'
<1>1. PICK id \in Nat : ShowsAs(k, id)
  BY ShowSends
<1>2. PICK S : Adds(S) /\ \A s \in S : s.kind = "marked" \/ (s.kind = "reply" /\ s.id = id)
  BY <1>1 DEF ShowsAs, SendsMarked
<1>3. /\ showing[k] = "call" /\ UNCHANGED <<pushing, phoneHas, originIDs>>
      /\ shown' = shown \cup {id}
  BY <1>1 DEF ShowCalls, bridgeNotes, ShowsAs
<1>4. /\ nextId \in Nat /\ id \in BridgeIds'
      /\ \/ id = nextId /\ nextId' = nextId + 1
         \/ nextId' = nextId
  <2>1. /\ rendered'[k] = id
        /\ \/ id = nextId /\ nextId' = nextId + 1
           \/ nextId' = nextId
    BY <1>1, <1>3, ShowsAsOwn
  <2> QED
    BY <2>1 DEF BridgeIds, NoteTypes
<1>5. ASSUME NEW i \in (1..(nextId' - 1)) \ shown' PROVE Ends(i)'
  <2>1. i # id /\ i \in (1..(nextId - 1)) \ shown
    BY <1>3, <1>4
  <2>2. Ends(i)
    BY <2>1 DEF Ending
  <2> QED
    BY <1>2, <1>3, <2>1, <2>2, AddsEnds
<1>6. ASSUME NEW i \in shown' \ BridgeIds' PROVE Begins(i)'
  <2>1. i \in shown \ BridgeIds
    BY <1>3, <1>4, <1>6, ScreenPast
  <2>2. Begins(i)
    BY <2>1 DEF Ending
  <2> QED
    BY <1>2, <1>3, <2>2, AddsBegins
<1> QED
  BY <1>5, <1>6 DEF Ending

LEMMA EndingNext ==
  ASSUME NoteTypes, Messages, Ids, IdsPast, EchoFree, InOrder, Ending, NoteNext
  PROVE  Ending'
<1>1. CASE BridgeSeesClosing \/ \E i \in Id : ReplyBegins(i)
  BY <1>1, EndingStays DEF BridgeSeesClosing, Forgotten, ReplyBegins, hostNotes
<1>2. ASSUME NEW k \in Key,
             \/ PhonePosts(k) \/ PhoneRemoves(k) \/ ReplyEnds(k)
             \/ ShowBegins(k) \/ ShowFails(k) \/ ShowRecords(k) \/ ShowMarks(k)
      PROVE  Ending'
  BY <1>2, EndingStays DEF PhonePosts, PhoneRemoves, ReplyEnds, ShowBegins, ShowFails,
                           ShowRecords, ShowMarks, hostNotes
<1> QED
  BY <1>1, <1>2, HostEnding, WatcherEnding, PhoneEnding, ShowEnding DEF NoteNext

(* Nothing on the way, nothing missing: the two agree.                     *)
LEMMA EndingMirrors ==
  ASSUME Ids, Ending
  PROVE  PhoneMirrorsHost
<1>1. ASSUME NEW i \in phoneHas \ shown
      PROVE  OnTheWay("closed", i) \/ pushing = <<"clear", i>> \/ i \in missing
  <2>1. i \in (1..(nextId - 1)) \ shown
    BY DEF Ids
  <2> QED
    BY <2>1 DEF Ending, Ends
<1>2. ASSUME NEW i \in shown \ (phoneHas \cup BridgeIds)
      PROVE  \/ OnTheWay("reply", i) \/ pushing = <<"push", i>>
             \/ missing \cap {i, NoId} # {}
  BY DEF Ending, Begins
<1> QED
  BY <1>1, <1>2 DEF PhoneMirrorsHost

-----------------------------------------------------------------------------
(* The maps of the bridge *)

LEMMA AssignedIsId ==
  ASSUME NoteTypes, Numbering
  PROVE  1..(nextId - 1) \subseteq Id
<1>1. /\ nextId \in Nat /\ calls \in Nat /\ MaxCalls \in Nat
      /\ Cardinality(Unanswered) \in Nat
      /\ nextId + Cardinality(Unanswered) <= calls + 1 /\ calls <= MaxCalls
  BY UnansweredIsFinite, NotificationsAssumption DEF NoteTypes, Numbering
<1>2. \A i \in 1..(nextId - 1) : i \in 1..MaxCalls
  BY <1>1
<1> QED
  BY <1>2 DEF Id

LEMMA BridgeAssigned ==
  ASSUME NoteTypes, Ids
  PROVE  /\ BridgeIds \subseteq 0..(nextId - 1) /\ NoId \in 0..(nextId - 1)
         /\ \A k \in Key : /\ byKey[k] \in 0..(nextId - 1)
                           /\ replaces[k] \in 0..(nextId - 1)
                           /\ rendered[k] \in 0..(nextId - 1)
<1>1. nextId \in Nat /\ 1 <= nextId /\ originIDs \subseteq 1..(nextId - 1)
      /\ \A k \in Key : rendered[k] \in 0..(nextId - 1)
  BY DEF NoteTypes, Ids
<1>2. 1..(nextId - 1) \subseteq 0..(nextId - 1) /\ NoId \in 0..(nextId - 1)
  BY <1>1, BelowIsOther DEF NoId
<1>3. BridgeIds \subseteq 0..(nextId - 1)
  BY <1>1, <1>2 DEF BridgeIds
<1> QED
  BY <1>1, <1>2, <1>3 DEF Ids

(* Steps that bring no id of the bridge back to the screen.                *)
NoneBack == \A i \in shown' : i \in shown \/ i \notin BridgeIds

LEMMA ScreenLater ==
  ASSUME Ids, Ids', NoneBack, NEW i \in shown', i \in BridgeIds \cup {NoId}
  PROVE  i \in shown
<1>1. i # NoId
  BY DEF Ids, NoId
<1> QED
  BY <1>1 DEF NoneBack

LEMMA IdIsNotNoId == NoId \notin Id /\ NoKey \notin Key
BY NotificationsAssumption DEF Id, NoId

Inverses == \A k \in Key, i \in Id : byLinux[i] = k <=> byKey[k] = i

Apart == \A k \in Key, l \in Key :
    k # l => {byKey[k], replaces[k], rendered[k]}
             \cap {byKey[l], replaces[l], rendered[l]} \subseteq {NoId}

Replacing == \A k \in Key :
    /\ showing[k] \in {"call", "record"} => byKey[k] \in {replaces[k], NoId}
    /\ showing[k] \in {"record", "mark"} /\ rendered[k] # replaces[k] =>
           replaces[k] \notin shown
    /\ showing[k] = "mark" /\ rendered[k] \in shown =>
           byLinux[rendered[k]] # NoKey \/ rendered[k] \in reused

Marked == \A i \in originIDs \cap shown : byLinux[i] # NoKey \/ Retaken(i)

LEMMA MapsAre == Maps <=> Inverses /\ Apart /\ Replacing /\ Marked
BY DEF Maps, Inverses, Apart, Replacing, Marked

LEMMA BridgeOwns ==
  ASSUME Ids, NEW k \in Key
  PROVE  /\ rendered[k] \in BridgeIds /\ originIDs \subseteq BridgeIds
         /\ replaces[k] \in BridgeIds \cup {NoId}
BY DEF Ids, BridgeIds

(* Steps that leave the bridge alone.                                      *)
LEMMA MapsStay ==
  ASSUME NoteTypes, Ids, Ids', NoneBack, Maps,
         UNCHANGED <<showing, replaces, rendered, byLinux, byKey, originIDs, reused>>
  PROVE  Maps'
<1>1. Inverses /\ Apart /\ Replacing /\ Marked
  BY MapsAre
<1>2. Inverses' /\ Apart'
  BY <1>1 DEF Inverses, Apart
<1>3. Replacing'
  BY <1>1, BridgeOwns, ScreenLater DEF Replacing
<1>4. Marked'
  <2> SUFFICES ASSUME NEW i \in originIDs, i \in shown'
               PROVE  byLinux[i] # NoKey \/ Retaken(i)
    BY DEF Marked, Retaken, BeingRecorded
  <2>1. i \in shown
    BY ScreenLater DEF BridgeIds
  <2> QED
    BY <1>1, <2>1 DEF Marked
<1> QED
  BY <1>2, <1>3, <1>4 DEF Maps, Inverses, Apart, Replacing, Marked

LEMMA ShowMaps ==
  ASSUME NoteTypes, Ids, Maps, NEW k \in Key,
         ShowBegins(k) \/ ShowCalls(k) \/ ShowFails(k)
  PROVE  Maps'
<1>1. Inverses /\ Apart /\ Replacing /\ Marked
  BY MapsAre
<1>2. UNCHANGED <<byLinux, byKey, originIDs, reused>>
  BY DEF ShowBegins, ShowCalls, ShowFails, bridgeNotes
<1>3. Inverses'
  BY <1>1, <1>2 DEF Inverses
<1>4. Apart' /\ Replacing' /\ Marked'
  <2>1. CASE ShowBegins(k) \/ ShowFails(k)
    <3>1. /\ UNCHANGED <<shown, rendered>> /\ showing[k] \in {"idle", "call"}
          /\ \A l \in Key \ {k} : replaces'[l] = replaces[l] /\ showing'[l] = showing[l]
          /\ replaces'[k] \in {byKey[k], NoId}
          /\ \/ showing'[k] = "idle"
             \/ showing'[k] = "call" /\ replaces'[k] = byKey[k]
      BY <2>1 DEF ShowBegins, ShowFails, hostNotes, NoteTypes
    <3>2. Apart'
      BY <1>1, <1>2, <3>1 DEF Apart
    <3>3. Replacing'
      BY <1>1, <1>2, <3>1 DEF Replacing
    <3>4. \A i : Retaken(i) => Retaken(i)'
      BY <1>2, <3>1 DEF Retaken, BeingRecorded
    <3>5. Marked'
      BY <1>1, <1>2, <3>1, <3>4 DEF Marked
    <3> QED
      BY <3>2, <3>3, <3>5
  <2>2. CASE ShowCalls(k)
    <3>1. PICK id \in Nat : ShowsAs(k, id)
      BY <2>2, ShowSends
    <3>2. /\ showing[k] = "call" /\ showing' = [showing EXCEPT ![k] = "record"]
          /\ UNCHANGED <<replaces, originIDs>>
          /\ shown' = shown \cup {id}
      BY <2>2, <3>1 DEF ShowCalls, bridgeNotes, ShowsAs
    <3>3. /\ \/ id = replaces[k]
             \/ id = nextId /\ replaces[k] \notin shown
          /\ id # NoId /\ rendered'[k] = id
          /\ \A l \in Key \ {k} : rendered'[l] = rendered[l]
      BY <3>1, <3>2, ShowsAsOwn
    <3>4. showing'[k] = "record" /\ \A l \in Key \ {k} : showing'[l] = showing[l]
      BY <3>2 DEF NoteTypes
    <3>5. nextId \notin 0..(nextId - 1)
      BY DEF NoteTypes
    <3>6. /\ replaces[k] # nextId
          /\ \A l \in Key \ {k} : id \notin {byKey[l], replaces[l], rendered[l]}
      BY <1>1, <3>3, <3>5, BridgeAssigned DEF Apart
    <3>7. Apart'
      BY <1>1, <1>2, <3>2, <3>3, <3>6 DEF Apart
    <3>8. ASSUME NEW l \in Key
          PROVE  /\ showing'[l] \in {"call", "record"} => byKey'[l] \in {replaces'[l], NoId}
                 /\ showing'[l] \in {"record", "mark"} /\ rendered'[l] # replaces'[l] =>
                        replaces'[l] \notin shown'
                 /\ showing'[l] = "mark" /\ rendered'[l] \in shown' =>
                        byLinux'[rendered'[l]] # NoKey \/ rendered'[l] \in reused'
      <4>1. CASE l = k
        BY <1>1, <1>2, <3>2, <3>3, <3>4, <3>6, <4>1 DEF Replacing
      <4>2. CASE l # k
        <5>1. /\ replaces[l] \in shown' => replaces[l] \in shown
              /\ rendered[l] \in shown' => rendered[l] \in shown
          BY <3>2, <3>6, <4>2
        <5> QED
          BY <1>1, <1>2, <3>2, <3>3, <3>4, <4>2, <5>1 DEF Replacing
      <4> QED
        BY <4>1, <4>2
    <3>9. ASSUME NEW i \in originIDs, i \in shown'
          PROVE  byLinux'[i] # NoKey \/ Retaken(i)'
      <4>1. CASE i = id
        BY <3>3, <3>4, <4>1 DEF Retaken, BeingRecorded
      <4>2. CASE i \in shown
        <5>1. Retaken(i) => Retaken(i)'
          BY <1>2, <3>2, <3>3, <3>4 DEF Retaken, BeingRecorded
        <5> QED
          BY <1>1, <1>2, <3>9, <4>2, <5>1 DEF Marked
      <4> QED
        BY <3>2, <3>9, <4>1, <4>2
    <3> QED
      BY <3>2, <3>7, <3>8, <3>9 DEF Replacing, Marked
  <2> QED
    BY <2>1, <2>2
<1> QED
  BY <1>3, <1>4 DEF Maps, Inverses, Apart, Replacing, Marked

LEMMA RecordMaps ==
  ASSUME NoteTypes, Numbering, Ids, Maps, NEW k \in Key, ShowRecords(k)
  PROVE  Maps'
<1>1. Inverses /\ Apart /\ Replacing /\ Marked
  BY MapsAre
<1>2. /\ showing[k] = "record" /\ showing' = [showing EXCEPT ![k] = "mark"]
      /\ byLinux' = Record(k)
      /\ byKey' = [byKey EXCEPT ![k] = rendered[k]]
      /\ reused' = IF InClosings(rendered[k]) THEN reused \cup {rendered[k]}
                   ELSE reused \ {rendered[k]}
      /\ UNCHANGED <<shown, replaces, rendered, originIDs>>
  BY DEF ShowRecords, hostNotes
<1>3. /\ showing'[k] = "mark" /\ \A l \in Key \ {k} : showing'[l] = showing[l]
      /\ byKey'[k] = rendered[k] /\ \A l \in Key \ {k} : byKey'[l] = byKey[l]
  BY <1>2 DEF NoteTypes
<1>4. \A i \in Id : /\ i = rendered[k] => byLinux'[i] = k
                    /\ i # rendered[k] /\ i = replaces[k] => byLinux'[i] = NoKey
                    /\ i # rendered[k] /\ i # replaces[k] => byLinux'[i] = byLinux[i]
  BY <1>2 DEF Record
<1>5. \A l \in Key \ {k} :
          /\ byKey[l] \in Id => byKey[l] # rendered[k] /\ byKey[l] # replaces[k]
          /\ rendered[l] \in Id => rendered[l] # rendered[k] /\ rendered[l] # replaces[k]
  BY <1>1, IdIsNotNoId DEF Apart
<1>6. Inverses'
  <2> SUFFICES ASSUME NEW l \in Key, NEW i \in Id
               PROVE  byLinux'[i] = l <=> byKey'[l] = i
    BY DEF Inverses
  <2>1. CASE l = k
    <3>1. byKey[k] \in {replaces[k], NoId}
      BY <1>1, <1>2 DEF Replacing
    <3>2. byLinux[i] = k <=> byKey[k] = i
      BY <1>1 DEF Inverses
    <3> QED
      BY <1>3, <1>4, <2>1, <3>1, <3>2, IdIsNotNoId
  <2>2. CASE l # k
    <3>1. byLinux[i] = l <=> byKey[l] = i
      BY <1>1 DEF Inverses
    <3> QED
      BY <1>3, <1>4, <1>5, <2>2, <3>1, IdIsNotNoId
  <2> QED
    BY <2>1, <2>2
<1>7. Apart'
  BY <1>1, <1>2, <1>3 DEF Apart
<1>8. \A i \in shown : i \in Id
  BY AssignedIsId DEF Ids
<1>9. Replacing'
  <2> SUFFICES ASSUME NEW l \in Key
               PROVE  /\ showing'[l] \in {"call", "record"} =>
                             byKey'[l] \in {replaces[l], NoId}
                      /\ showing'[l] \in {"record", "mark"} /\ rendered[l] # replaces[l] =>
                             replaces[l] \notin shown
                      /\ showing'[l] = "mark" /\ rendered[l] \in shown =>
                             byLinux'[rendered[l]] # NoKey \/ rendered[l] \in reused'
    BY <1>2 DEF Replacing
  <2>1. CASE l = k
    BY <1>1, <1>2, <1>3, <1>4, <1>8, <2>1, IdIsNotNoId DEF Replacing
  <2>2. CASE l # k
    <3>1. rendered[l] \in shown =>
              /\ rendered[l] # rendered[k]
              /\ byLinux'[rendered[l]] = byLinux[rendered[l]]
      BY <1>4, <1>5, <1>8, <2>2
    <3>2. rendered[l] # rendered[k] =>
              (rendered[l] \in reused => rendered[l] \in reused')
      BY <1>2
    <3> QED
      BY <1>1, <1>3, <2>2, <3>1, <3>2 DEF Replacing
  <2> QED
    BY <2>1, <2>2
<1>10. Marked'
  <2> SUFFICES ASSUME NEW i \in originIDs \cap shown
               PROVE  byLinux'[i] # NoKey \/ Retaken(i)'
    BY <1>2 DEF Marked
  <2>1. i \in Id /\ (byLinux[i] # NoKey \/ Retaken(i))
    BY <1>1, <1>8 DEF Marked
  <2>2. CASE i = rendered[k]
    BY <1>4, <2>1, <2>2, IdIsNotNoId
  <2>3. CASE i # rendered[k]
    <3>1. i # replaces[k]
      BY <1>1, <1>2, <2>3 DEF Replacing
    <3>2. Retaken(i) => Retaken(i)'
      <4>1. i \in reused => i \in reused'
        BY <1>2, <2>3
      <4>2. ASSUME NEW l \in Key, showing[l] = "record", rendered[l] = i
            PROVE  showing'[l] = "record" /\ rendered'[l] = i
        BY <1>2, <1>3, <2>3, <4>2
      <4> QED
        BY <4>1, <4>2 DEF Retaken, BeingRecorded
    <3> QED
      BY <1>4, <2>1, <2>3, <3>1, <3>2
  <2> QED
    BY <2>2, <2>3
<1> QED
  BY <1>6, <1>7, <1>9, <1>10 DEF Maps, Inverses, Apart, Replacing, Marked

LEMMA MarkMaps ==
  ASSUME NoteTypes, Maps, NEW k \in Key, ShowMarks(k)
  PROVE  Maps'
<1>1. Inverses /\ Apart /\ Replacing /\ Marked
  BY MapsAre
<1>2. /\ showing[k] = "mark" /\ originIDs' = originIDs \cup {rendered[k]}
      /\ UNCHANGED <<shown, byLinux, byKey, reused>>
      /\ showing' = [showing EXCEPT ![k] = "idle"]
      /\ replaces' = [replaces EXCEPT ![k] = NoId]
      /\ rendered' = [rendered EXCEPT ![k] = NoId]
  BY DEF ShowMarks, hostNotes
<1>3. /\ showing'[k] = "idle" /\ replaces'[k] = NoId /\ rendered'[k] = NoId
      /\ \A l \in Key \ {k} : /\ showing'[l] = showing[l] /\ replaces'[l] = replaces[l]
                              /\ rendered'[l] = rendered[l]
  BY <1>2 DEF NoteTypes
<1>4. Inverses'
  BY <1>1, <1>2 DEF Inverses
<1>5. Apart'
  BY <1>1, <1>2, <1>3 DEF Apart
<1>6. Replacing'
  BY <1>1, <1>2, <1>3 DEF Replacing
<1>7. Marked'
  <2>1. \A i : Retaken(i) => Retaken(i)'
    BY <1>2, <1>3 DEF Retaken, BeingRecorded
  <2>2. rendered[k] \in reused => Retaken(rendered[k])
    BY DEF Retaken
  <2> QED
    BY <1>1, <1>2, <2>1, <2>2 DEF Marked, Replacing
<1> QED
  BY <1>4, <1>5, <1>6, <1>7 DEF Maps, Inverses, Apart, Replacing, Marked

(* The signal that the bridge reads names an id that is off the screen, or *)
(* that the bridge has got again.                                          *)
LEMMA HeadIsClosed ==
  ASSUME NoteTypes, Numbering, Ids, Dismissal, closings # <<>>
  PROVE  /\ Head(closings) \in Id
         /\ Head(closings) \in shown \cap BridgeIds => Retaken(Head(closings))
         /\ \A i : InClosings(i) =>
                \/ i = Head(closings)
                \/ \E m \in 1..Len(Tail(closings)) : Tail(closings)[m] = i
<1>1. /\ closings \in Seq(Nat) /\ 1 \in 1..Len(closings) /\ Head(closings) = closings[1]
      /\ \A m \in 1..Len(closings) :
             m = 1 \/ (m - 1 \in 1..Len(Tail(closings)) /\ (m - 1) + 1 = m)
      /\ \A m \in 1..Len(Tail(closings)) : Tail(closings)[m] = closings[m + 1]
  BY DEF NoteTypes
<1>2. Head(closings) \in 1..(nextId - 1) /\ InClosings(Head(closings))
  BY <1>1 DEF Ids, InClosings
<1>3. /\ Head(closings) \in Id
      /\ Head(closings) \in shown \cap BridgeIds => Retaken(Head(closings))
  BY <1>2, AssignedIsId DEF Dismissal
<1>4. \A m \in 1..Len(closings) :
          \/ m = 1
          \/ m - 1 \in 1..Len(Tail(closings)) /\ Tail(closings)[m - 1] = closings[m]
  BY <1>1
<1> QED
  BY <1>1, <1>3, <1>4 DEF InClosings

LEMMA ForgottenMaps ==
  ASSUME NoteTypes, Numbering, Ids, Maps, Dismissal, BridgeSeesClosing
  PROVE  Maps'
<1> DEFINE id == Head(closings)
<1>1. Inverses /\ Apart /\ Replacing /\ Marked
  BY MapsAre
<1>2. /\ closings # <<>>
      /\ byLinux' = [byLinux EXCEPT ![id] = NoKey]
      /\ byKey' = [j \in Key |-> IF j = byLinux[id] THEN NoId ELSE byKey[j]]
      /\ UNCHANGED <<shown, showing, replaces, rendered, originIDs, reused>>
  BY DEF BridgeSeesClosing, Forgotten, hostNotes, showNotes
<1>3. id \in Id /\ (id \in shown \cap BridgeIds => Retaken(id))
  BY <1>2, HeadIsClosed
<1> HIDE DEF id
<1>4. byLinux'[id] = NoKey /\ \A i \in Id \ {id} : byLinux'[i] = byLinux[i]
  BY <1>2, <1>3 DEF NoteTypes
<1>5. \A l \in Key : IF l = byLinux[id] THEN byKey'[l] = NoId ELSE byKey'[l] = byKey[l]
  BY <1>2
<1>6. Inverses'
  <2> SUFFICES ASSUME NEW l \in Key, NEW i \in Id
               PROVE  byLinux'[i] = l <=> byKey'[l] = i
    BY DEF Inverses
  <2>1. /\ byLinux[i] = l <=> byKey[l] = i
        /\ byLinux[id] = l <=> byKey[l] = id
    BY <1>1, <1>3 DEF Inverses
  <2> QED
    BY <1>3, <1>4, <1>5, <2>1, IdIsNotNoId
<1>7. Apart'
  BY <1>1, <1>2, <1>5 DEF Apart
<1>8. \A i \in shown : i \in Id
  BY AssignedIsId DEF Ids
<1>9. Replacing'
  <2>1. ASSUME NEW l \in Key, showing[l] = "mark", rendered[l] \in shown
        PROVE  byLinux'[rendered[l]] # NoKey \/ rendered[l] \in reused
    <3>1. CASE rendered[l] = id
      <4>1. Retaken(id)
        BY <1>3, <2>1, <3>1, BridgeOwns
      <4>2. ASSUME NEW j \in Key, showing[j] = "record" PROVE rendered[j] # id
        <5>1. j # l /\ id # NoId
          BY <1>3, <2>1, <4>2, IdIsNotNoId
        <5>2. {byKey[j], replaces[j], rendered[j]}
              \cap {byKey[l], replaces[l], rendered[l]} \subseteq {NoId}
          BY <1>1, <5>1 DEF Apart
        <5> QED
          BY <3>1, <5>1, <5>2
      <4> QED
        BY <3>1, <4>1, <4>2 DEF Retaken, BeingRecorded
    <3>2. CASE rendered[l] # id
      BY <1>1, <1>4, <1>8, <2>1, <3>2 DEF Replacing
    <3> QED
      BY <3>1, <3>2
  <2> QED
    BY <1>1, <1>2, <1>5, <2>1 DEF Replacing
<1>10. Marked'
  <2> SUFFICES ASSUME NEW i \in originIDs \cap shown
               PROVE  byLinux'[i] # NoKey \/ Retaken(i)
    BY <1>2 DEF Marked, Retaken, BeingRecorded
  <2>1. CASE i = id
    BY <1>3, <2>1 DEF BridgeIds
  <2>2. CASE i # id
    BY <1>1, <1>4, <1>8, <2>2 DEF Marked
  <2> QED
    BY <2>1, <2>2
<1> QED
  BY <1>6, <1>7, <1>9, <1>10 DEF Maps, Inverses, Apart, Replacing, Marked

(* Applications never get an id of the bridge.                             *)
LEMMA HostNoneBack ==
  ASSUME NoteTypes, Ids,
         \/ UNCHANGED shown
         \/ \E c \in 1..MaxCalls : ServerAnswers(c)
         \/ \E i \in Id : Closed(i)
  PROVE  NoneBack
<1>1. ASSUME NEW c \in 1..MaxCalls, ServerAnswers(c) PROVE NoneBack
  <2>1. BridgeIds' = BridgeIds
    BY <1>1 DEF ServerAnswers, showNotes, bridgeNotes, BridgeIds
  <2>2. \A i \in Nat : ServerReplies(c, i) => i \notin BridgeIds
    BY <1>1, <2>1, RepliesAreClean
  <2> QED
    BY <1>1, <2>2, AnswerSends DEF ServerReplies, NoneBack
<1> QED
  BY <1>1 DEF NoneBack, Closed

LEMMA MapsNext ==
  ASSUME NoteTypes, Numbering, Ids, Ids', Maps, Dismissal, NoteNext
  PROVE  Maps'
<1>1. ASSUME UNCHANGED <<showNotes, byLinux, byKey, originIDs, reused>>, NoneBack
      PROVE  Maps'
  BY <1>1, MapsStay DEF showNotes
<1>2. CASE \/ AppNotifies
           \/ \E c \in 1..MaxCalls : ServerAnswers(c)
           \/ \E i \in Id : Closed(i) \/ ReplyBegins(i)
  <2>1. NoneBack
    BY <1>2, HostNoneBack DEF AppNotifies, ReplyBegins, hostNotes
  <2> QED
    BY <1>1, <1>2, <2>1 DEF AppNotifies, ServerAnswers, Closed, ReplyBegins, bridgeNotes
<1>3. CASE \/ HoldCall \/ DropCall \/ MatchReply \/ ForwardClosing
           \/ SyncNotification \/ ClearNotification \/ PhoneNotReached
           \/ \E i \in Id : PhoneSweeps(i)
  <2>1. UNCHANGED <<hostNotes, showNotes, bridgeNotes>>
    BY <1>3 DEF HoldCall, DropCall, MatchReply, ForwardClosing, SyncNotification,
                ClearNotification, PhoneNotReached, PhoneSweeps, WatcherGoesOn
  <2> QED
    BY <1>1, <2>1, HostNoneBack DEF hostNotes, bridgeNotes
<1>4. ASSUME NEW k \in Key, PhonePosts(k) \/ PhoneRemoves(k) \/ ReplyEnds(k)
      PROVE  Maps'
  BY <1>1, <1>4, HostNoneBack DEF PhonePosts, PhoneRemoves, ReplyEnds, hostNotes
<1> QED
  BY <1>2, <1>3, <1>4, ShowMaps, RecordMaps, MarkMaps, ForgottenMaps DEF NoteNext

-----------------------------------------------------------------------------
(* Dismissals *)

Recording == \A k \in Key : showing[k] = "record" => Noticed(rendered[k])

Cared(k) ==
    \/ showing[k] \in {"call", "record"} \/ arriving[k] # {} \/ k \in kept
    \/ byKey[k] # NoId /\ Noticed(byKey[k])

Reported == \A i \in shown \cap BridgeIds : InClosings(i) => Retaken(i)

LEMMA DismissalIs ==
  Dismissal <=> /\ Recording /\ Reported /\ onPhone \subseteq Key
                /\ \A k \in onPhone : Cared(k)
BY DEF Dismissal, Recording, Cared, Reported

LEMMA DismissalLater ==
  ASSUME Recording', Reported', onPhone' \subseteq Key, \A k \in onPhone' : Cared(k)'
  PROVE  Dismissal'
BY DEF Dismissal, Recording, Cared, Reported

LEMMA ReportedStays ==
  ASSUME Ids, IdsPast, Dismissal,
         \A i : InClosings(i)' => InClosings(i),
         \A i \in shown' \cap BridgeIds : i \in shown \/ Retaken(i)',
         \A i : InClosings(i)' /\ Retaken(i) => Retaken(i)'
  PROVE  Reported'
<1> SUFFICES ASSUME NEW i \in shown' \cap BridgeIds', InClosings(i)'
             PROVE  Retaken(i)'
  BY DEF Reported
<1>1. i \in BridgeIds
  BY DEF Ids, IdsPast, InClosings
<1> QED
  BY <1>1 DEF Dismissal

(* Only the bridge takes a signal, and only a closing takes an id off the  *)
(* screen.                                                                 *)
LEMMA NoticedStays ==
  ASSUME NoteTypes, shown \subseteq shown', UNCHANGED <<early, closings>>, NEW i, Noticed(i)
  PROVE  Noticed(i)'
BY DEF Noticed, InClosings

LEMMA DismissalStays ==
  ASSUME NoteTypes, Ids, IdsPast, Dismissal, shown \subseteq shown', NoneBack,
         UNCHANGED <<showNotes, byKey, closings, arriving, kept, early, reused>>,
         onPhone' \subseteq onPhone
  PROVE  Dismissal'
<1>1. Recording /\ onPhone \subseteq Key /\ \A k \in onPhone : Cared(k)
  BY DismissalIs
<1>2. Recording'
  BY <1>1, NoticedStays DEF Recording, showNotes
<1>3. \A k \in onPhone' : Cared(k)'
  BY <1>1, NoticedStays DEF Cared, showNotes
<1>4. \A i : (InClosings(i)' <=> InClosings(i)) /\ (Retaken(i)' <=> Retaken(i))
  BY DEF InClosings, Retaken, BeingRecorded, showNotes
<1>5. Reported'
  BY <1>4, ReportedStays DEF NoneBack
<1> QED
  BY <1>1, <1>2, <1>3, <1>5, DismissalLater

LEMMA ClosedDismissal ==
  ASSUME NoteTypes, Dismissal, NEW i \in Id, Closed(i)
  PROVE  Dismissal'
<1>1. /\ shown' = shown \ {i} /\ closings' = Append(closings, i)
      /\ UNCHANGED <<showing, rendered, originIDs, byKey, onPhone, arriving, kept, early,
                     reused>>
  BY DEF Closed, showNotes
<1>2. /\ closings \in Seq(Nat) /\ i \in Nat
  BY DEF NoteTypes, Id
<1>3. /\ \A m \in 1..Len(closings) : m \in 1..Len(closings') /\ closings'[m] = closings[m]
      /\ \A m \in 1..Len(closings') :
             closings'[m] = i \/ (m \in 1..Len(closings) /\ closings'[m] = closings[m])
      /\ Len(closings) + 1 \in 1..Len(closings') /\ closings'[Len(closings) + 1] = i
  BY <1>1, <1>2
<1>4. \A j : Noticed(j) => Noticed(j)'
  BY <1>1, <1>3 DEF Noticed, InClosings
<1>5. Recording /\ Reported /\ onPhone \subseteq Key /\ \A k \in onPhone : Cared(k)
  BY DismissalIs
<1>6. Recording'
  BY <1>1, <1>4, <1>5 DEF Recording
<1>8. Reported'
  <2>1. \A j : Retaken(j) => Retaken(j)'
    BY <1>1 DEF Retaken, BeingRecorded
  <2>2. \A j \in shown' : j \in shown /\ j # i
    BY <1>1
  <2>3. \A j : InClosings(j)' => j = i \/ InClosings(j)
    BY <1>3 DEF InClosings
  <2>4. BridgeIds' = BridgeIds
    BY <1>1 DEF BridgeIds
  <2> QED
    BY <1>5, <2>1, <2>2, <2>3, <2>4 DEF Reported
<1>7. \A k \in onPhone' : Cared(k)'
  BY <1>1, <1>4, <1>5 DEF Cared
<1> QED
  BY <1>1, <1>5, <1>6, <1>7, <1>8, DismissalLater

LEMMA PostsDismissal ==
  ASSUME NoteTypes, Ids, IdsPast, Dismissal, NEW k \in Key, PhonePosts(k)
  PROVE  Dismissal'
<1>1. /\ onPhone' = onPhone \cup {k}
      /\ UNCHANGED <<shown, showing, rendered, byKey, closings, early, reused>>
      /\ kept \subseteq kept'
      /\ \A l \in Key : arriving[l] \subseteq arriving'[l]
      /\ arriving'[k] # {} \/ k \in kept'
  <2>1. /\ onPhone' = onPhone \cup {k}
        /\ UNCHANGED <<shown, showing, rendered, byKey, closings, early, reused>>
    BY DEF PhonePosts, showNotes
  <2>2. \/ /\ arriving' = [arriving EXCEPT ![k] = @ \cup {calls'}]
           /\ UNCHANGED kept
        \/ kept' = kept \cup {k} /\ UNCHANGED arriving
    BY DEF PhonePosts
  <2>3. DOMAIN arriving = Key
    BY DEF NoteTypes
  <2>4. CASE arriving' = [arriving EXCEPT ![k] = @ \cup {calls'}] /\ UNCHANGED kept
    <3>1. \A l \in Key : arriving[l] \subseteq arriving'[l]
      BY <2>3, <2>4
    <3>2. calls' \in arriving'[k]
      BY <2>3, <2>4
    <3> QED
      BY <2>1, <2>4, <3>1, <3>2
  <2> QED
    BY <2>1, <2>2, <2>4
<1>2. Recording /\ onPhone \subseteq Key /\ \A l \in onPhone : Cared(l)
  BY DismissalIs
<1>3. \A i : Noticed(i) => Noticed(i)'
  BY <1>1 DEF Noticed, InClosings
<1>4. Recording'
  BY <1>1, <1>2, <1>3 DEF Recording
<1>5. \A l \in onPhone' : Cared(l)'
  BY <1>1, <1>2, <1>3 DEF Cared
<1>6. \A i : (InClosings(i)' <=> InClosings(i)) /\ (Retaken(i)' <=> Retaken(i))
  BY <1>1 DEF InClosings, Retaken, BeingRecorded
<1>7. Reported'
  BY <1>1, <1>6, ReportedStays
<1> QED
  BY <1>1, <1>2, <1>4, <1>5, <1>7, DismissalLater

LEMMA ShowDismissal ==
  ASSUME NoteTypes, Ids, IdsPast, Dismissal, NEW k \in Key,
         ShowBegins(k) \/ ShowCalls(k) \/ ShowFails(k) \/ ShowRecords(k) \/ ShowMarks(k)
  PROVE  Dismissal'
<1>1. Recording /\ onPhone \subseteq Key /\ \A l \in onPhone : Cared(l)
  BY DismissalIs
<1>2. UNCHANGED <<onPhone, early, closings>>
  BY DEF ShowBegins, ShowCalls, ShowFails, ShowRecords, ShowMarks, bridgeNotes
<1>3. \A i : InClosings(i)' <=> InClosings(i)
  BY <1>2 DEF InClosings
<1>4. ASSUME Reported', shown \subseteq shown',
             showing'[k] \in {"call", "record"}
                 \/ k \in kept' \/ (byKey'[k] # NoId /\ Noticed(byKey'[k])),
             showing'[k] = "record" => Noticed(rendered'[k]) \/ rendered'[k] \in shown',
             \A l \in Key \ {k} :
                 /\ showing'[l] = showing[l] /\ rendered'[l] = rendered[l]
                 /\ byKey'[l] = byKey[l] /\ arriving'[l] = arriving[l]
                 /\ l \in kept => l \in kept'
      PROVE  Dismissal'
  <2>1. \A i : Noticed(i) => Noticed(i)'
    BY <1>2, <1>4 DEF Noticed, InClosings
  <2>2. ASSUME NEW l \in Key, showing'[l] = "record" PROVE Noticed(rendered[l])'
    <3>1. CASE l = k
      <4>1. CASE Noticed(rendered'[k])
        BY <1>2, <1>4, <3>1, <4>1 DEF Noticed, InClosings
      <4>2. CASE rendered'[k] \in shown'
        BY <3>1, <4>2 DEF Noticed
      <4> QED
        BY <1>4, <2>2, <3>1, <4>1, <4>2
    <3>2. CASE l # k
      <4>1. Noticed(rendered[l]) /\ rendered'[l] = rendered[l]
        BY <1>1, <1>4, <2>2, <3>2 DEF Recording
      <4> QED
        BY <1>2, <1>4, <4>1 DEF Noticed, InClosings
    <3> QED
      BY <3>1, <3>2
  <2>3. ASSUME NEW l \in onPhone PROVE Cared(l)'
    <3>1. CASE l = k
      BY <1>2, <1>4, <3>1 DEF Cared, Noticed, InClosings
    <3>2. CASE l # k
      BY <1>1, <1>2, <1>4, <3>2 DEF Cared, Noticed, InClosings
    <3> QED
      BY <3>1, <3>2
  <2> QED
    BY <1>1, <1>2, <1>4, <2>2, <2>3, DismissalLater DEF Recording
<1>5. CASE ShowBegins(k)
  <2>1. /\ UNCHANGED <<shown, rendered, byKey, reused>> /\ kept' = kept \ {k}
        /\ showing[k] = "idle"
        /\ showing' = [showing EXCEPT ![k] = "call"]
        /\ \E c \in arriving[k] : arriving' = [arriving EXCEPT ![k] = @ \ {c}]
    BY <1>5 DEF ShowBegins, hostNotes
  <2>2. /\ showing'[k] = "call"
        /\ \A l \in Key \ {k} : showing'[l] = showing[l] /\ arriving'[l] = arriving[l]
    BY <2>1 DEF NoteTypes
  <2>3. \A i : Retaken(i) => Retaken(i)'
    BY <2>1, <2>2 DEF Retaken, BeingRecorded
  <2>4. Reported'
    BY <1>3, <2>1, <2>3, ReportedStays
  <2> QED
    BY <1>4, <2>1, <2>2, <2>4
<1>6. CASE ShowCalls(k)
  <2>1. PICK id \in Nat : ShowsAs(k, id)
    BY <1>6, ShowSends
  <2>2. /\ UNCHANGED <<arriving, byKey, kept, reused>> /\ showing[k] = "call"
        /\ showing' = [showing EXCEPT ![k] = "record"]
        /\ rendered' = [rendered EXCEPT ![k] = id] /\ shown' = shown \cup {id}
    BY <1>6, <2>1 DEF ShowCalls, bridgeNotes, ShowsAs
  <2>3. /\ showing'[k] = "record" /\ rendered'[k] = id
        /\ \A l \in Key \ {k} : showing'[l] = showing[l] /\ rendered'[l] = rendered[l]
    BY <2>2 DEF NoteTypes
  <2>4. /\ \A i : Retaken(i) => Retaken(i)'
        /\ Retaken(id)'
    BY <2>2, <2>3 DEF Retaken, BeingRecorded
  <2>5. Reported'
    BY <1>3, <2>2, <2>4, ReportedStays
  <2> QED
    BY <1>4, <2>2, <2>3, <2>5
<1>7. CASE ShowFails(k)
  <2>1. /\ UNCHANGED <<shown, rendered, byKey, arriving, reused>> /\ kept' = kept \cup {k}
        /\ showing[k] = "call"
        /\ showing' = [showing EXCEPT ![k] = "idle"]
    BY <1>7 DEF ShowFails, hostNotes
  <2>2. showing'[k] = "idle" /\ \A l \in Key \ {k} : showing'[l] = showing[l]
    BY <2>1 DEF NoteTypes
  <2>3. \A i : Retaken(i) => Retaken(i)'
    BY <2>1, <2>2 DEF Retaken, BeingRecorded
  <2>4. Reported'
    BY <1>3, <2>1, <2>3, ReportedStays
  <2> QED
    BY <1>4, <2>1, <2>2, <2>4
<1>8. CASE ShowRecords(k)
  <2>1. /\ UNCHANGED <<shown, rendered, arriving, kept>> /\ showing[k] = "record"
        /\ showing' = [showing EXCEPT ![k] = "mark"]
        /\ byKey' = [byKey EXCEPT ![k] = rendered[k]]
        /\ reused' = IF InClosings(rendered[k]) THEN reused \cup {rendered[k]}
                     ELSE reused \ {rendered[k]}
    BY <1>8 DEF ShowRecords, hostNotes
  <2>2. /\ showing'[k] = "mark" /\ byKey'[k] = rendered[k]
        /\ \A l \in Key \ {k} : showing'[l] = showing[l] /\ byKey'[l] = byKey[l]
    BY <2>1 DEF NoteTypes
  <2>3. rendered[k] # NoId /\ Noticed(rendered[k])
    BY <1>1, <2>1 DEF Ids, Recording
  <2>4. ASSUME NEW i, InClosings(i)', Retaken(i) PROVE Retaken(i)'
    <3>1. CASE i = rendered[k]
      BY <1>3, <2>1, <2>4, <3>1 DEF Retaken
    <3>2. CASE i # rendered[k]
      <4>1. i \in reused => i \in reused'
        BY <2>1, <3>2
      <4>2. \A l \in Key :
                showing[l] = "record" /\ rendered[l] = i =>
                    showing'[l] = "record" /\ rendered'[l] = i
        BY <2>1, <2>2, <3>2
      <4> QED
        BY <2>4, <4>1, <4>2 DEF Retaken, BeingRecorded
    <3> QED
      BY <3>1, <3>2
  <2>5. Reported'
    BY <1>3, <2>1, <2>4, ReportedStays
  <2> QED
    BY <1>4, <2>1, <2>2, <2>3, <2>5
<1>9. CASE ShowMarks(k)
  <2>1. /\ UNCHANGED <<shown, byKey, arriving, kept, reused>> /\ showing[k] = "mark"
        /\ showing' = [showing EXCEPT ![k] = "idle"]
        /\ rendered' = [rendered EXCEPT ![k] = NoId]
    BY <1>9 DEF ShowMarks, hostNotes
  <2>2. /\ showing'[k] = "idle"
        /\ \A l \in Key \ {k} : showing'[l] = showing[l] /\ rendered'[l] = rendered[l]
    BY <2>1 DEF NoteTypes
  <2>3. \A i : Noticed(i) => Noticed(i)'
    BY <1>2, <2>1 DEF Noticed, InClosings
  <2>4. Recording'
    BY <1>1, <2>1, <2>2, <2>3 DEF Recording
  <2>5. \A l \in onPhone : Cared(l)'
    BY <1>1, <1>2, <2>1, <2>2, <2>3 DEF Cared
  <2>6. \A i : Retaken(i) => Retaken(i)'
    BY <2>1, <2>2 DEF Retaken, BeingRecorded
  <2>7. Reported'
    BY <1>3, <2>1, <2>6, ReportedStays
  <2> QED
    BY <1>1, <1>2, <2>4, <2>5, <2>7, DismissalLater
<1> QED
  BY <1>5, <1>6, <1>7, <1>8, <1>9

LEMMA SignalDismissal ==
  ASSUME NoteTypes, Numbering, Ids, IdsPast, Maps, Dismissal, BridgeSeesClosing
  PROVE  Dismissal'
<1> DEFINE id == Head(closings)
<1>1. /\ closings # <<>> /\ closings' = Tail(closings)
      /\ byKey' = [j \in Key |-> IF j = byLinux[id] THEN NoId ELSE byKey[j]]
      /\ early' = IF \E j \in Key : showing[j] = "record" /\ rendered[j] = id
                  THEN early \cup {id} ELSE early
      /\ UNCHANGED <<shown, showing, rendered, arriving, reused>>
  BY DEF BridgeSeesClosing, Forgotten, hostNotes, showNotes
<1>2. /\ id \in Id
      /\ \A i : InClosings(i) => i = id \/ InClosings(i)'
  BY <1>1, HeadIsClosed DEF InClosings
<1>3. /\ onPhone' \subseteq onPhone /\ kept \subseteq kept'
      /\ byLinux[id] \in onPhone' => byLinux[id] \in kept'
  BY DEF BridgeSeesClosing, Dismiss
<1>4. Reported'
  <2>1. \A m \in 1..Len(closings') :
            m + 1 \in 1..Len(closings) /\ closings'[m] = closings[m + 1]
    BY <1>1 DEF NoteTypes
  <2>2. \A i : InClosings(i)' => InClosings(i)
    BY <2>1 DEF InClosings
  <2>3. \A i : Retaken(i) => Retaken(i)'
    BY <1>1 DEF Retaken, BeingRecorded
  <2> QED
    BY <1>1, <2>2, <2>3, ReportedStays
<1> HIDE DEF id
<1>5. Recording /\ onPhone \subseteq Key /\ \A k \in onPhone : Cared(k)
  BY DismissalIs
<1>6. \A i : Noticed(i) => i = id \/ Noticed(i)'
  BY <1>1, <1>2 DEF Noticed
<1>7. Recording'
  <2> SUFFICES ASSUME NEW k \in Key, showing[k] = "record" PROVE Noticed(rendered[k])'
    BY <1>1 DEF Recording
  <2>1. CASE rendered[k] = id
    BY <1>1, <2>1 DEF Noticed
  <2>2. CASE rendered[k] # id
    BY <1>1, <1>5, <1>6, <2>2 DEF Recording, Noticed, InClosings
  <2> QED
    BY <2>1, <2>2
<1>8. ASSUME NEW k \in onPhone' PROVE Cared(k)'
  <2>1. k \in Key /\ Cared(k)
    BY <1>3, <1>5
  <2>2. CASE k = byLinux[id]
    BY <1>3, <1>8, <2>2 DEF Cared
  <2>3. CASE k # byLinux[id]
    <3>1. byKey[k] # id /\ byKey'[k] = byKey[k]
      BY <1>1, <1>2, <2>1, <2>3 DEF Maps
    <3> QED
      BY <1>1, <1>3, <1>6, <2>1, <3>1 DEF Cared, Noticed, InClosings
  <2> QED
    BY <2>2, <2>3
<1> QED
  BY <1>3, <1>4, <1>5, <1>7, <1>8, DismissalLater

LEMMA DismissalNext ==
  ASSUME NoteTypes, Numbering, Ids, IdsPast, Maps, Dismissal, NoteNext
  PROVE  Dismissal'
<1>1. ASSUME UNCHANGED <<showNotes, bridgeNotes>>, shown \subseteq shown', NoneBack
      PROVE  Dismissal'
  BY <1>1, DismissalStays DEF bridgeNotes
<1>2. CASE AppNotifies
  BY <1>1, <1>2, HostNoneBack DEF AppNotifies
<1>3. ASSUME NEW c \in 1..MaxCalls, ServerAnswers(c) PROVE Dismissal'
  <2>1. shown \subseteq shown'
    BY <1>3 DEF ServerAnswers
  <2> QED
    BY <1>1, <1>3, <2>1, HostNoneBack DEF ServerAnswers
<1>4. ASSUME NEW i \in Id, ReplyBegins(i) PROVE Dismissal'
  BY <1>4, DismissalStays, HostNoneBack DEF ReplyBegins, hostNotes
<1>5. CASE \/ HoldCall \/ DropCall \/ MatchReply \/ ForwardClosing
           \/ SyncNotification \/ ClearNotification \/ PhoneNotReached
           \/ \E i \in Id : PhoneSweeps(i)
  <2>1. UNCHANGED <<hostNotes, showNotes, bridgeNotes>>
    BY <1>5 DEF HoldCall, DropCall, MatchReply, ForwardClosing, SyncNotification,
                ClearNotification, PhoneNotReached, PhoneSweeps, WatcherGoesOn
  <2> QED
    BY <1>1, <2>1, HostNoneBack DEF hostNotes
<1>6. ASSUME NEW k \in Key, PhoneRemoves(k) \/ ReplyEnds(k) PROVE Dismissal'
  BY <1>6, DismissalStays, HostNoneBack DEF PhoneRemoves, ReplyEnds, hostNotes
<1> QED
  BY <1>2, <1>3, <1>4, <1>5, <1>6, ClosedDismissal, PostsDismissal, ShowDismissal,
     SignalDismissal DEF NoteNext

-----------------------------------------------------------------------------
(* The theorems *)

LEMMA NoteTypesNext ==
  ASSUME NoteTypes, Ids, NoteNext
  PROVE  NoteTypes'
BY HostTypes, WatcherTypes, BridgeTypes, SignalTypes DEF NoteNext

LEMMA NoteInvStutters ==
  ASSUME NoteInv, UNCHANGED noteVars
  PROVE  NoteInv'
<1>1. /\ UNCHANGED <<calls, nextId, waiting, shown>>
      /\ UNCHANGED <<monitored, pending, pushing, phoneHas, missing>>
      /\ UNCHANGED <<showing, number, replaces, rendered>>
      /\ UNCHANGED <<byLinux, byKey, originIDs, closings, replying, onPhone, arriving,
                     kept, early, reused>>
  BY DEF noteVars, hostNotes, watcherNotes, showNotes, bridgeNotes
<1>2. /\ BridgeIds' = BridgeIds /\ \A k \in Key : Coming(k)' = Coming(k)
      /\ \A kind, i : OnTheWay(kind, i)' <=> OnTheWay(kind, i)
      /\ \A a, b, i : Follows(a, b, i)' <=> Follows(a, b, i)
      /\ \A i : /\ Noticed(i)' <=> Noticed(i)
                /\ InClosings(i)' <=> InClosings(i)
                /\ Retaken(i)' <=> Retaken(i)
  BY <1>1 DEF BridgeIds, Coming, OnTheWay, Follows, Noticed, InClosings, Retaken,
              BeingRecorded
<1>3. Unanswered' = Unanswered
  BY <1>1, <1>2 DEF Unanswered
<1>4. NoteTypes' /\ Numbering'
  BY <1>1, <1>2, <1>3 DEF NoteInv, NoteTypes, Numbering
<1>5. Messages'
  BY <1>1, <1>2, <1>3 DEF NoteInv, Messages, At
<1>6. Ids'
  BY <1>1, <1>2 DEF NoteInv, Ids
<1>7. EchoFree'
  BY <1>1, <1>2 DEF NoteInv, EchoFree, NoEcho, At
<1>8. InOrder'
  BY <1>1, <1>2 DEF NoteInv, InOrder, At
<1>9. Ending'
  BY <1>1, <1>2 DEF NoteInv, Ending, Ends, Begins
<1>10. Maps'
  BY <1>1, <1>2 DEF NoteInv, Maps
<1>11. Dismissal'
  BY <1>1, <1>2 DEF NoteInv, Dismissal
<1> QED
  BY <1>4, <1>5, <1>6, <1>7, <1>8, <1>9, <1>10, <1>11 DEF NoteInv

LEMMA NoteInvNext ==
  ASSUME NoteInv, NoteNext
  PROVE  NoteInv'
<1>1. /\ NoteTypes /\ Numbering /\ Messages /\ Ids
      /\ EchoFree /\ InOrder /\ Ending /\ Maps /\ Dismissal
  BY DEF NoteInv
<1>2. NoteTypes'
  BY <1>1, NoteTypesNext
<1>3. Numbering' /\ CallsPast
  BY <1>1, NumberingNext
<1>4. Ids' /\ IdsPast
  BY <1>1, IdsNext
<1>5. Messages'
  BY <1>1, <1>2, <1>3, <1>4, MessagesNext
<1>6. EchoFree'
  BY <1>1, <1>3, <1>4, EchoFreeNext
<1>7. InOrder'
  BY <1>1, <1>2, <1>3, <1>4, InOrderNext
<1>8. Ending'
  BY <1>1, <1>4, EndingNext
<1>9. Maps'
  BY <1>1, <1>4, MapsNext
<1>10. Dismissal'
  BY <1>1, <1>4, DismissalNext
<1> QED
  BY <1>2, <1>3, <1>4, <1>5, <1>6, <1>7, <1>8, <1>9, <1>10 DEF NoteInv

LEMMA NoteInvAlways == NoteSpec => []NoteInv
<1>1. NoteInv /\ [NoteNext]_noteVars => NoteInv'
  BY NoteInvNext, NoteInvStutters
<1> QED
  BY NoteInvInit, <1>1, PTL DEF NoteSpec

(* What the bridge shows on the host is not pushed to the phone it came    *)
(* from: the monitor's run matches a reply to its call by sender and       *)
(* serial, and the calls of the bridge carry the hint x-quava-android.     *)
THEOREM NothingComesBack == NoteSpec => []NoEcho
<1>1. NoteInv => NoEcho
  BY DEF NoteInv, EchoFree
<1> QED
  BY <1>1, NoteInvAlways, PTL

(* The phone mirrors the host but for what is under way or was lost: run   *)
(* pushes each call it held when its reply comes, and clears each closed   *)
(* id that is not in androidOriginIDs.                                     *)
THEOREM PhoneMirrors == NoteSpec => []PhoneMirrorsHost
<1>1. NoteInv => PhoneMirrorsHost
  BY EndingMirrors DEF NoteInv
<1> QED
  BY <1>1, NoteInvAlways, PTL

(* byLinux and byKey of AndroidNotificationBridge agree on what is on the  *)
(* screen, with Show and watch taking the lock in any order, but for an id *)
(* that Show has got again: it is still to be recorded, or was while the   *)
(* signal that it had been closed was on its way to watch.                 *)
THEOREM MapsAgree == NoteSpec => []BridgeMapsAgree
<1>1. NoteInv => BridgeMapsAgree
  <2> SUFFICES ASSUME NoteInv, NEW i \in shown
               PROVE  /\ i \in originIDs => byLinux[i] # NoKey \/ Retaken(i)
                      /\ byLinux[i] # NoKey => byKey[byLinux[i]] = i
    BY DEF BridgeMapsAgree, Retaken, BeingRecorded
  <2>1. NoteTypes /\ Numbering /\ Ids /\ Maps
    BY DEF NoteInv
  <2>2. i \in Id
    BY <2>1, AssignedIsId DEF Ids
  <2>3. byLinux[i] \in Key \cup {NoKey}
    BY <2>1, <2>2 DEF NoteTypes
  <2> QED
    BY <2>1, <2>2, <2>3 DEF Maps
<1> QED
  BY <1>1, NoteInvAlways, PTL

(* What the user closes on the host is dismissed on the phone: the signal  *)
(* that watch reads finds its key, whether Show has recorded the id or is  *)
(* about to.                                                               *)
THEOREM DismissalsArrive == NoteSpec => []DismissalArrives
<1>1. NoteInv => DismissalArrives
  BY DEF NoteInv, Dismissal, DismissalArrives, Noticed, InClosings
<1> QED
  BY <1>1, NoteInvAlways, PTL

=============================================================================
