------------------------- MODULE PhoneServerProofs -------------------------
(***************************************************************************)
(* Proofs about PhoneServer, for any number of connections, pairings and   *)
(* inputs: what the socket that is active, the calls of forgetHost and the *)
(* handlers say about one another, and the order of remote input.          *)
(***************************************************************************)
EXTENDS PhoneServer, TLAPS

HandlerPlace ==
    {"none", "reading", "authenticating", "begun", "waiting", "reporting", "serving",
     "unpairing", "cleaning", "clearing", "releasing", "closing", "done"}
ForgetPlace == {"idle", "begun", "forgotten", "closing"}
JobPlace == {"none", "launched", "watching", "stopping", "over"}
MaybeConn == Conn \cup {NoConn}
Input == Nat \ {0}
Entry == [session : Conn, input : Input]

ConnsOK ==
    /\ handler \in [Conn -> HandlerPlace]
    /\ open \subseteq Conn /\ broken \subseteq Conn
    /\ activeSocket \in MaybeConn /\ activeSession \in MaybeConn

TrustsOK ==
    /\ trusts \in Nat \ {0} /\ trust \in 0..trusts /\ dropped \subseteq 1..trusts
    /\ credential \in [Conn -> Nat]
    /\ forgetting \in [Forgetter -> ForgetPlace]
    /\ taken \in [Forgetter -> MaybeConn]

ReportsOK ==
    /\ statusJob \in MaybeConn /\ collector \in MaybeConn /\ callWatcher \in MaybeConn
    /\ job \in [Conn -> JobPlace]

InputsOK ==
    /\ queue \in Seq(Entry)
    /\ typed \in [Conn -> Seq(Input)] /\ received \in [Conn -> Seq(Input)]

ServerTypeOK == ConnsOK /\ TrustsOK /\ ReportsOK /\ InputsOK

LEMMA Numbers ==
  /\ MaxConns \in Nat
  /\ NoConn \notin Conn /\ User \notin Conn /\ User # NoConn
  /\ Conn \subseteq Forgetter /\ User \in Forgetter
BY PhoneServerAssumption DEF Conn, NoConn, User, Forgetter

LEMMA ConnsTyped ==
  ASSUME ServerTypeOK, [ServerNext]_serverVars
  PROVE  ConnsOK'
<1> USE DEF HandlerPlace, MaybeConn
<1>1. /\ handler \in [Conn -> HandlerPlace]
      /\ open \subseteq Conn /\ broken \subseteq Conn
      /\ activeSocket \in MaybeConn /\ activeSession \in MaybeConn
  BY DEF ServerTypeOK, ConnsOK
<1>2. CASE UNCHANGED connVars
  BY <1>1, <1>2 DEF connVars, ConnsOK
<1>3. ASSUME NEW c \in Conn,
             \/ Accept(c) \/ Breaks(c) \/ LoadPeer(c) \/ Pairs(c)
             \/ Authenticates(c) \/ StartsReports(c) \/ HostUnpairs(c)
      PROVE  ConnsOK'
  BY <1>1, <1>3 DEF ConnsOK, Accept, Breaks, LoadPeer, Pairs, Authenticates, StartsReports,
     HostUnpairs, Goes
<1>4. ASSUME NEW c \in Conn, HandlerStep(c)
      PROVE  ConnsOK'
  BY <1>1, <1>4 DEF ConnsOK, HandlerStep, Fails, StartsSession, StartsCallWatcher,
     LeavesSession, ReturnsFromUnpair, StopsJobs, ClearsSession, Releases, ClosesSocket, Goes
<1>5. ASSUME NEW f \in Forgetter, ForgetStep(f)
      PROVE  ConnsOK'
  BY <1>1, <1>5 DEF ConnsOK, ForgetStep, ForgetsPeers, TakesSocket, ClosesTaken, connVars
<1>6. CASE \/ \E c \in Conn : JobOwnStep(c)
           \/ UserUnpairs \/ UserTypes \/ Dispatches \/ UNCHANGED serverVars
  BY <1>2, <1>6 DEF JobOwnStep, JobStarts, JobLeaves, JobEnds, JobStep, UserUnpairs,
     UserTypes, Dispatches, serverVars
<1> QED
  BY <1>3, <1>4, <1>5, <1>6 DEF ServerNext

LEMMA TrustsTyped ==
  ASSUME ServerTypeOK, [ServerNext]_serverVars
  PROVE  TrustsOK'
<1> USE DEF ForgetPlace, MaybeConn, NoTrust
<1>1. TrustsOK /\ activeSocket \in MaybeConn
  BY DEF ServerTypeOK, ConnsOK
<1>2. CASE UNCHANGED trustVars
  BY <1>1, <1>2 DEF trustVars, TrustsOK
<1>3. ASSUME NEW c \in Conn, LoadPeer(c) \/ Pairs(c) \/ HostUnpairs(c) \/ ClosesSocket(c)
      PROVE  TrustsOK'
  <2>1. CASE LoadPeer(c) \/ ClosesSocket(c)
    <3>1. /\ UNCHANGED <<trust, trusts, dropped, forgetting, taken>>
          /\ \E t \in {trust, NoTrust} : credential' = [credential EXCEPT ![c] = t]
      BY <2>1 DEF LoadPeer, ClosesSocket
    <3>2. trust \in Nat /\ NoTrust \in Nat
      BY <1>1 DEF TrustsOK
    <3>3. credential' \in [Conn -> Nat]
      BY <1>1, <3>1, <3>2 DEF TrustsOK
    <3> QED
      BY <1>1, <3>1, <3>3 DEF TrustsOK
  <2>2. CASE Pairs(c)
    <3>1. /\ trusts' = trusts + 1 /\ trust' = trusts + 1
          /\ UNCHANGED <<dropped, credential, forgetting, taken>>
      BY <2>2 DEF Pairs
    <3> QED
      BY <1>1, <3>1 DEF TrustsOK
  <2>3. CASE HostUnpairs(c)
    BY <1>1, <2>3 DEF TrustsOK, HostUnpairs
  <2> QED
    BY <1>3, <2>1, <2>2, <2>3
<1>4. ASSUME NEW f \in Forgetter, ForgetStep(f)
      PROVE  TrustsOK'
  <2>1. CASE ForgetsPeers(f)
    BY <1>1, <2>1 DEF TrustsOK, ForgetsPeers
  <2>2. CASE TakesSocket(f)
    BY <1>1, <2>2 DEF TrustsOK, TakesSocket
  <2>3. CASE ClosesTaken(f)
    BY <1>1, <2>3 DEF TrustsOK, ClosesTaken
  <2> QED
    BY <1>4, <2>1, <2>2, <2>3 DEF ForgetStep
<1>5. CASE UserUnpairs
  BY <1>1, <1>5 DEF TrustsOK, UserUnpairs
<1>6. CASE \/ \E c \in Conn :
                 \/ Accept(c) \/ Breaks(c) \/ Authenticates(c) \/ StartsReports(c)
                 \/ HandlerStep(c) /\ ~ClosesSocket(c)
                 \/ JobOwnStep(c)
           \/ UserTypes \/ Dispatches \/ UNCHANGED serverVars
  BY <1>2, <1>6 DEF Accept, Breaks, Authenticates, StartsReports, HandlerStep, Fails,
     StartsSession, StartsCallWatcher, LeavesSession, ReturnsFromUnpair, StopsJobs,
     ClearsSession, Releases, JobOwnStep, JobStarts, JobLeaves, JobEnds, JobStep,
     UserTypes, Dispatches, serverVars
<1> QED
  BY <1>3, <1>4, <1>5, <1>6 DEF ServerNext, HandlerStep

LEMMA ReportsTyped ==
  ASSUME ServerTypeOK, [ServerNext]_serverVars
  PROVE  ReportsOK'
<1> USE DEF JobPlace, MaybeConn
<1>1. ReportsOK
  BY DEF ServerTypeOK
<1>2. CASE UNCHANGED reportVars
  BY <1>1, <1>2 DEF reportVars, ReportsOK
<1>3. ASSUME NEW c \in Conn,
             \/ StartsReports(c) \/ StartsCallWatcher(c) \/ StopsJobs(c) \/ JobOwnStep(c)
      PROVE  ReportsOK'
  BY <1>1, <1>3 DEF ReportsOK, StartsReports, StartsCallWatcher, StopsJobs, Cancel,
     JobOwnStep, JobStarts, JobLeaves, JobEnds, JobStep
<1>4. CASE \/ \E c \in Conn :
                 \/ Accept(c) \/ Breaks(c) \/ LoadPeer(c) \/ Pairs(c)
                 \/ Authenticates(c) \/ HostUnpairs(c)
                 \/ HandlerStep(c) /\ ~StartsCallWatcher(c) /\ ~StopsJobs(c)
           \/ UserUnpairs \/ \E f \in Forgetter : ForgetStep(f)
           \/ UserTypes \/ Dispatches \/ UNCHANGED serverVars
  BY <1>2, <1>4 DEF Accept, Breaks, LoadPeer, Pairs, Authenticates, HostUnpairs,
     HandlerStep, Fails, StartsSession, LeavesSession, ReturnsFromUnpair, ClearsSession,
     Releases, ClosesSocket, UserUnpairs, ForgetStep, ForgetsPeers, TakesSocket,
     ClosesTaken, UserTypes, Dispatches, serverVars
<1> QED
  BY <1>3, <1>4 DEF ServerNext, HandlerStep

(* The steps that neither type nor dispatch an input.                      *)
LEMMA InputsRest ==
  ASSUME [ServerNext]_serverVars
  PROVE  UserTypes \/ Dispatches \/ UNCHANGED inputVars
BY DEF ServerNext, Accept, Breaks, LoadPeer, Pairs, Authenticates, StartsReports,
   HostUnpairs, HandlerStep, Fails, StartsSession, StartsCallWatcher, LeavesSession,
   ReturnsFromUnpair, StopsJobs, ClearsSession, Releases, ClosesSocket, UserUnpairs,
   ForgetStep, ForgetsPeers, TakesSocket, ClosesTaken, JobOwnStep, JobStarts, JobLeaves,
   JobEnds, JobStep, serverVars

(* What the head and the tail of a sequence are.                           *)
LEMMA HeadTail ==
  ASSUME NEW S, NEW s \in Seq(S), s # <<>>
  PROVE  /\ Len(s) \in Nat \ {0} /\ DOMAIN s = 1..Len(s)
         /\ Head(s) = s[1] /\ Head(s) \in S
         /\ Tail(s) \in Seq(S) /\ Len(Tail(s)) = Len(s) - 1
         /\ \A i \in 1..(Len(s) - 1) : Tail(s)[i] = s[i + 1]
OBVIOUS

LEMMA Appended ==
  ASSUME NEW S, NEW s \in Seq(S), NEW x \in S
  PROVE  /\ Len(s) \in Nat /\ Len(Append(s, x)) = Len(s) + 1
         /\ Append(s, x)[Len(s) + 1] = x
         /\ \A i \in 1..Len(s) : Append(s, x)[i] = s[i]
OBVIOUS

LEMMA Elements ==
  ASSUME NEW S, NEW s \in Seq(S)
  PROVE  \A i \in 1..Len(s) : s[i] \in S
OBVIOUS

LEMMA Entries ==
  ASSUME queue \in Seq(Entry)
  PROVE  \A i \in 1..Len(queue) :
            /\ queue[i].session \in Conn
            /\ queue[i].input \in Nat /\ queue[i].input > 0
<1>1. \A i \in 1..Len(queue) : queue[i] \in Entry
  BY Elements
<1> QED
  BY <1>1 DEF Entry, Input

LEMMA InputsTyped ==
  ASSUME ServerTypeOK, [ServerNext]_serverVars
  PROVE  InputsOK'
<1>1. InputsOK /\ activeSession \in MaybeConn
  BY DEF ServerTypeOK, ConnsOK
<1>2. CASE UserTypes
  <2>1. activeSession \in Conn
    BY <1>1, <1>2 DEF UserTypes, MaybeConn
  <2>2. Len(typed[activeSession]) + 1 \in Input
    BY <1>1, <2>1 DEF InputsOK, Input
  <2>3. [session |-> activeSession, input |-> Len(typed[activeSession]) + 1]
           \in Entry
    BY <2>1, <2>2 DEF Entry
  <2>4. Append(typed[activeSession], Len(typed[activeSession]) + 1) \in Seq(Input)
    BY <1>1, <2>1, <2>2 DEF InputsOK
  <2>5. queue' \in Seq(Entry) /\ received' = received
    BY <1>1, <1>2, <2>3 DEF UserTypes, InputsOK
  <2>6. typed' \in [Conn -> Seq(Input)]
    BY <1>1, <1>2, <2>4 DEF UserTypes, InputsOK
  <2> QED
    BY <1>1, <2>5, <2>6 DEF InputsOK
<1>3. CASE Dispatches
  <2>1. Head(queue) \in Entry
    BY <1>1, <1>3, HeadTail DEF Dispatches, InputsOK
  <2>2. queue' \in Seq(Entry) /\ typed' = typed
    BY <1>1, <1>3 DEF Dispatches, InputsOK
  <2>3. Head(queue).session \in Conn /\ Head(queue).input \in Input
    BY <2>1 DEF Entry
  <2>4. \A s \in Seq(Input) : Append(s, Head(queue).input) \in Seq(Input)
    BY <2>3
  <2>5. received \in [Conn -> Seq(Input)]
    BY <1>1 DEF InputsOK
  <2>6. received' \in [Conn -> Seq(Input)]
    BY <1>3, <2>3, <2>4, <2>5 DEF Dispatches
  <2> QED
    BY <1>1, <2>2, <2>6 DEF InputsOK
<1>4. CASE UNCHANGED inputVars
  BY <1>1, <1>4 DEF inputVars, InputsOK
<1> QED
  BY <1>2, <1>3, <1>4, InputsRest

LEMMA InitTyped == ServerInit => ServerTypeOK
BY Numbers DEF ServerInit, ServerTypeOK, ConnsOK, TrustsOK, ReportsOK, InputsOK,
   HandlerPlace, ForgetPlace, JobPlace, MaybeConn, NoConn, NoTrust

(* The server keeps to its places, sockets, credentials and jobs.          *)
THEOREM ServerTyped == ServerSpec => []ServerTypeOK
<1>1. ServerTypeOK /\ [ServerNext]_serverVars => ServerTypeOK'
  BY ConnsTyped, TrustsTyped, ReportsTyped, InputsTyped DEF ServerTypeOK
<1> QED
  BY <1>1, InitTyped, PTL DEF ServerSpec
-----------------------------------------------------------------------------
(* The active socket.                                                      *)

(* Only a handler at the host's UNPAIR is inside forgetHost.               *)
CallerInv == \A c \in Conn : forgetting[c] # "idle" => handler[c] = "unpairing"

(* forgetHost holds a socket only until it closes it, and a socket is open *)
(* only after its handler has begun.                                       *)
SocketInv ==
    /\ ServerTypeOK /\ CallerInv
    /\ \A f \in Forgetter : forgetting[f] # "closing" => taken[f] = NoConn
    /\ \A c \in open : handler[c] # "none"
    /\ OneConnection

LEMMA Moves ==
  ASSUME ServerTypeOK, NEW c \in Conn, NEW from, NEW to, Goes(c, from, to)
  PROVE  /\ handler[c] = from /\ handler'[c] = to
         /\ \A d \in Conn \ {c} : handler'[d] = handler[d]
BY DEF ServerTypeOK, ConnsOK, Goes

LEMMA CallerStep ==
  ASSUME ServerTypeOK, CallerInv, [ServerNext]_serverVars
  PROVE  CallerInv'
<1> USE DEF CallerInv
<1>1. ASSUME NEW c \in Conn,
             \/ Accept(c) \/ LoadPeer(c) \/ Pairs(c) \/ Authenticates(c)
             \/ StartsReports(c)
             \/ HandlerStep(c) /\ ~ReturnsFromUnpair(c)
      PROVE  CallerInv'
  <2>1. UNCHANGED forgetting
    BY <1>1 DEF Accept, LoadPeer, Pairs, Authenticates, StartsReports, HandlerStep, Fails,
       StartsSession, StartsCallWatcher, LeavesSession, StopsJobs, ClearsSession, Releases,
       ClosesSocket, trustVars
  <2>2. \E from \in HandlerPlace \ {"unpairing"}, to \in HandlerPlace : Goes(c, from, to)
    BY <1>1 DEF HandlerPlace, Accept, LoadPeer, Pairs, Authenticates, StartsReports,
       HandlerStep, Fails, StartsSession, StartsCallWatcher, LeavesSession, StopsJobs,
       ClearsSession, Releases, ClosesSocket
  <2> QED
    BY <2>1, <2>2, Moves
<1>2. ASSUME NEW c \in Conn, HostUnpairs(c)
      PROVE  CallerInv'
  <2>1. Goes(c, "serving", "unpairing") /\ forgetting' = [forgetting EXCEPT ![c] = "begun"]
    BY <1>2 DEF HostUnpairs
  <2> QED
    BY <2>1, Moves DEF ServerTypeOK, TrustsOK
<1>3. ASSUME NEW c \in Conn, ReturnsFromUnpair(c)
      PROVE  CallerInv'
  <2>1. /\ UNCHANGED forgetting /\ forgetting[c] = "idle"
        /\ Goes(c, "unpairing", "cleaning")
    BY <1>3 DEF ReturnsFromUnpair, trustVars
  <2> QED
    BY <2>1, Moves
<1>4. CASE UserUnpairs \/ \E f \in Forgetter : ForgetStep(f)
  <2>1. /\ UNCHANGED handler
        /\ \E f \in Forgetter, p \in ForgetPlace :
              /\ f \in Conn => forgetting[f] # "idle"
              /\ forgetting' = [forgetting EXCEPT ![f] = p]
    BY <1>4, Numbers DEF UserUnpairs, ForgetStep, ForgetsPeers, TakesSocket, ClosesTaken,
       connVars, ForgetPlace
  <2> QED
    BY <2>1, Numbers DEF ServerTypeOK, TrustsOK
<1>5. CASE \/ \E c \in Conn : Breaks(c) \/ JobOwnStep(c)
           \/ UserTypes \/ Dispatches \/ UNCHANGED serverVars
  BY <1>5 DEF Breaks, JobOwnStep, JobStarts, JobLeaves, JobEnds, JobStep, UserTypes,
     Dispatches, connVars, trustVars, serverVars
<1> QED
  BY <1>1, <1>2, <1>3, <1>4, <1>5 DEF ServerNext, HandlerStep

(* The steps that open and close nothing: the sockets stay as they are,    *)
(* and a handler goes on, but not from its last place.                     *)
QuietServerStep ==
    \/ \E c \in Conn :
          \/ Breaks(c) \/ LoadPeer(c) \/ Pairs(c) \/ Authenticates(c)
          \/ StartsReports(c) \/ HostUnpairs(c) \/ JobOwnStep(c)
          \/ HandlerStep(c) /\ ~Releases(c) /\ ~ClosesSocket(c)
    \/ UserUnpairs \/ \E f \in Forgetter : ForgetsPeers(f)
    \/ UserTypes \/ Dispatches \/ UNCHANGED serverVars

LEMMA QuietServer ==
  ASSUME ServerTypeOK, CallerInv, QuietServerStep
  PROVE  /\ UNCHANGED <<open, activeSocket, taken>>
         /\ \A c \in Conn : handler[c] = "closing" => handler'[c] = "closing"
         /\ \A c \in Conn : handler'[c] = "none" => handler[c] = "none"
         /\ \A f \in Forgetter : forgetting[f] = "closing" => forgetting'[f] = "closing"
<1> DEFINE Kept ==
      /\ UNCHANGED <<open, activeSocket, taken>>
      /\ \A c \in Conn : handler[c] = "closing" => handler'[c] = "closing"
      /\ \A c \in Conn : handler'[c] = "none" => handler[c] = "none"
      /\ \A f \in Forgetter : forgetting[f] = "closing" => forgetting'[f] = "closing"
<1>1. ASSUME NEW c \in Conn,
             \/ LoadPeer(c) \/ Pairs(c) \/ Authenticates(c) \/ StartsReports(c)
             \/ HandlerStep(c) /\ ~Releases(c) /\ ~ClosesSocket(c)
      PROVE  Kept
  <2>1. UNCHANGED <<open, activeSocket, taken, forgetting>>
    BY <1>1 DEF LoadPeer, Pairs, Authenticates, StartsReports, HandlerStep, Fails,
       StartsSession, StartsCallWatcher, LeavesSession, ReturnsFromUnpair, StopsJobs,
       ClearsSession, trustVars
  <2>2. \E from \in HandlerPlace \ {"closing"}, to \in HandlerPlace \ {"none"} :
           Goes(c, from, to)
    BY <1>1 DEF HandlerPlace, LoadPeer, Pairs, Authenticates, StartsReports, HandlerStep,
       Fails, StartsSession, StartsCallWatcher, LeavesSession, ReturnsFromUnpair,
       StopsJobs, ClearsSession
  <2> QED
    BY <2>1, <2>2, Moves
<1>2. ASSUME NEW c \in Conn, HostUnpairs(c)
      PROVE  Kept
  <2>1. /\ UNCHANGED <<open, activeSocket, taken>>
        /\ Goes(c, "serving", "unpairing")
        /\ forgetting' = [forgetting EXCEPT ![c] = "begun"]
    BY <1>2 DEF HostUnpairs
  <2>2. forgetting[c] = "idle"
    BY <2>1, Moves DEF CallerInv
  <2> QED
    BY <2>1, <2>2, Moves DEF ServerTypeOK, TrustsOK
<1>3. CASE UserUnpairs \/ \E f \in Forgetter : ForgetsPeers(f)
  <2>1. /\ UNCHANGED <<open, activeSocket, taken, handler>>
        /\ \E f \in Forgetter, p \in {"begun", "forgotten"} :
              /\ forgetting[f] # "closing"
              /\ forgetting' = [forgetting EXCEPT ![f] = p]
    BY <1>3, Numbers DEF UserUnpairs, ForgetsPeers, connVars
  <2> QED
    BY <2>1 DEF ServerTypeOK, TrustsOK
<1>4. CASE \/ \E c \in Conn : Breaks(c) \/ JobOwnStep(c)
           \/ UserTypes \/ Dispatches \/ UNCHANGED serverVars
  BY <1>4 DEF Breaks, JobOwnStep, JobStarts, JobLeaves, JobEnds, JobStep, UserTypes,
     Dispatches, connVars, trustVars, serverVars
<1> QED
  BY <1>1, <1>2, <1>3, <1>4 DEF QuietServerStep

LEMMA SocketStep ==
  ASSUME SocketInv, [ServerNext]_serverVars
  PROVE  SocketInv'
<1>1. ServerTypeOK /\ ServerTypeOK' /\ CallerInv /\ CallerInv'
  BY ConnsTyped, TrustsTyped, ReportsTyped, InputsTyped, CallerStep
     DEF SocketInv, ServerTypeOK
<1>2. CASE QuietServerStep
  BY <1>1, <1>2, QuietServer DEF SocketInv, OneConnection, ServerTypeOK, ConnsOK
<1>3. ASSUME NEW c \in Conn, Accept(c)
      PROVE  SocketInv'
  <2>1. UNCHANGED <<taken, forgetting>>
    BY <1>3 DEF Accept, trustVars
  <2>2. CASE activeSocket # NoConn
    <3>1. Goes(c, "none", "done") /\ UNCHANGED <<activeSocket, open>>
      BY <1>3, <2>2 DEF Accept
    <3> QED
      BY <1>1, <2>1, <3>1, Moves DEF SocketInv, OneConnection, ServerTypeOK, ConnsOK
  <2>3. CASE activeSocket = NoConn
    <3>1. /\ Goes(c, "none", "reading")
          /\ activeSocket' = c /\ open' = open \cup {c}
      BY <1>3, <2>3 DEF Accept
    <3>2. \A d \in open : \/ handler[d] = "closing"
                           \/ \E f \in Forgetter : taken[f] = d
      BY <2>3, Numbers DEF SocketInv, OneConnection, ServerTypeOK, ConnsOK
    <3>3. \A d \in open : d # c
      BY <3>1, Moves, <1>1 DEF SocketInv
    <3> QED
      BY <1>1, <2>1, <3>1, <3>2, <3>3, Moves
         DEF SocketInv, OneConnection, ServerTypeOK, ConnsOK
  <2> QED
    BY <2>2, <2>3
<1>4. ASSUME NEW c \in Conn, Releases(c)
      PROVE  SocketInv'
  <2>1. /\ UNCHANGED <<open, taken, forgetting>>
        /\ Goes(c, "releasing", "closing")
        /\ activeSocket' = IF activeSocket = c THEN NoConn ELSE activeSocket
    BY <1>4 DEF Releases, trustVars
  <2> QED
    BY <1>1, <2>1, Moves DEF SocketInv, OneConnection, ServerTypeOK, ConnsOK
<1>5. ASSUME NEW c \in Conn, ClosesSocket(c)
      PROVE  SocketInv'
  <2>1. /\ UNCHANGED <<activeSocket, taken, forgetting>>
        /\ Goes(c, "closing", "done") /\ open' = open \ {c}
    BY <1>5 DEF ClosesSocket
  <2> QED
    BY <1>1, <2>1, Moves DEF SocketInv, OneConnection, ServerTypeOK, ConnsOK
<1>6. ASSUME NEW f \in Forgetter, TakesSocket(f)
      PROVE  SocketInv'
  <2>1. /\ forgetting[f] = "forgotten" /\ forgetting' = [forgetting EXCEPT ![f] = "closing"]
        /\ taken' = [taken EXCEPT ![f] = activeSocket]
        /\ open' \subseteq open /\ UNCHANGED handler
    BY <1>6 DEF TakesSocket
  <2>2. taken[f] = NoConn
    BY <2>1 DEF SocketInv
  <2>3. taken'[f] = activeSocket /\ \A g \in Forgetter \ {f} : taken'[g] = taken[g]
    BY <1>1, <2>1 DEF ServerTypeOK, TrustsOK
  <2>4. OneConnection'
    BY <1>1, <2>1, <2>2, <2>3, Numbers DEF SocketInv, OneConnection, ServerTypeOK, ConnsOK
  <2> QED
    BY <1>1, <2>1, <2>3, <2>4 DEF SocketInv, ServerTypeOK, TrustsOK
<1>7. ASSUME NEW f \in Forgetter, ClosesTaken(f)
      PROVE  SocketInv'
  <2>1. /\ forgetting' = [forgetting EXCEPT ![f] = "idle"]
        /\ taken' = [taken EXCEPT ![f] = NoConn]
        /\ open' = open \ {taken[f]} /\ UNCHANGED <<handler, activeSocket>>
    BY <1>7 DEF ClosesTaken
  <2>2. taken'[f] = NoConn /\ \A g \in Forgetter \ {f} : taken'[g] = taken[g]
    BY <1>1, <2>1 DEF ServerTypeOK, TrustsOK
  <2>3. OneConnection'
    BY <2>1, <2>2 DEF SocketInv, OneConnection
  <2> QED
    BY <1>1, <2>1, <2>2, <2>3 DEF SocketInv, ServerTypeOK, TrustsOK
<1> QED
  BY <1>2, <1>3, <1>4, <1>5, <1>6, <1>7
     DEF ServerNext, QuietServerStep, HandlerStep, ForgetStep

LEMMA InitSockets == ServerInit => SocketInv
BY InitTyped, Numbers DEF ServerInit, SocketInv, CallerInv, OneConnection

(* acceptLoop and forgetHost: one accepted connection at a time is not     *)
(* about to be closed, whatever handlers of older ones still run.          *)
THEOREM OneConnectionServed == ServerSpec => []OneConnection
<1>1. SocketInv => OneConnection
  BY DEF SocketInv
<1> QED
  BY <1>1, InitSockets, SocketStep, PTL DEF ServerSpec
-----------------------------------------------------------------------------
(* A forgotten host.                                                       *)

(* A session with a dropped credential meets a forgetHost that has not yet *)
(* looked at the active socket, or one that has taken its own.             *)
DroppedInv ==
    /\ SocketInv
    /\ trust \notin dropped
    /\ \A c \in Conn : handler[c] = "none" => credential[c] = NoTrust
    /\ \A c \in open : credential[c] \in dropped =>
          \/ \E f \in Forgetter : forgetting[f] = "forgotten" \/ taken[f] = c
          \/ handler[c] \in {"releasing", "closing"}

(* The steps that leave trust and its users alone.                         *)
TrustKept ==
    \/ \E c \in Conn :
          \/ Breaks(c) \/ Authenticates(c) \/ StartsReports(c) \/ HostUnpairs(c)
          \/ HandlerStep(c) /\ ~ClosesSocket(c)
          \/ JobOwnStep(c)
    \/ UserUnpairs \/ UserTypes \/ Dispatches \/ UNCHANGED serverVars

LEMMA TrustRest ==
  ASSUME ServerTypeOK, CallerInv, TrustKept
  PROVE  /\ UNCHANGED <<open, taken, trust, dropped, credential>>
         /\ \A c \in Conn : handler'[c] = "none" => handler[c] = "none"
         /\ \A c \in Conn : handler[c] \in {"releasing", "closing"}
                              => handler'[c] \in {"releasing", "closing"}
         /\ \A f \in Forgetter : forgetting[f] = "forgotten" => forgetting'[f] = "forgotten"
<1>1. UNCHANGED <<open, taken, trust, dropped, credential>>
  BY DEF TrustKept, Breaks, Authenticates, StartsReports, HostUnpairs, HandlerStep, Fails,
     StartsSession, StartsCallWatcher, LeavesSession, ReturnsFromUnpair, StopsJobs,
     ClearsSession, Releases, JobOwnStep, JobStarts, JobLeaves, JobEnds, JobStep,
     UserUnpairs, UserTypes, Dispatches, connVars, trustVars, serverVars
<1>2. \/ UNCHANGED handler
      \/ \E c \in Conn, from \in HandlerPlace, to \in HandlerPlace \ {"none"} :
            /\ from = "releasing" => to = "closing"
            /\ from # "closing"
            /\ Goes(c, from, to)
  BY DEF HandlerPlace, TrustKept, Breaks, Authenticates, StartsReports, HostUnpairs,
     HandlerStep, Fails, StartsSession, StartsCallWatcher, LeavesSession,
     ReturnsFromUnpair, StopsJobs, ClearsSession, Releases, JobOwnStep, JobStarts,
     JobLeaves, JobEnds, JobStep, UserUnpairs, UserTypes, Dispatches, connVars, serverVars
<1>3. \/ UNCHANGED forgetting
      \/ forgetting[User] = "idle" /\ forgetting' = [forgetting EXCEPT ![User] = "begun"]
      \/ \E c \in Conn : /\ Goes(c, "serving", "unpairing")
                         /\ forgetting' = [forgetting EXCEPT ![c] = "begun"]
  BY DEF TrustKept, Breaks, Authenticates, StartsReports, HostUnpairs, HandlerStep, Fails,
     StartsSession, StartsCallWatcher, LeavesSession, ReturnsFromUnpair, StopsJobs,
     ClearsSession, Releases, JobOwnStep, JobStarts, JobLeaves, JobEnds, JobStep,
     UserUnpairs, UserTypes, Dispatches, trustVars, serverVars
<1>4. \A c \in Conn : handler'[c] = "none" => handler[c] = "none"
  BY <1>2, Moves
<1>5. \A c \in Conn : handler[c] \in {"releasing", "closing"}
                       => handler'[c] \in {"releasing", "closing"}
  BY <1>2, Moves
<1>6. \A f \in Forgetter : forgetting[f] = "forgotten" => forgetting'[f] = "forgotten"
  <2>1. ASSUME NEW c \in Conn, Goes(c, "serving", "unpairing"),
               forgetting' = [forgetting EXCEPT ![c] = "begun"]
        PROVE  \A f \in Forgetter : forgetting[f] = "forgotten" => forgetting'[f] = "forgotten"
    <3>1. forgetting[c] = "idle"
      BY <2>1, Moves DEF CallerInv
    <3> QED
      BY <2>1, <3>1 DEF ServerTypeOK, TrustsOK
  <2> QED
    BY <1>3, <2>1 DEF ServerTypeOK, TrustsOK
<1> QED
  BY <1>1, <1>4, <1>5, <1>6

LEMMA DroppedStep ==
  ASSUME DroppedInv, [ServerNext]_serverVars
  PROVE  DroppedInv'
<1>1. SocketInv /\ SocketInv'
  BY SocketStep DEF DroppedInv
<1>2. /\ ServerTypeOK /\ CallerInv /\ open \subseteq Conn
      /\ trusts \in Nat \ {0} /\ trust \in 0..trusts /\ dropped \subseteq 1..trusts
      /\ credential \in [Conn -> Nat]
      /\ forgetting \in [Forgetter -> ForgetPlace]
      /\ taken \in [Forgetter -> MaybeConn]
  BY <1>1 DEF SocketInv, ServerTypeOK, ConnsOK, TrustsOK
<1>3. CASE TrustKept
  <2>1. /\ UNCHANGED <<open, taken, trust, dropped, credential>>
        /\ \A c \in Conn : handler'[c] = "none" => handler[c] = "none"
        /\ \A c \in Conn : handler[c] \in {"releasing", "closing"}
                             => handler'[c] \in {"releasing", "closing"}
        /\ \A f \in Forgetter : forgetting[f] = "forgotten" => forgetting'[f] = "forgotten"
    BY <1>2, <1>3, TrustRest
  <2> QED
    BY <1>1, <1>2, <2>1 DEF DroppedInv
<1>4. ASSUME NEW c \in Conn, Accept(c)
      PROVE  DroppedInv'
  <2>1. /\ UNCHANGED <<taken, forgetting, trust, dropped, credential>>
        /\ open' \subseteq open \cup {c}
        /\ \E to \in {"reading", "done"} : Goes(c, "none", to)
    BY <1>4 DEF Accept, trustVars
  <2>2. /\ handler[c] = "none" /\ handler'[c] # "none"
        /\ \A d \in Conn \ {c} : handler'[d] = handler[d]
    BY <1>2, <2>1, Moves
  <2>3. credential[c] \notin dropped
    BY <1>2, <2>2 DEF DroppedInv, NoTrust
  <2> QED
    BY <1>1, <1>2, <2>1, <2>2, <2>3 DEF DroppedInv
<1>5. ASSUME NEW c \in Conn, LoadPeer(c)
      PROVE  DroppedInv'
  <2>1. /\ UNCHANGED <<open, taken, forgetting, trust, dropped>>
        /\ credential' = [credential EXCEPT ![c] = trust]
        /\ Goes(c, "reading", "authenticating")
    BY <1>5 DEF LoadPeer
  <2>2. /\ handler'[c] = "authenticating"
        /\ \A d \in Conn \ {c} : handler'[d] = handler[d]
    BY <1>2, <2>1, Moves
  <2>3. credential'[c] \notin dropped'
        /\ \A d \in Conn \ {c} : credential'[d] = credential[d]
    BY <1>2, <2>1 DEF DroppedInv
  <2> QED
    BY <1>1, <1>2, <2>1, <2>2, <2>3 DEF DroppedInv
<1>6. ASSUME NEW c \in Conn, Pairs(c)
      PROVE  DroppedInv'
  <2>1. /\ UNCHANGED <<open, taken, forgetting, dropped, credential>>
        /\ trust' = trusts + 1 /\ Goes(c, "reading", "releasing")
    BY <1>6 DEF Pairs
  <2>2. /\ handler[c] = "reading" /\ handler'[c] = "releasing"
        /\ \A d \in Conn \ {c} : handler'[d] = handler[d]
    BY <1>2, <2>1, Moves
  <2>3. trust' \notin dropped'
    BY <1>2, <2>1
  <2> QED
    BY <1>1, <1>2, <2>1, <2>2, <2>3 DEF DroppedInv
<1>7. ASSUME NEW c \in Conn, ClosesSocket(c)
      PROVE  DroppedInv'
  <2>1. /\ UNCHANGED <<taken, forgetting, trust, dropped>> /\ open' = open \ {c}
        /\ credential' = [credential EXCEPT ![c] = NoTrust]
        /\ Goes(c, "closing", "done")
    BY <1>7 DEF ClosesSocket
  <2>2. /\ handler'[c] = "done"
        /\ \A d \in Conn \ {c} : handler'[d] = handler[d] /\ credential'[d] = credential[d]
    BY <1>2, <2>1, Moves
  <2> QED
    BY <1>1, <1>2, <2>1, <2>2 DEF DroppedInv
<1>8. ASSUME NEW f \in Forgetter, ForgetsPeers(f)
      PROVE  DroppedInv'
  <2>1. /\ UNCHANGED <<handler, open, taken, credential>> /\ trust' = NoTrust
        /\ forgetting' = [forgetting EXCEPT ![f] = "forgotten"]
        /\ dropped' = dropped \cup ({trust} \ {NoTrust})
    BY <1>8 DEF ForgetsPeers, connVars
  <2>2. forgetting'[f] = "forgotten" /\ NoTrust \notin dropped'
    BY <1>2, <2>1 DEF NoTrust
  <2> QED
    BY <1>1, <2>1, <2>2 DEF DroppedInv
<1>9. ASSUME NEW f \in Forgetter, TakesSocket(f)
      PROVE  DroppedInv'
  <2>1. /\ UNCHANGED <<handler, trust, dropped, credential>>
        /\ open' \subseteq open /\ activeSocket' = NoConn
    BY <1>9 DEF TakesSocket
  <2>2. \A c \in open' : handler'[c] = "closing" \/ \E g \in Forgetter : taken'[g] = c
    BY <1>1, <1>2, <2>1, Numbers DEF SocketInv, OneConnection
  <2> QED
    BY <1>1, <2>1, <2>2 DEF DroppedInv
<1>10. ASSUME NEW f \in Forgetter, ClosesTaken(f)
       PROVE  DroppedInv'
  <2>1. /\ UNCHANGED <<handler, trust, dropped, credential>>
        /\ forgetting[f] = "closing" /\ forgetting' = [forgetting EXCEPT ![f] = "idle"]
        /\ taken' = [taken EXCEPT ![f] = NoConn] /\ open' = open \ {taken[f]}
    BY <1>10 DEF ClosesTaken
  <2>2. \A g \in Forgetter \ {f} : taken'[g] = taken[g] /\ forgetting'[g] = forgetting[g]
    BY <1>2, <2>1
  <2> QED
    BY <1>1, <2>1, <2>2 DEF DroppedInv
<1> QED
  BY <1>3, <1>4, <1>5, <1>6, <1>7, <1>8, <1>9, <1>10
     DEF ServerNext, TrustKept, HandlerStep, ForgetStep

(* forgetHost: when its last call is over, no connection that has          *)
(* authenticated with a credential it dropped is open, but for one whose   *)
(* handler is about to close it.                                           *)
THEOREM ForgottenHostGone == ServerSpec => []ForgottenHostIsGone
<1>1. ServerInit => DroppedInv
  BY InitSockets DEF ServerInit, DroppedInv, NoTrust
<1>2. DroppedInv => ForgottenHostIsGone
  <2> SUFFICES ASSUME DroppedInv, NEW c \in open, credential[c] \in dropped
               PROVE  \/ \E f \in Forgetter : forgetting[f] \in {"forgotten", "closing"}
                      \/ handler[c] \in {"releasing", "closing"}
    BY DEF ForgottenHostIsGone
  <2>1. c # NoConn
    BY Numbers DEF DroppedInv, SocketInv, ServerTypeOK, ConnsOK
  <2>2. \A f \in Forgetter : taken[f] = c => forgetting[f] = "closing"
    BY <2>1 DEF DroppedInv, SocketInv
  <2> QED
    BY <2>2 DEF DroppedInv
<1> QED
  BY <1>1, <1>2, DroppedStep, PTL DEF ServerSpec
-----------------------------------------------------------------------------
(* The order of remote input.                                              *)

(* Where a handler has not yet made its session the active one.            *)
Unstarted == {"none", "reading", "authenticating", "begun"}

(* The inputs of a session are numbered, and those it received are the     *)
(* first of them.                                                          *)
Numbered ==
    \A c \in Conn :
        /\ \A i \in 1..Len(typed[c]) : typed[c][i] = i
        /\ Len(received[c]) <= Len(typed[c])
        /\ \A i \in 1..Len(received[c]) : received[c][i] = i

(* What is queued was typed, and is queued in the order it was typed.      *)
QueueSorted ==
    /\ \A i \in 1..Len(queue) : queue[i].input <= Len(typed[queue[i].session])
    /\ \A i, j \in 1..Len(queue) :
          i < j /\ queue[i].session = queue[j].session => queue[i].input < queue[j].input

(* The queue holds all that the active session has not received.           *)
QueueHolds(c) ==
    /\ \A i \in 1..Len(queue) : queue[i].session = c => Len(received[c]) < queue[i].input
    /\ \A k \in (Len(received[c]) + 1)..Len(typed[c]) :
          \E i \in 1..Len(queue) : queue[i].session = c /\ queue[i].input = k

QueueInv ==
    /\ ServerTypeOK
    /\ \A c \in Conn : handler[c] \in Unstarted => typed[c] = <<>> /\ activeSession # c
    /\ Numbered /\ QueueSorted
    /\ \A c \in Conn : activeSession = c /\ Reads(c) => QueueHolds(c)

(* The steps that move no input: a session becomes the active one only     *)
(* when it starts, and no socket is read again after it was closed.        *)
LEMMA SessionRest ==
  ASSUME ServerTypeOK, [ServerNext]_serverVars
  PROVE  /\ \A c \in Conn : handler'[c] \in Unstarted => handler[c] \in Unstarted
         /\ \A c \in Conn : activeSession' = c =>
               activeSession = c \/ (handler[c] = "begun" /\ handler'[c] = "waiting")
         /\ \A c \in Conn : Reads(c)' => Reads(c) \/ handler[c] = "none"
<1>1. \/ UNCHANGED handler
      \/ \E c \in Conn, from \in HandlerPlace, to \in HandlerPlace :
            Goes(c, from, to) /\ (to \in Unstarted => from \in Unstarted)
  BY DEF HandlerPlace, Unstarted, ServerNext, Accept, Breaks, LoadPeer, Pairs, Authenticates,
     StartsReports, HostUnpairs, HandlerStep, Fails, StartsSession, StartsCallWatcher,
     LeavesSession, ReturnsFromUnpair, StopsJobs, ClearsSession, Releases, ClosesSocket,
     UserUnpairs, ForgetStep, ForgetsPeers, TakesSocket, ClosesTaken, JobOwnStep,
     JobStarts, JobLeaves, JobEnds, JobStep, UserTypes, Dispatches, connVars, serverVars
<1>2. \/ activeSession' \in {activeSession, NoConn}
      \/ \E c \in Conn : activeSession' = c /\ Goes(c, "begun", "waiting")
  BY DEF ServerNext, Accept, Breaks, LoadPeer, Pairs, Authenticates,
     StartsReports, HostUnpairs, HandlerStep, Fails, StartsSession, StartsCallWatcher,
     LeavesSession, ReturnsFromUnpair, StopsJobs, ClearsSession, Releases, ClosesSocket,
     UserUnpairs, ForgetStep, ForgetsPeers, TakesSocket, ClosesTaken, JobOwnStep,
     JobStarts, JobLeaves, JobEnds, JobStep, UserTypes, Dispatches, connVars, serverVars
<1>3. \/ \E c \in Conn : Goes(c, "none", "reading") /\ open' = open \cup {c}
                        /\ UNCHANGED broken
      \/ open' \subseteq open /\ broken \subseteq broken'
      \/ \E c \in Conn : open' = open \ {c} /\ broken' = broken \ {c}
  BY DEF ServerNext, Accept, Breaks, LoadPeer, Pairs, Authenticates,
     StartsReports, HostUnpairs, HandlerStep, Fails, StartsSession, StartsCallWatcher,
     LeavesSession, ReturnsFromUnpair, StopsJobs, ClearsSession, Releases, ClosesSocket,
     UserUnpairs, ForgetStep, ForgetsPeers, TakesSocket, ClosesTaken, JobOwnStep,
     JobStarts, JobLeaves, JobEnds, JobStep, UserTypes, Dispatches, connVars, serverVars
<1>4. \A c \in Conn : handler'[c] \in Unstarted => handler[c] \in Unstarted
  BY <1>1, Moves
<1>5. \A c \in Conn : activeSession' = c =>
         activeSession = c \/ (handler[c] = "begun" /\ handler'[c] = "waiting")
  <2>1. ASSUME NEW c \in Conn, activeSession' = c, activeSession # c
        PROVE  handler[c] = "begun" /\ handler'[c] = "waiting"
    <3>1. Goes(c, "begun", "waiting")
      BY <1>2, <2>1, Numbers
    <3> QED
      BY <3>1, Moves
  <2> QED
    BY <2>1
<1>6. \A c \in Conn : Reads(c)' => Reads(c) \/ handler[c] = "none"
  BY <1>3, Moves DEF Reads
<1> QED
  BY <1>4, <1>5, <1>6

LEMMA QueueStands ==
  ASSUME QueueInv, ServerTypeOK', [ServerNext]_serverVars, UNCHANGED inputVars
  PROVE  QueueInv'
<1>1. UNCHANGED <<queue, typed, received>>
  BY DEF inputVars
<1>2. Numbered' /\ QueueSorted' /\ \A c \in Conn : QueueHolds(c) <=> QueueHolds(c)'
  BY <1>1 DEF QueueInv, Numbered, QueueSorted, QueueHolds
<1>3. \A c \in Conn : handler'[c] \in Unstarted => typed'[c] = <<>> /\ activeSession' # c
  <2> SUFFICES ASSUME NEW c \in Conn, handler'[c] \in Unstarted
               PROVE  typed'[c] = <<>> /\ activeSession' # c
    OBVIOUS
  <2>1. handler[c] \in Unstarted
    BY SessionRest DEF QueueInv
  <2>2. typed[c] = <<>> /\ activeSession # c
    BY <2>1 DEF QueueInv
  <2>3. handler'[c] # "waiting"
    BY DEF Unstarted
  <2> QED
    BY <1>1, <2>2, <2>3, SessionRest DEF QueueInv
<1>4. ASSUME NEW c \in Conn, activeSession' = c, Reads(c)'
      PROVE  QueueHolds(c)
  <2>1. CASE activeSession = c
    BY <1>4, <2>1, SessionRest DEF QueueInv, Unstarted
  <2>2. CASE handler[c] = "begun"
    <3>1. Len(typed[c]) = 0 /\ typed[c] = <<>>
      BY <2>2 DEF QueueInv, Unstarted
    <3>2. Len(received[c]) = 0
      BY <3>1 DEF QueueInv, Numbered, ServerTypeOK, InputsOK
    <3>3. \A i \in 1..Len(queue) : queue[i].input \in Nat /\ queue[i].input > 0
      BY Entries DEF QueueInv, ServerTypeOK, InputsOK
    <3>4. \A i \in 1..Len(queue) : queue[i].session # c
      BY <3>1, <3>3 DEF QueueInv, QueueSorted
    <3> QED
      BY <3>1, <3>2, <3>4 DEF QueueHolds
  <2>3. activeSession = c \/ handler[c] = "begun"
    BY <1>4, SessionRest DEF QueueInv
  <2> QED
    BY <2>1, <2>2, <2>3
<1> QED
  BY <1>2, <1>3, <1>4 DEF QueueInv

(* A key that goes down or up is queued behind all that went before.       *)
LEMMA QueueTypes ==
  ASSUME QueueInv, ServerTypeOK', UserTypes
  PROVE  QueueInv'
<1> DEFINE a == activeSession
           n == Len(typed[a]) + 1
           x == [session |-> a, input |-> n]
<1>1. /\ a # NoConn /\ queue' = Append(queue, x)
      /\ typed' = [typed EXCEPT ![a] = Append(@, n)]
      /\ UNCHANGED <<received, handler, open, broken, activeSession>>
  BY DEF UserTypes, connVars
<1>2. /\ queue \in Seq(Entry)
      /\ typed \in [Conn -> Seq(Input)] /\ received \in [Conn -> Seq(Input)]
      /\ a \in Conn
  BY <1>1 DEF QueueInv, ServerTypeOK, InputsOK, ConnsOK, MaybeConn
<1>3. /\ n \in Nat \ {0} /\ Len(typed'[a]) = n /\ typed'[a][n] = n
      /\ \A i \in 1..(n - 1) : typed'[a][i] = typed[a][i]
      /\ \A c \in Conn \ {a} : typed'[c] = typed[c]
      /\ n - 1 = Len(typed[a]) /\ Len(typed[a]) \in Nat
  <2>1. n \in Input
    BY <1>2 DEF Input
  <2>2. typed'[a] = Append(typed[a], n) /\ typed[a] \in Seq(Input)
    BY <1>1, <1>2
  <2>3. Len(typed[a]) \in Nat /\ n - 1 = Len(typed[a])
    BY <1>2
  <2>4. \A c \in Conn \ {a} : typed'[c] = typed[c]
    BY <1>1, <1>2
  <2> HIDE DEF n
  <2>5. /\ Len(typed'[a]) = Len(typed[a]) + 1 /\ typed'[a][Len(typed[a]) + 1] = n
        /\ \A i \in 1..Len(typed[a]) : typed'[a][i] = typed[a][i]
    BY <2>1, <2>2, Appended
  <2> QED
    BY <2>1, <2>3, <2>4, <2>5 DEF Input
<1>4. /\ Len(queue) \in Nat /\ Len(queue') = Len(queue) + 1
      /\ queue'[Len(queue) + 1] = x
      /\ \A i \in 1..Len(queue) :
            queue'[i] = queue[i] /\ queue[i].session \in Conn /\ queue[i].input \in Nat
  <2>1. x \in Entry
    BY <1>2, <1>3 DEF Input, Entry
  <2> HIDE DEF x
  <2>2. /\ Len(queue) \in Nat /\ Len(queue') = Len(queue) + 1
        /\ queue'[Len(queue) + 1] = x
        /\ \A i \in 1..Len(queue) : queue'[i] = queue[i]
    BY <1>1, <1>2, <2>1, Appended
  <2>3. \A i \in 1..Len(queue) : queue[i].session \in Conn /\ queue[i].input \in Nat
    BY <1>2, Entries
  <2> QED
    BY <2>2, <2>3
<1>5. x.session = a /\ x.input = n
  OBVIOUS
<1> HIDE DEF x, n
<1>6. \A c \in Conn : handler'[c] \in Unstarted => typed'[c] = <<>> /\ activeSession' # c
  BY <1>1, <1>2, <1>3 DEF QueueInv
<1>7. Numbered'
  <2> SUFFICES ASSUME NEW c \in Conn
               PROVE  /\ \A i \in 1..Len(typed'[c]) : typed'[c][i] = i
                      /\ Len(received[c]) <= Len(typed'[c])
                      /\ \A i \in 1..Len(received[c]) : received[c][i] = i
    BY <1>1 DEF Numbered
  <2>1. CASE c = a
    <3>1. /\ Len(received[a]) \in Nat /\ Len(received[a]) <= n - 1
          /\ \A i \in 1..Len(received[a]) : received[a][i] = i
          /\ \A i \in 1..(n - 1) : typed[a][i] = i
      BY <1>2, <1>3 DEF QueueInv, Numbered
    <3>2. \A i \in 1..n : typed'[a][i] = i
      BY <1>3, <3>1
    <3> QED
      BY <1>3, <2>1, <3>1, <3>2
  <2>2. CASE c # a
    BY <1>3, <2>2 DEF QueueInv, Numbered
  <2> QED
    BY <2>1, <2>2
<1>8. \A i \in 1..Len(queue) : queue[i].session = a => queue[i].input < n
  BY <1>3, <1>4 DEF QueueInv, QueueSorted
<1>9. QueueSorted'
  <2>1. \A i \in 1..Len(queue') : queue'[i].input <= Len(typed'[queue'[i].session])
    <3> SUFFICES ASSUME NEW i \in 1..Len(queue')
                 PROVE  queue'[i].input <= Len(typed'[queue'[i].session])
      OBVIOUS
    <3>1. CASE i = Len(queue) + 1
      BY <1>3, <1>4, <1>5, <3>1
    <3>2. CASE i \in 1..Len(queue) /\ queue[i].session = a
      BY <1>3, <1>4, <1>8, <3>2
    <3>3. CASE i \in 1..Len(queue) /\ queue[i].session # a
      BY <1>3, <1>4, <3>3 DEF QueueInv, QueueSorted
    <3> QED
      BY <1>4, <3>1, <3>2, <3>3
  <2>2. ASSUME NEW i \in 1..Len(queue'), NEW j \in 1..Len(queue'), i < j,
               queue'[i].session = queue'[j].session
        PROVE  queue'[i].input < queue'[j].input
    <3>1. i \in 1..Len(queue)
      BY <1>4, <2>2
    <3>2. CASE j = Len(queue) + 1
      BY <1>4, <1>5, <1>8, <2>2, <3>1, <3>2
    <3>3. CASE j \in 1..Len(queue)
      BY <1>4, <2>2, <3>1, <3>3 DEF QueueInv, QueueSorted
    <3> QED
      BY <1>4, <3>2, <3>3
  <2> QED
    BY <2>1, <2>2 DEF QueueSorted
<1>10. ASSUME Reads(a)
       PROVE  QueueHolds(a)'
  <2>1. QueueHolds(a)
    BY <1>2, <1>10 DEF QueueInv
  <2>2. Len(received[a]) \in Nat /\ Len(received[a]) < n
    BY <1>2 DEF QueueInv, Numbered, n
  <2>3. ASSUME NEW i \in 1..Len(queue'), queue'[i].session = a
        PROVE  Len(received[a]) < queue'[i].input
    BY <1>4, <1>5, <2>1, <2>2, <2>3 DEF QueueHolds
  <2>4. ASSUME NEW k \in (Len(received[a]) + 1)..n
        PROVE  \E i \in 1..Len(queue') : queue'[i].session = a /\ queue'[i].input = k
    <3>1. CASE k = n
      BY <1>4, <1>5, <3>1
    <3>2. CASE k # n
      <4>1. k \in (Len(received[a]) + 1)..Len(typed[a])
        BY <1>2, <2>2, <3>2 DEF n
      <4> QED
        BY <1>4, <2>1, <4>1 DEF QueueHolds
    <3> QED
      BY <3>1, <3>2
  <2> QED
    BY <1>1, <1>3, <2>3, <2>4 DEF QueueHolds
<1> QED
  BY <1>1, <1>6, <1>7, <1>9, <1>10 DEF QueueInv, Reads

(* What the queue gives out next is the next input of its session.         *)
LEMMA QueueDispatches ==
  ASSUME QueueInv, ServerTypeOK', Dispatches
  PROVE  QueueInv'
<1> DEFINE a == activeSession
           x == Head(queue)
           given == activeSession = x.session /\ Reads(activeSession)
<1>1. /\ queue # <<>> /\ queue' = Tail(queue)
      /\ received' = IF given THEN [received EXCEPT ![a] = Append(@, x.input)] ELSE received
      /\ UNCHANGED <<typed, handler, open, broken, activeSession>>
  BY DEF Dispatches, connVars
<1>2. /\ queue \in Seq(Entry)
      /\ typed \in [Conn -> Seq(Input)] /\ received \in [Conn -> Seq(Input)]
  BY DEF QueueInv, ServerTypeOK, InputsOK
<1>3. /\ Len(queue) \in Nat \ {0} /\ Len(queue') = Len(queue) - 1
      /\ x = queue[1] /\ x.session \in Conn /\ x.input \in Input
      /\ \A i \in 1..(Len(queue) - 1) : queue'[i] = queue[i + 1]
      /\ \A i \in 1..Len(queue) : queue[i].session \in Conn /\ queue[i].input \in Nat
  <2>1. /\ Len(queue) \in Nat \ {0} /\ Len(queue') = Len(queue) - 1
        /\ x = queue[1] /\ x \in Entry
        /\ \A i \in 1..(Len(queue) - 1) : queue'[i] = queue[i + 1]
    BY <1>1, <1>2, HeadTail
  <2>2. \A i \in 1..Len(queue) : queue[i].session \in Conn /\ queue[i].input \in Nat
    BY <1>2, Entries
  <2> QED
    BY <2>1, <2>2 DEF Entry
<1> HIDE DEF x
<1>4. QueueSorted'
  <2>1. \A i \in 1..Len(queue') :
           i + 1 \in 1..Len(queue) /\ queue'[i] = queue[i + 1]
    BY <1>3
  <2>2. \A i, j \in 1..Len(queue') : i < j => i + 1 < j + 1
    BY <1>3
  <2> QED
    BY <1>1, <2>1, <2>2 DEF QueueInv, QueueSorted
<1>5. CASE ~given
  <2>1. received' = received
    BY <1>1, <1>5
  <2>2. ASSUME NEW c \in Conn, activeSession' = c, Reads(c)'
        PROVE  QueueHolds(c)'
    <3>1. QueueHolds(c) /\ x.session # c
      BY <1>1, <1>5, <2>2 DEF QueueInv, Reads
    <3>2. \A i \in 1..Len(queue') : i + 1 \in 1..Len(queue) /\ queue'[i] = queue[i + 1]
      BY <1>3
    <3>3. \A i \in 1..Len(queue) : queue[i].session = c =>
             i - 1 \in 1..Len(queue') /\ queue'[i - 1] = queue[i]
      BY <1>3, <3>1
    <3>4. \A i \in 1..Len(queue') :
             queue'[i].session = c => Len(received'[c]) < queue'[i].input
      BY <2>1, <3>1, <3>2 DEF QueueHolds
    <3>5. ASSUME NEW k \in (Len(received[c]) + 1)..Len(typed[c])
          PROVE  \E i \in 1..Len(queue') : queue'[i].session = c /\ queue'[i].input = k
      <4>1. PICK i \in 1..Len(queue) : queue[i].session = c /\ queue[i].input = k
        BY <3>1 DEF QueueHolds
      <4> QED
        BY <3>3, <4>1
    <3> QED
      BY <1>1, <2>1, <3>4, <3>5 DEF QueueHolds
  <2> QED
    BY <1>1, <1>4, <2>1, <2>2 DEF QueueInv, Numbered
<1>6. CASE given
  <2> DEFINE m == Len(received[a])
  <2>1. a \in Conn /\ x.session = a /\ QueueHolds(a)
    BY <1>3, <1>6 DEF QueueInv
  <2>2. m \in Nat /\ m < x.input /\ x.input <= Len(typed[a]) /\ Len(typed[a]) \in Nat
    BY <1>2, <1>3, <2>1 DEF QueueHolds, QueueInv, QueueSorted
  <2>3. x.input = m + 1
    <3>1. m + 1 \in (m + 1)..Len(typed[a])
      BY <1>3, <2>2 DEF Input
    <3>2. PICK i \in 1..Len(queue) : queue[i].session = a /\ queue[i].input = m + 1
      BY <2>1, <3>1 DEF QueueHolds
    <3>3. i = 1 \/ 1 < i
      BY <1>3
    <3>4. 1 < i => queue[1].input < queue[i].input
      BY <1>3, <2>1, <3>2 DEF QueueInv, QueueSorted
    <3> QED
      BY <1>3, <2>2, <3>2, <3>3, <3>4 DEF Input
  <2>4. /\ Len(received'[a]) = m + 1 /\ received'[a][m + 1] = m + 1
        /\ \A i \in 1..m : received'[a][i] = received[a][i]
        /\ \A c \in Conn \ {a} : received'[c] = received[c]
    <3>1. received'[a] = Append(received[a], x.input) /\ received[a] \in Seq(Input)
      BY <1>1, <1>2, <1>6, <2>1
    <3>2. \A c \in Conn \ {a} : received'[c] = received[c]
      BY <1>1, <1>2, <1>6, <2>1
    <3>3. /\ Len(received'[a]) = Len(received[a]) + 1
          /\ received'[a][Len(received[a]) + 1] = x.input
          /\ \A i \in 1..Len(received[a]) : received'[a][i] = received[a][i]
      BY <1>3, <3>1, Appended
    <3> QED
      BY <2>3, <3>2, <3>3
  <2> HIDE DEF m
  <2>5. Numbered'
    <3> SUFFICES ASSUME NEW c \in Conn
                 PROVE  /\ \A i \in 1..Len(typed[c]) : typed[c][i] = i
                        /\ Len(received'[c]) <= Len(typed[c])
                        /\ \A i \in 1..Len(received'[c]) : received'[c][i] = i
      BY <1>1 DEF Numbered
    <3>1. CASE c = a
      <4>1. \A i \in 1..m : received[a][i] = i
        BY <2>1 DEF QueueInv, Numbered, m
      <4>2. \A i \in 1..(m + 1) : received'[a][i] = i
        BY <2>2, <2>4, <4>1
      <4> QED
        BY <2>2, <2>3, <2>4, <3>1, <4>2 DEF QueueInv, Numbered
    <3>2. CASE c # a
      BY <2>4, <3>2 DEF QueueInv, Numbered
    <3> QED
      BY <3>1, <3>2
  <2>6. QueueHolds(a)'
    <3>1. \A i \in 1..Len(queue') : i + 1 \in 1..Len(queue) /\ queue'[i] = queue[i + 1]
      BY <1>3
    <3>2. ASSUME NEW i \in 1..Len(queue'), queue'[i].session = a
          PROVE  m + 1 < queue'[i].input
      BY <1>3, <2>1, <2>3, <3>1, <3>2 DEF QueueInv, QueueSorted
    <3>3. ASSUME NEW k \in (m + 2)..Len(typed[a])
          PROVE  \E i \in 1..Len(queue') : queue'[i].session = a /\ queue'[i].input = k
      <4>0. k \in (m + 1)..Len(typed[a])
        BY <2>2, <3>3
      <4>1. PICK i \in 1..Len(queue) : queue[i].session = a /\ queue[i].input = k
        BY <2>1, <4>0 DEF QueueHolds, m
      <4>2. i # 1
        BY <1>3, <2>2, <2>3, <3>3, <4>1
      <4>3. i - 1 \in 1..Len(queue') /\ queue'[i - 1] = queue[i]
        BY <1>3, <4>2
      <4> QED
        BY <4>1, <4>3
    <3>4. Len(received'[a]) + 1 = m + 2 /\ Len(received'[a]) = m + 1
      BY <2>2, <2>4
    <3>5. \A i \in 1..Len(queue') :
             queue'[i].session = a => Len(received'[a]) < queue'[i].input
      BY <3>2, <3>4
    <3>6. \A k \in (Len(received'[a]) + 1)..Len(typed'[a]) :
             \E i \in 1..Len(queue') : queue'[i].session = a /\ queue'[i].input = k
      BY <1>1, <3>3, <3>4
    <3> QED
      BY <1>1, <3>5, <3>6 DEF QueueHolds
  <2> QED
    BY <1>1, <1>4, <2>5, <2>6 DEF QueueInv
<1> QED
  BY <1>5, <1>6

(* RemoteInputDispatcher: what the active session received is what was     *)
(* typed for it, in order and without a gap, and the rest is queued; an    *)
(* input is never written to a session it was not typed for.               *)
THEOREM InputsStayInOrder == ServerSpec => []InputsInOrder
<1>1. ServerInit => QueueInv
  <2> SUFFICES ASSUME ServerInit
               PROVE  QueueInv
    OBVIOUS
  <2>1. /\ activeSession = NoConn /\ queue = <<>> /\ Len(queue) = 0
        /\ \A c \in Conn : typed[c] = <<>> /\ received[c] = <<>>
    BY DEF ServerInit
  <2> QED
    BY <2>1, InitTyped, Numbers DEF QueueInv, Numbered, QueueSorted
<1>2. QueueInv /\ [ServerNext]_serverVars => QueueInv'
  <2> SUFFICES ASSUME QueueInv, [ServerNext]_serverVars
               PROVE  QueueInv'
    OBVIOUS
  <2>1. ServerTypeOK'
    BY ConnsTyped, TrustsTyped, ReportsTyped, InputsTyped DEF QueueInv, ServerTypeOK
  <2> QED
    BY <2>1, InputsRest, QueueStands, QueueTypes, QueueDispatches
<1>3. QueueInv => InputsInOrder
  <2> SUFFICES ASSUME QueueInv
               PROVE  InputsInOrder
    OBVIOUS
  <2>1. /\ queue \in Seq(Entry)
        /\ typed \in [Conn -> Seq(Input)] /\ received \in [Conn -> Seq(Input)]
        /\ activeSession \in MaybeConn
    BY DEF QueueInv, ServerTypeOK, InputsOK, ConnsOK
  <2>2. ASSUME NEW c \in Conn
        PROVE  received[c] = SubSeq(typed[c], 1, Len(received[c]))
    <3>1. /\ received[c] \in Seq(Input) /\ typed[c] \in Seq(Input)
          /\ Len(received[c]) <= Len(typed[c])
          /\ \A i \in 1..Len(received[c]) : received[c][i] = typed[c][i]
      BY <2>1 DEF QueueInv, Numbered
    <3> QED
      BY <3>1
  <2>3. ASSUME activeSession # NoConn, Reads(activeSession)
        PROVE  LET mine == {i \in DOMAIN queue : queue[i].session = activeSession} IN
               /\ {queue[i].input : i \in mine} =
                     (Len(received[activeSession]) + 1)..Len(typed[activeSession])
               /\ \A i, j \in mine : i < j => queue[i].input < queue[j].input
    <3> DEFINE a == activeSession
               mine == {i \in DOMAIN queue : queue[i].session = a}
    <3>1. /\ a \in Conn /\ QueueHolds(a) /\ DOMAIN queue = 1..Len(queue)
          /\ \A i \in 1..Len(queue) : queue[i].input \in Nat
          /\ Len(received[a]) \in Nat /\ Len(typed[a]) \in Nat
      BY <2>1, <2>3, Entries DEF QueueInv, MaybeConn
    <3>2. \A i \in mine : queue[i].input \in (Len(received[a]) + 1)..Len(typed[a])
      BY <3>1 DEF QueueHolds, QueueInv, QueueSorted
    <3>3. \A k \in (Len(received[a]) + 1)..Len(typed[a]) : \E i \in mine : queue[i].input = k
      BY <3>1 DEF QueueHolds
    <3>4. \A i, j \in mine : i < j => queue[i].input < queue[j].input
      BY <3>1 DEF QueueInv, QueueSorted
    <3> QED
      BY <3>2, <3>3, <3>4
  <2> QED
    BY <2>2, <2>3 DEF InputsInOrder
<1> QED
  BY <1>1, <1>2, <1>3, PTL DEF ServerSpec
=============================================================================
