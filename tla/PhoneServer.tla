----------------------------- MODULE PhoneServer -----------------------------
(***************************************************************************)
(* The server of the phone app.  One connection at a time is accepted; its *)
(* handler pairs, or authenticates the host and serves the session with a  *)
(* status job, a call watcher and a dispatcher of remote input.  The user  *)
(* or the host may end the trust at any moment.  What one connection       *)
(* leaves behind meets the next: nobody waits for a job or a handler that  *)
(* was told to stop.                                                       *)
(*                                                                         *)
(* The exchange of a pairing is in Pairing; here it succeeds or fails.     *)
(***************************************************************************)
EXTENDS Naturals, Sequences

CONSTANTS MaxConns,  \* bound on the connections
          MaxTrusts, \* bound on the pairings
          MaxInputs  \* bound on the events of the touchpad and keyboard

ASSUME PhoneServerAssumption ==
    MaxConns \in Nat /\ MaxTrusts \in Nat \ {0} /\ MaxInputs \in Nat

Conn == 1..MaxConns
NoConn == 0
NoTrust == 0
User == MaxConns + 1
Forgetter == Conn \cup {User}

VARIABLES
    handler,       \* where the handler of a connection is
    open,          \* connections whose socket the phone has not closed
    broken,        \* connections that the host or the network has ended
    activeSocket,  \* activeSocket
    activeSession, \* activeSession, named by its connection
    trust,         \* the credential of the paired host
    trusts,        \* pairings so far
    dropped,       \* the credentials that forgetHost has dropped
    credential,    \* the credential a handler has loaded
    forgetting,    \* where a call of forgetHost is
    taken,         \* the socket it will close
    statusJob,     \* statusJob, named by its connection
    job,           \* where the status job of a connection is
    collector,     \* the job the status collector calls
    callWatcher,   \* the connection the call watcher reports to
    queue,         \* the channel of the RemoteInputDispatcher
    typed,         \* inputs made while a session was active
    received       \* inputs written to it

connVars == <<handler, open, broken, activeSocket, activeSession>>
trustVars == <<trust, trusts, dropped, credential, forgetting, taken>>
reportVars == <<statusJob, job, collector, callWatcher>>
inputVars == <<queue, typed, received>>
serverVars == <<connVars, trustVars, reportVars, inputVars>>

ServerInit ==
    /\ handler = [c \in Conn |-> "none"]
    /\ open = {}
    /\ broken = {}
    /\ activeSocket = NoConn
    /\ activeSession = NoConn
    /\ trust = 1
    /\ trusts = 1
    /\ dropped = {}
    /\ credential = [c \in Conn |-> NoTrust]
    /\ forgetting = [f \in Forgetter |-> "idle"]
    /\ taken = [f \in Forgetter |-> NoConn]
    /\ statusJob = NoConn
    /\ job = [c \in Conn |-> "none"]
    /\ collector = NoConn
    /\ callWatcher = NoConn
    /\ queue = <<>>
    /\ typed = [c \in Conn |-> <<>>]
    /\ received = [c \in Conn |-> <<>>]

Goes(c, from, to) ==
    /\ handler[c] = from
    /\ handler' = [handler EXCEPT ![c] = to]

Reads(c) == c \in open \ broken

-----------------------------------------------------------------------------
(* acceptLoop and handle *)

(* A connection that arrives while another is active is closed at once.    *)
Accept(c) ==
    /\ \A d \in 1..(c - 1) : handler[d] # "none"
    /\ \/ /\ activeSocket = NoConn
          /\ Goes(c, "none", "reading")
          /\ activeSocket' = c
          /\ open' = open \cup {c}
       \/ /\ activeSocket # NoConn
          /\ Goes(c, "none", "done")
          /\ UNCHANGED <<activeSocket, open>>
    /\ UNCHANGED <<broken, activeSession, trustVars, reportVars,
                   inputVars>>

(* The host closes the connection, or the network does.                    *)
Breaks(c) ==
    /\ c \in open \ broken
    /\ broken' = broken \cup {c}
    /\ UNCHANGED <<handler, open, activeSocket, activeSession,
                   trustVars, reportVars, inputVars>>

(* A SESSION_HELLO: the trusted peer is looked up before the challenge.    *)
LoadPeer(c) ==
    /\ Reads(c)
    /\ trust # NoTrust
    /\ Goes(c, "reading", "authenticating")
    /\ credential' = [credential EXCEPT ![c] = trust]
    /\ UNCHANGED <<open, broken, activeSocket, activeSession, trust,
                   trusts, dropped, forgetting, taken, reportVars, inputVars>>

(* A PAIR_REQUEST, up to the stored peer: a new credential.                *)
Pairs(c) ==
    /\ Reads(c)
    /\ trusts < MaxTrusts
    /\ Goes(c, "reading", "releasing")
    /\ trusts' = trusts + 1
    /\ trust' = trusts'
    /\ UNCHANGED <<open, broken, activeSocket, activeSession,
                   dropped, credential, forgetting, taken, reportVars, inputVars>>

(* An unknown host, a bad proof, a broken or a closed connection.          *)
Fails(c) ==
    /\ \/ Goes(c, "reading", "releasing")
       \/ Goes(c, "authenticating", "releasing")
    /\ UNCHANGED <<open, broken, activeSocket, activeSession,
                   trustVars, reportVars, inputVars>>

(* beginSession is done.                                                   *)
Authenticates(c) ==
    /\ Reads(c)
    /\ Goes(c, "authenticating", "begun")
    /\ UNCHANGED <<open, broken, activeSocket, activeSession,
                   trustVars, reportVars, inputVars>>

StartsSession(c) ==
    /\ Goes(c, "begun", "waiting")
    /\ activeSession' = c
    /\ UNCHANGED <<open, broken, activeSocket, trustVars, reportVars,
                   inputVars>>

-----------------------------------------------------------------------------
(* runSession *)

(* What becomes of the jobs when one is cancelled: its last step follows.  *)
Cancel(c) ==
    [d \in Conn |-> IF d # c THEN job[d]
                    ELSE IF job[d] = "launched" THEN "over"
                    ELSE IF job[d] = "watching" THEN "stopping"
                    ELSE job[d]]

(* The SESSION_READY of the host: onReady starts the reports and the call  *)
(* watcher.                                                                *)
StartsReports(c) ==
    /\ Reads(c)
    /\ Goes(c, "waiting", "reporting")
    /\ job' = [Cancel(statusJob) EXCEPT ![c] = "launched"]
    /\ statusJob' = c
    /\ UNCHANGED <<open, broken, activeSocket, activeSession,
                   trustVars, collector, callWatcher, inputVars>>

StartsCallWatcher(c) ==
    /\ Goes(c, "reporting", "serving")
    /\ callWatcher' = c
    /\ UNCHANGED <<open, broken, activeSocket, activeSession,
                   trustVars, statusJob, job, collector, inputVars>>

(* The reader meets the end of the connection, or finds the socket closed  *)
(* before it reads again.                                                  *)
LeavesSession(c) ==
    /\ c \in broken \/ c \notin open
    /\ \/ Goes(c, "waiting", "cleaning")
       \/ Goes(c, "serving", "cleaning")
    /\ UNCHANGED <<open, broken, activeSocket, activeSession, trustVars,
                   reportVars, inputVars>>

(* The host's UNPAIR: the handler calls forgetHost itself and returns.     *)
HostUnpairs(c) ==
    /\ Reads(c)
    /\ Goes(c, "serving", "unpairing")
    /\ forgetting' = [forgetting EXCEPT ![c] = "begun"]
    /\ UNCHANGED <<open, broken, activeSocket, activeSession, trust,
                   trusts, dropped, credential, taken, reportVars, inputVars>>

ReturnsFromUnpair(c) ==
    /\ forgetting[c] = "idle"
    /\ Goes(c, "unpairing", "cleaning")
    /\ UNCHANGED <<open, broken, activeSocket, activeSession,
                   trustVars, reportVars, inputVars>>

(* The finally of handleSession: whatever job and watcher run by now end,  *)
StopsJobs(c) ==
    /\ Goes(c, "cleaning", "clearing")
    /\ job' = Cancel(statusJob)
    /\ callWatcher' = NoConn
    /\ UNCHANGED <<open, broken, activeSocket, activeSession,
                   trustVars, statusJob, collector, inputVars>>

(* and the session is no longer the active one.                            *)
ClearsSession(c) ==
    /\ Goes(c, "clearing", "releasing")
    /\ activeSession' = IF activeSession = c THEN NoConn ELSE activeSession
    /\ UNCHANGED <<open, broken, activeSocket, trustVars, reportVars,
                   inputVars>>

(* A finally that does not ask whose socket is active.                     *)
ReleasesAny(c) ==
    /\ Goes(c, "releasing", "closing")
    /\ activeSocket' = NoConn
    /\ UNCHANGED <<open, broken, activeSession, trustVars, reportVars,
                   inputVars>>

(* A finally that releases a connected socket only.                        *)
ReleasesConnected(c) ==
    /\ Goes(c, "releasing", "closing")
    /\ activeSocket' = IF activeSocket = c /\ Reads(c) THEN NoConn
                       ELSE activeSocket
    /\ UNCHANGED <<open, broken, activeSession, trustVars, reportVars,
                   inputVars>>

(* The finally of handle: the server is free for the next connection.      *)
Releases(c) ==
    /\ Goes(c, "releasing", "closing")
    /\ activeSocket' = IF activeSocket = c THEN NoConn ELSE activeSocket
    /\ UNCHANGED <<open, broken, activeSession, trustVars, reportVars,
                   inputVars>>

ClosesSocket(c) ==
    /\ Goes(c, "closing", "done")
    /\ open' = open \ {c}
    /\ broken' = broken \ {c}
    /\ credential' = [credential EXCEPT ![c] = NoTrust]
    /\ UNCHANGED <<activeSocket, activeSession, trust, trusts, dropped, forgetting,
                   taken, reportVars, inputVars>>

-----------------------------------------------------------------------------
(* forgetHost, by the user's unpair or by the handler of the host's UNPAIR *)

UserUnpairs ==
    /\ forgetting[User] = "idle"
    /\ trust # NoTrust
    /\ forgetting' = [forgetting EXCEPT ![User] = "begun"]
    /\ UNCHANGED <<connVars, trust, trusts, dropped, credential, taken, reportVars,
                   inputVars>>

ForgetsPeers(f) ==
    /\ forgetting[f] = "begun"
    /\ forgetting' = [forgetting EXCEPT ![f] = "forgotten"]
    /\ trust' = NoTrust
    /\ dropped' = dropped \cup ({trust} \ {NoTrust})
    /\ UNCHANGED <<connVars, trusts, credential, taken, reportVars,
                   inputVars>>

(* A forgetHost that only closes the session.                              *)
TakesNoSocket(f) ==
    /\ forgetting[f] = "forgotten"
    /\ forgetting' = [forgetting EXCEPT ![f] = "closing"]
    /\ open' = open \ {activeSession}
    /\ activeSession' = NoConn
    /\ UNCHANGED <<handler, broken, activeSocket, trust, trusts, dropped, credential,
                   taken, reportVars, inputVars>>

(* Under the lock: the session is closed, the socket is taken.             *)
TakesSocket(f) ==
    /\ forgetting[f] = "forgotten"
    /\ forgetting' = [forgetting EXCEPT ![f] = "closing"]
    /\ open' = open \ {activeSession}
    /\ activeSession' = NoConn
    /\ taken' = [taken EXCEPT ![f] = activeSocket]
    /\ activeSocket' = NoConn
    /\ UNCHANGED <<handler, broken, trust, trusts, dropped, credential,
                   reportVars, inputVars>>

ClosesTaken(f) ==
    /\ forgetting[f] = "closing"
    /\ forgetting' = [forgetting EXCEPT ![f] = "idle"]
    /\ open' = open \ {taken[f]}
    /\ taken' = [taken EXCEPT ![f] = NoConn]
    /\ UNCHANGED <<handler, broken, activeSocket, activeSession, trust,
                   trusts, dropped, credential, reportVars, inputVars>>

-----------------------------------------------------------------------------
(* The status job *)

JobStep(c, from, to) ==
    /\ job[c] = from
    /\ job' = [job EXCEPT ![c] = to]
    /\ UNCHANGED <<connVars, trustVars, statusJob, callWatcher,
                   inputVars>>

(* The start of the collector ends the one before.                         *)
JobStarts(c) ==
    /\ JobStep(c, "launched", "watching")
    /\ collector' = c

(* The socket is closed, or a report could not be written.                 *)
JobLeaves(c) ==
    /\ c \in broken \/ c \notin open
    /\ JobStep(c, "watching", "stopping")
    /\ UNCHANGED collector

JobEnds(c) ==
    /\ JobStep(c, "stopping", "over")
    /\ collector' = NoConn

-----------------------------------------------------------------------------
(* The RemoteInputDispatcher *)

(* A dispatcher with a queue for one input.                                *)
UserTypesAhead ==
    LET input == Len(typed[activeSession]) + 1 IN
    /\ activeSession # NoConn
    /\ input <= MaxInputs
    /\ typed' = [typed EXCEPT ![activeSession] = Append(@, input)]
    /\ queue' = <<[session |-> activeSession, input |-> input]>>
    /\ UNCHANGED <<received, connVars, trustVars, reportVars>>

UserTypes ==
    LET input == Len(typed[activeSession]) + 1 IN
    /\ activeSession # NoConn
    /\ input <= MaxInputs
    /\ typed' = [typed EXCEPT ![activeSession] = Append(@, input)]
    /\ queue' = Append(queue, [session |-> activeSession, input |-> input])
    /\ UNCHANGED <<received, connVars, trustVars, reportVars>>

Dispatches ==
    LET next == Head(queue) IN
    /\ queue # <<>>
    /\ queue' = Tail(queue)
    /\ received' = IF activeSession = next.session /\ Reads(activeSession)
                   THEN [received EXCEPT ![activeSession] =
                                             Append(@, next.input)]
                   ELSE received
    /\ UNCHANGED <<typed, connVars, trustVars, reportVars>>

-----------------------------------------------------------------------------

(* What the phone does by itself.                                          *)
HandlerStep(c) ==
    \/ Fails(c) \/ StartsSession(c) \/ StartsCallWatcher(c)
    \/ LeavesSession(c) \/ ReturnsFromUnpair(c)
    \/ StopsJobs(c) \/ ClearsSession(c) \/ Releases(c)
    \/ ClosesSocket(c)

ForgetStep(f) == ForgetsPeers(f) \/ TakesSocket(f) \/ ClosesTaken(f)

JobOwnStep(c) == JobStarts(c) \/ JobLeaves(c) \/ JobEnds(c)

ServerNext ==
    \/ \E c \in Conn :
          \/ Accept(c) \/ Breaks(c) \/ LoadPeer(c) \/ Pairs(c)
          \/ Authenticates(c) \/ StartsReports(c) \/ HostUnpairs(c)
          \/ HandlerStep(c) \/ JobOwnStep(c)
    \/ UserUnpairs
    \/ \E f \in Forgetter : ForgetStep(f)
    \/ UserTypes \/ Dispatches

PhoneStep ==
    \/ \E c \in Conn : HandlerStep(c) \/ JobOwnStep(c)
    \/ \E f \in Forgetter : ForgetStep(f)

(* Coroutines of the phone run on, and reads of a closed or broken socket  *)
(* return.  One condition for all is enough: each makes a few steps        *)
(* between two events from outside.                                        *)
ServerFairness == WF_serverVars(PhoneStep)

ServerSpec == ServerInit /\ [][ServerNext]_serverVars /\ ServerFairness

-----------------------------------------------------------------------------
(* Properties *)

(* "If a session is open the computer is told first ...; trust is dropped  *)
(* locally either way": no connection that has authenticated with a        *)
(* credential stays open after forgetHost has dropped it, whatever the     *)
(* handler was doing, but for the calls that are about to close it.        *)
ForgottenHostIsGone ==
    \A c \in open :
        \/ credential[c] \notin dropped
        \/ \E f \in Forgetter : forgetting[f] \in {"forgotten", "closing"}
        \/ handler[c] \in {"releasing", "closing"}

(* One connection at a time: an accepted socket is the active one until    *)
(* its handler or forgetHost closes it, though handlers of connections     *)
(* that forgetHost has closed still run.                                   *)
OneConnection ==
    \A c \in open :
        \/ activeSocket = c
        \/ handler[c] = "closing"
        \/ \E f \in Forgetter : taken[f] = c

(* "don't use a dropping bounded channel here because it could drop a      *)
(* button/key release": the active session receives what was typed for it, *)
(* all of it and in order, and nothing that was typed for another.         *)
InputsInOrder ==
    /\ \A c \in Conn : received[c] = SubSeq(typed[c], 1, Len(received[c]))
    /\ activeSession # NoConn /\ Reads(activeSession) =>
          LET mine == {i \in DOMAIN queue : queue[i].session = activeSession} IN
          /\ {queue[i].input : i \in mine} =
                (Len(received[activeSession]) + 1)..Len(typed[activeSession])
          /\ \A i, j \in mine : i < j => queue[i].input < queue[j].input

(* However a connection ends, the server accepts another one: a socket     *)
(* that is broken or closed does not stay the active one, and its status   *)
(* job ends and is not called any more.                                    *)
ServerFreed ==
    []<>(\A c \in Conn : ~Reads(c) =>
            /\ activeSocket # c
            /\ job[c] \in {"none", "over"}
            /\ collector # c)

(* "A replacement connection may already be active when an older session   *)
(* finishes. Do not let the old cleanup erase it.": the end of a handler   *)
(* leaves alone the status job and the call watcher of another session     *)
(* that is served.                                                         *)
ReplacementKept ==
    [][\A c, d \in Conn :
          /\ handler[c] = "cleaning" /\ handler'[c] = "clearing"
          /\ handler[d] = "serving" /\ d \in open
          => job'[d] = job[d] /\ callWatcher' = callWatcher]_serverVars
=============================================================================
