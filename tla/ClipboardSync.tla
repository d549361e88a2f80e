--------------------------- MODULE ClipboardSync ----------------------------
(***************************************************************************)
(* The clipboard of the host and of a phone.  ClipboardService watches the *)
(* host's clipboard and pushes what changes; content that comes from the   *)
(* phone is remembered first, so that the watcher does not send it back.   *)
(* Starting and stopping the service are commands of the control socket;   *)
(* each start has a worker and a channel the worker closes when it ends.   *)
(***************************************************************************)
EXTENDS Naturals, Sequences

CONSTANTS Content,   \* what can be copied
          MaxStarts, \* bound on the starts of the service
          MaxCopies  \* bound on the copies

ASSUME ClipboardAssumption == MaxStarts \in Nat /\ MaxCopies \in Nat

Start == 1..MaxStarts
NoStart == 0
NoContent == "empty"

VARIABLES
    remembered, \* c.Clipboard
    incoming,   \* the copy a session is about to write to the clipboard
    copied,     \* copies on their way to each worker
    pushed,     \* the copy each worker pushes
    worker,     \* "none", "created", "waiting", "pushing" or "exited"
    deferred,   \* the channel each worker closes when it ends
    done,       \* c.done, and whether the service is started
    cancelled,  \* starts whose context is cancelled
    closed,     \* channels that are closed
    stopping,   \* starts a Stop waits for
    panicked,   \* a channel was closed that must not be: the daemon is gone
    copies      \* copies so far

clipService == <<done, cancelled, stopping>>
clipVars == <<remembered, incoming, copied, pushed, worker, deferred, clipService,
              closed, panicked, copies>>

NoCopy == [content |-> NoContent, fresh |-> FALSE]

ClipInit ==
    /\ remembered = NoContent
    /\ incoming = NoCopy
    /\ copied = [n \in Start |-> <<>>]
    /\ pushed = [n \in Start |-> NoCopy]
    /\ worker = [n \in Start |-> "none"]
    /\ deferred = [n \in Start |-> NoStart]
    /\ done = NoStart
    /\ cancelled = {}
    /\ closed = {}
    /\ stopping = {}
    /\ panicked = FALSE
    /\ copies = 0

Copies ==
    /\ ~panicked
    /\ copies < MaxCopies
    /\ copies' = copies + 1

-----------------------------------------------------------------------------
(* Copies.  One that came from the phone is fresh as long as the service   *)
(* has remembered no other content.                                        *)

Watched(copy) ==
    [n \in Start |->
        IF worker[n] \in {"created", "waiting", "pushing"} /\ n \notin cancelled
        THEN Append(copied[n], copy)
        ELSE copied[n]]

Stale(copy, c) == [copy EXCEPT !.fresh = @ /\ copy.content = c]

Remembers(c) ==
    /\ remembered' = c
    /\ copied' = [n \in Start |-> [i \in 1..Len(copied[n]) |-> Stale(copied[n][i], c)]]

HostCopies(c) ==
    /\ Copies
    /\ copied' = Watched([content |-> c, fresh |-> FALSE])
    /\ UNCHANGED <<remembered, incoming, pushed, worker, deferred, clipService,
                   closed, panicked>>

(* A handler of the session that forgets RememberContent.                  *)
PhoneCopiesOnly(c) ==
    /\ Copies
    /\ \E n \in Start : worker[n] # "none"
    /\ incoming = NoCopy
    /\ incoming' = [content |-> c, fresh |-> TRUE]
    /\ UNCHANGED <<remembered, copied, pushed, worker, deferred, clipService,
                   closed, panicked>>

(* The handler of the session: RememberContent, then the write, which may  *)
(* fail.  It is ready once the service was started, also after a Stop.     *)
PhoneCopies(c) ==
    /\ Copies
    /\ \E n \in Start : worker[n] # "none"
    /\ incoming = NoCopy
    /\ incoming' = [content |-> c, fresh |-> TRUE]
    /\ Remembers(c)
    /\ UNCHANGED <<pushed, worker, deferred, clipService, closed, panicked>>

WritesIncoming ==
    /\ ~panicked
    /\ incoming # NoCopy
    /\ incoming' = NoCopy
    /\ \/ copied' = Watched(incoming)
       \/ UNCHANGED copied
    /\ UNCHANGED <<remembered, pushed, worker, deferred, clipService, closed,
                   panicked, copies>>

-----------------------------------------------------------------------------
(* The workers *)

StartClipboardService(n) ==
    /\ ~panicked
    /\ done = NoStart
    /\ \A m \in Start : worker[m] = "none" <=> m >= n
    /\ done' = n
    /\ worker' = [worker EXCEPT ![n] = "created"]
    /\ UNCHANGED <<remembered, incoming, copied, pushed, deferred, cancelled,
                   closed, stopping, panicked, copies>>

(* The goroutine runs: "defer close(c.done)" reads c.done only now.        *)
WorkerBegins(n) ==
    /\ ~panicked
    /\ worker[n] = "created"
    /\ worker' = [worker EXCEPT ![n] = "waiting"]
    /\ deferred' = [deferred EXCEPT ![n] = done]
    /\ UNCHANGED <<remembered, incoming, copied, pushed, clipService, closed,
                   panicked, copies>>

(* PushClipboardContent: what is remembered already is not pushed.  What   *)
(* is too large is refused like the rest of what never leaves the host.    *)
WorkerTakes(n) ==
    LET copy == Head(copied[n]) IN
    /\ ~panicked
    /\ worker[n] = "waiting"
    /\ copied[n] # <<>>
    /\ IF copy.content = remembered
       THEN /\ copied' = [copied EXCEPT ![n] = Tail(@)]
            /\ UNCHANGED <<remembered, incoming, pushed, worker>>
       ELSE /\ remembered' = copy.content
            /\ incoming' = Stale(incoming, copy.content)
            /\ copied' = [m \in Start |->
                   LET rest == IF m = n THEN Tail(copied[m]) ELSE copied[m] IN
                   [i \in 1..Len(rest) |-> Stale(rest[i], copy.content)]]
            /\ pushed' = [pushed EXCEPT ![n] = copy]
            /\ worker' = [worker EXCEPT ![n] = "pushing"]
    /\ UNCHANGED <<deferred, clipService, closed, panicked, copies>>

(* The phones have answered, or the push has failed.                       *)
WorkerHasPushed(n) ==
    /\ ~panicked
    /\ worker[n] = "pushing"
    /\ worker' = [worker EXCEPT ![n] = "waiting"]
    /\ pushed' = [pushed EXCEPT ![n] = NoCopy]
    /\ UNCHANGED <<remembered, incoming, copied, deferred, clipService, closed,
                   panicked, copies>>

(* Closing no channel, or one that is closed, panics.                      *)
WorkerExits(n) ==
    /\ ~panicked
    /\ worker[n] = "waiting"
    /\ n \in cancelled
    /\ worker' = [worker EXCEPT ![n] = "exited"]
    /\ copied' = [copied EXCEPT ![n] = <<>>]
    /\ closed' = closed \cup {deferred[n]}
    /\ panicked' = (deferred[n] \in closed \cup {NoStart})
    /\ UNCHANGED <<remembered, incoming, pushed, deferred, clipService, copies>>

-----------------------------------------------------------------------------
(* StopClipboardService *)

StopBegins ==
    /\ ~panicked
    /\ done # NoStart
    /\ done' = NoStart
    /\ cancelled' = cancelled \cup {done}
    /\ stopping' = stopping \cup {done}
    /\ UNCHANGED <<remembered, incoming, copied, pushed, worker, deferred,
                   closed, panicked, copies>>

(* A Stop that does not wait for the worker.                               *)
StopsAtOnce(n) ==
    /\ ~panicked
    /\ n \in stopping
    /\ stopping' = stopping \ {n}
    /\ UNCHANGED <<remembered, incoming, copied, pushed, worker, deferred, done,
                   cancelled, closed, panicked, copies>>

StopReturns(n) ==
    /\ ~panicked
    /\ n \in stopping
    /\ n \in closed
    /\ stopping' = stopping \ {n}
    /\ UNCHANGED <<remembered, incoming, copied, pushed, worker, deferred, done,
                   cancelled, closed, panicked, copies>>

WorkerStep(n) ==
    \/ WorkerBegins(n) \/ WorkerTakes(n) \/ WorkerHasPushed(n) \/ WorkerExits(n)

ClipNext ==
    \/ \E c \in Content : HostCopies(c) \/ PhoneCopies(c)
    \/ WritesIncoming
    \/ \E n \in Start : StartClipboardService(n) \/ WorkerStep(n) \/ StopReturns(n)
    \/ StopBegins

ClipSpec == ClipInit /\ [][ClipNext]_clipVars

-----------------------------------------------------------------------------
(* Properties *)

(* "so the local clipboard watcher does not immediately echo that same     *)
(* content back": what the phone sent is pushed to it again only if the    *)
(* service remembered other content in between.                            *)
NoClipboardEcho == \A n \in Start : ~pushed[n].fresh

(* When Stop has returned its worker is gone and pushes nothing more,      *)
(* unless a worker read c.done after its own start was stopped and another *)
(* begun, and closed the wrong channel.                                    *)
StopMeansQuiet ==
    \A n \in cancelled \ stopping :
        worker[n] = "exited" \/ \E m \in Start \ {n} : deferred[m] = n
=============================================================================
