------------------------------- MODULE Mpris --------------------------------
(***************************************************************************)
(* The media players of the host: MPRISService keeps a cache of the        *)
(* players on the session bus, an active player and a position ticker.     *)
(* Signals and queries of the bus reach it at different times.             *)
(*                                                                         *)
(* Of a player the model keeps its playback status and the unique name of  *)
(* its connection (owner); the other properties travel the same way.       *)
(***************************************************************************)
EXTENDS Naturals, Sequences

CONSTANTS Player,        \* bus names, ordered like the numbers they are
          Controllable,  \* the players with CanControl
          MaxChanges     \* bound on what players and users do

ASSUME MprisAssumption ==
    /\ Player \subseteq Nat \ {0}
    /\ Controllable \subseteq Player
    /\ MaxChanges \in Nat

NoPlayer == 0
Gone == [status |-> "gone", owner |-> 0]
NoUpdate == <<NoPlayer, "gone">>

VARIABLES
    bus,        \* the players as they are
    signals,    \* signals on their way to the monitor
    cache,      \* s.players
    active,     \* s.activePlayer
    pinned,     \* s.pinnedPlayer
    ticker,     \* the player whose position ticker runs
    lifecycle,  \* "starting", "up", "stopping" or "down"
    monitor,    \* where the monitor is: in a refresh, in a signal, idle
    asked,      \* the names a refresh has still to query
    found,      \* what it has collected
    update,     \* the player and status of a PropertiesChanged
    missed,     \* players the cache may be wrong about: a query failed
    changes     \* what players and users have done

mprisEnv == <<bus, signals, changes>>
mprisCache == <<cache, active, pinned, ticker>>
mprisMonitor == <<lifecycle, monitor, asked, found, update, missed>>
mprisVars == <<mprisEnv, mprisCache, mprisMonitor>>

Names(c) == {p \in Player : c[p] # Gone}
Playing(c) == {p \in Player : c[p].status = "Playing"}
First(S) == CHOOSE p \in S : \A q \in S : p <= q

MprisInit ==
    /\ bus = [p \in Player |-> Gone]
    /\ signals = <<>>
    /\ cache = bus
    /\ active = NoPlayer
    /\ pinned = NoPlayer
    /\ ticker = NoPlayer
    /\ lifecycle = "starting"
    /\ monitor = "list"
    /\ asked = {}
    /\ found = bus
    /\ update = NoUpdate
    /\ missed = {}
    /\ changes = 0

MprisHappens ==
    /\ changes < MaxChanges
    /\ changes' = changes + 1

-----------------------------------------------------------------------------
(* The players *)

Signalled(kind, p, owner, status) ==
    signals' = IF lifecycle \in {"starting", "up"}
               THEN Append(signals, [kind |-> kind, player |-> p,
                                     owner |-> owner, status |-> status])
               ELSE signals

Changes(p, now) ==
    /\ MprisHappens
    /\ bus' = [bus EXCEPT ![p] = now]
    /\ UNCHANGED <<mprisCache, mprisMonitor>>

PlayerAppears(p, status) ==
    /\ bus[p] = Gone
    /\ Changes(p, [status |-> status, owner |-> changes + 1])
    /\ Signalled("owner", p, 0, "gone")

PlayerLeaves(p) ==
    /\ bus[p] # Gone
    /\ Changes(p, Gone)
    /\ Signalled("owner", p, 0, "gone")

(* The signal carries the new status or only says that it is invalid.      *)
PlayerChanges(p, kind) ==
    LET status == IF bus[p].status = "Playing" THEN "Paused" ELSE "Playing" IN
    /\ bus[p] # Gone
    /\ Changes(p, [bus[p] EXCEPT !.status = status])
    /\ Signalled(kind, p, bus[p].owner, status)

(* PlayPause and its like: a player the cache holds is called by its name, *)
(* whoever owns it now.                                                    *)
ControlPlayer(p) ==
    /\ lifecycle = "up"
    /\ p \in Names(cache) \cap Controllable
    /\ PlayerChanges(p, "changed")

-----------------------------------------------------------------------------
(* The cache *)

PinAfter(c, pin) == IF pin \in Names(c) THEN pin ELSE NoPlayer

(* A choice that stays with the previous player as long as it exists.      *)
StaysWithPrevious(c, previous, pin) ==
    IF pin \in Names(c) THEN pin
    ELSE IF previous \in Names(c) THEN previous
    ELSE IF Names(c) # {} THEN First(Names(c))
    ELSE NoPlayer

(* updateActivePlayerLocked: the pinned player, one that plays, the        *)
(* previous one, one that can be controlled, any.                          *)
ActiveAfter(c, previous, pin) ==
    LET candidates == <<{pin} \cap Names(c),
                        {previous} \cap Playing(c),
                        Playing(c) \cap Controllable,
                        {previous} \cap Names(c),
                        Names(c) \cap Controllable,
                        Names(c)>>
        wins(i) == candidates[i] # {} /\ \A j \in 1..(i - 1) : candidates[j] = {}
    IN IF Names(c) = {} THEN NoPlayer
       ELSE First(candidates[CHOOSE i \in 1..6 : wins(i)])

(* syncPositionTickerLocked.                                               *)
TickerFor(c, a) ==
    IF a \in Playing(c) /\ lifecycle \in {"starting", "up"} THEN a ELSE NoPlayer

Settle(c, pin) ==
    /\ cache' = c
    /\ pinned' = PinAfter(c, pin)
    /\ active' = ActiveAfter(c, active, pin)
    /\ ticker' = TickerFor(c, active')

-----------------------------------------------------------------------------
(* The monitor *)

(* refreshPlayers: ListNames, then the queries of each name, without a     *)
(* lock; then the cache is replaced.  The refresh of Start comes first.    *)
ListNames ==
    /\ monitor = "list"
    /\ asked' = Names(bus)
    /\ missed' = {}
    /\ monitor' = "ask"
    /\ UNCHANGED <<mprisEnv, mprisCache, lifecycle, found, update>>

(* The bus gives no list of names: the monitor drops the error and keeps   *)
(* its cache.  Which players came, left or changed hands before it asked   *)
(* it does not learn until the next such signal.                           *)
ListFails ==
    /\ monitor = "list"
    /\ lifecycle \in {"up", "stopping"}
    /\ monitor' = "idle"
    /\ missed' = missed \cup {p \in Player : cache[p].owner # bus[p].owner}
    /\ UNCHANGED <<mprisEnv, mprisCache, lifecycle, asked, found, update>>

(* GetAll fails for a player that has left, and for one that has taken its *)
(* name but does not answer yet; GetNameOwner may fail after it.           *)
QueryPlayer(p) ==
    /\ monitor = "ask"
    /\ p \in asked
    /\ asked' = asked \ {p}
    /\ \/ found' = [found EXCEPT ![p] = bus[p]] /\ UNCHANGED missed
       \/ /\ bus[p] # Gone
          /\ missed' = missed \cup {p}
          /\ found' \in {found, [found EXCEPT ![p] = [bus[p] EXCEPT !.owner = 0]]}
    /\ UNCHANGED <<mprisEnv, mprisCache, lifecycle, monitor, update>>

EndRefresh(c) ==
    /\ monitor = "ask"
    /\ asked = {}
    /\ Settle(c, pinned)
    /\ found' = [p \in Player |-> Gone]
    /\ monitor' = "idle"
    /\ lifecycle' = IF lifecycle = "starting" THEN "up" ELSE lifecycle
    /\ UNCHANGED <<mprisEnv, asked, update, missed>>

(* A refresh that only adds what it found.                                 *)
AddFound ==
    EndRefresh([p \in Player |-> IF found[p] = Gone THEN cache[p] ELSE found[p]])

ReplaceCache == EndRefresh(found)

(* Start returns an error: no bus, no match, no list of names.             *)
StartFails ==
    /\ lifecycle = "starting"
    /\ monitor = "list"
    /\ lifecycle' = "down"
    /\ monitor' = "exited"
    /\ UNCHANGED <<mprisEnv, mprisCache, asked, found, update, missed>>

(* The monitor takes a signal.  PropertiesChanged comes from a unique name *)
(* and is dropped when no cached player has it.                            *)
TakeSignal ==
    LET s == Head(signals)
        known == cache[s.player].owner = s.owner IN
    /\ monitor = "idle"
    /\ signals # <<>>
    /\ signals' = Tail(signals)
    /\ monitor' = IF s.kind = "owner" THEN "list"
                  ELSE IF ~known THEN "idle"
                  ELSE IF s.kind = "changed" THEN "apply" ELSE "fetch"
    /\ update' = IF monitor' \in {"apply", "fetch"}
                 THEN <<s.player, s.status>> ELSE update
    /\ UNCHANGED <<bus, changes, mprisCache, lifecycle, asked, found, missed>>

(* fetchInvalidatedProperties: Get answers with the status of now, or not  *)
(* at all.                                                                 *)
FetchInvalidated ==
    LET p == update[1] IN
    /\ monitor = "fetch"
    /\ monitor' = "apply"
    /\ \/ bus[p] # Gone /\ update' = <<p, bus[p].status>> /\ UNCHANGED missed
       \/ update' = <<p, cache[p].status>> /\ missed' = missed \cup {p}
    /\ UNCHANGED <<mprisEnv, mprisCache, lifecycle, asked, found>>

(* applyMPRISUpdate, for the property that is followed.                    *)
Updated(c, p, status) == [c EXCEPT ![p].status = status]

ApplyUpdate ==
    /\ monitor = "apply"
    /\ Settle(Updated(cache, update[1], update[2]), pinned)
    /\ monitor' = "idle"
    /\ update' = NoUpdate
    /\ UNCHANGED <<mprisEnv, lifecycle, asked, found, missed>>

-----------------------------------------------------------------------------
(* Selections, from the control socket or from the phone *)

SetActivePlayer(p) ==
    /\ MprisHappens
    /\ lifecycle \in {"up", "stopping"}
    /\ p \in Names(cache)
    /\ active' = p
    /\ pinned' = p
    /\ ticker' = TickerFor(cache, p)
    /\ UNCHANGED <<bus, signals, cache, mprisMonitor>>

UseAutomaticPlayer ==
    /\ MprisHappens
    /\ lifecycle \in {"up", "stopping"}
    /\ Settle(cache, NoPlayer)
    /\ UNCHANGED <<bus, signals, mprisMonitor>>

-----------------------------------------------------------------------------
(* The end of the service *)

StopMpris ==
    /\ lifecycle = "up"
    /\ lifecycle' = "stopping"
    /\ ticker' = NoPlayer
    /\ signals' = <<>>
    /\ UNCHANGED <<bus, changes, cache, active, pinned, monitor, asked, found,
                   update, missed>>

MonitorExits ==
    /\ lifecycle = "stopping"
    /\ monitor = "idle"
    /\ monitor' = "exited"
    /\ UNCHANGED <<mprisEnv, mprisCache, lifecycle, asked, found, update, missed>>

(* The goroutines are gone; the cache is emptied.                          *)
StopEnds ==
    /\ lifecycle = "stopping"
    /\ monitor = "exited"
    /\ lifecycle' = "down"
    /\ cache' = [p \in Player |-> Gone]
    /\ active' = NoPlayer
    /\ pinned' = NoPlayer
    /\ UNCHANGED <<mprisEnv, ticker, monitor, asked, found, update, missed>>

PlayerStep ==
    \E p \in Player :
        \/ \E status \in {"Playing", "Paused"} : PlayerAppears(p, status)
        \/ PlayerLeaves(p)
        \/ \E kind \in {"changed", "invalidated"} : PlayerChanges(p, kind)
        \/ ControlPlayer(p)

MonitorStep ==
    \/ ListNames \/ ListFails \/ ReplaceCache
    \/ TakeSignal \/ FetchInvalidated \/ ApplyUpdate
    \/ \E p \in Player : QueryPlayer(p)

MprisNext ==
    \/ PlayerStep
    \/ MonitorStep
    \/ \E p \in Player : SetActivePlayer(p)
    \/ UseAutomaticPlayer
    \/ StartFails \/ StopMpris \/ MonitorExits \/ StopEnds

MprisSpec == MprisInit /\ [][MprisNext]_mprisVars

-----------------------------------------------------------------------------
(* Properties *)

(* When the monitor has nothing left to do the cache is the bus: stale     *)
(* signals that were queued before a refresh, signals of an earlier owner  *)
(* of a name and players that left during discovery are all made good by   *)
(* what follows them.  Only players that did not answer when the monitor   *)
(* asked may be wrong, and those whose coming or going made the monitor    *)
(* ask the bus for a list it did not get.                                  *)
CacheCatchesUp ==
    lifecycle = "up" /\ monitor = "idle" /\ signals = <<>> =>
        \A p \in Player \ missed : cache[p] = bus[p]

(* The active player is the user's choice as long as it exists, exists as  *)
(* long as any player does, and plays if any controllable player plays.    *)
ActiveIsRight ==
    /\ pinned # NoPlayer => active = pinned
    /\ active \in Names(cache) \cup {NoPlayer}
    /\ active = NoPlayer => Names(cache) = {}
    /\ pinned = NoPlayer /\ Playing(cache) \cap Controllable # {} =>
           active \in Playing(cache)

(* Exactly one ticker runs while the active player plays, and none once    *)
(* Stop has begun: Stop would otherwise wait for it for ever.              *)
TickerFollowsActive ==
    ticker = IF lifecycle \in {"starting", "up"} /\ active \in Playing(cache)
             THEN active ELSE NoPlayer
=============================================================================
