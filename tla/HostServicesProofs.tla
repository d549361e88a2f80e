------------------------- MODULE HostServicesProofs -------------------------
(***************************************************************************)
(* Proofs about the services of the host beside the sessions, each for any *)
(* number of phones, players, outputs and steps: Discovery, CallMute,      *)
(* Mpris, MediaRelay and ClipboardSync.  They share no state, so each      *)
(* theorem speaks of one of them.                                          *)
(***************************************************************************)
EXTENDS Discovery, CallMute, Mpris, MediaRelay, ClipboardSync, TLAPS,
        WellFoundedInduction

-----------------------------------------------------------------------------
(* Discovery: nobody sleeps through the announcement it waits for *)

(* Channels belong to generations that exist, and a session that waits     *)
(* cannot have missed the phone.                                           *)
WakeInv ==
    /\ generation \in Nat
    /\ finder \in [Finder -> {"look", "wait", "dial", "session", "forget"}]
    /\ waitsFor \in [Finder -> Nat]
    /\ \A f \in Finder : waitsFor[f] <= generation
    /\ NoLostWakeup

LEMMA WakeInit == DiscoveryInit => WakeInv
<1> SUFFICES ASSUME DiscoveryInit PROVE WakeInv
  OBVIOUS
<1>1. /\ finder = [f \in Finder |-> "look"]
      /\ waitsFor = [f \in Finder |-> 0]
      /\ generation = 0
  BY DEF DiscoveryInit
<1> QED
  BY <1>1 DEF WakeInv, NoLostWakeup

(* What only raises the generation, or leaves it, and neither learns the   *)
(* phone's address nor takes the broadcast back, wakes everybody it must.  *)
LEMMA QuietKeepsWakeInv ==
  ASSUME WakeInv,
         UNCHANGED <<finder, waitsFor>>,
         generation' \in {generation, generation + 1},
         seen' # NoAddress =>
             \/ generation' = generation + 1
             \/ seen # NoAddress /\ (learning.step = "broadcast" => learning' = learning)
             \/ learning'.step = "broadcast"
  PROVE  WakeInv'
<1>1. generation' \in Nat /\ generation <= generation'
  BY DEF WakeInv
<1>2. \A f \in Finder : waitsFor'[f] <= generation'
  BY <1>1 DEF WakeInv
<1>3. NoLostWakeup'
  <2> SUFFICES ASSUME NEW f \in Finder, finder[f] = "wait", seen' # NoAddress
               PROVE  waitsFor[f] < generation' \/ learning'.step = "broadcast"
    BY DEF NoLostWakeup
  <2>1. waitsFor[f] \in Nat /\ generation \in Nat /\ waitsFor[f] <= generation
    BY DEF WakeInv
  <2>2. CASE generation' = generation + 1
    BY <2>1, <2>2
  <2>3. CASE /\ seen # NoAddress
             /\ learning.step = "broadcast" => learning' = learning
    <3>1. waitsFor[f] < generation \/ learning.step = "broadcast"
      BY <2>3 DEF WakeInv, NoLostWakeup
    <3> QED
      BY <1>1, <2>1, <2>3, <3>1
  <2> QED
    BY <2>2, <2>3
<1> QED
  BY <1>1, <1>2, <1>3 DEF WakeInv

(* A session that stops waiting, or begins to while the phone is unknown,  *)
(* loses no wakeup.                                                        *)
LEMMA FinderKeepsWakeInv ==
  ASSUME WakeInv, NEW f \in Finder,
         NEW place \in {"look", "wait", "dial", "session", "forget"},
         finder' = [finder EXCEPT ![f] = place],
         \/ UNCHANGED waitsFor
         \/ waitsFor' = [waitsFor EXCEPT ![f] = 0]
         \/ waitsFor' = [waitsFor EXCEPT ![f] = generation],
         UNCHANGED <<generation, learning>>,
         seen' \in {seen, NoAddress},
         place = "wait" => seen' = NoAddress
  PROVE  WakeInv'
<1>1. /\ generation' \in Nat
      /\ finder' \in [Finder -> {"look", "wait", "dial", "session", "forget"}]
      /\ waitsFor' \in [Finder -> Nat]
  BY DEF WakeInv
<1>2. \A g \in Finder : waitsFor'[g] <= generation'
  BY DEF WakeInv
<1>3. NoLostWakeup'
  <2> SUFFICES ASSUME NEW g \in Finder, finder'[g] = "wait", seen' # NoAddress
               PROVE  waitsFor'[g] < generation \/ learning.step = "broadcast"
    BY DEF NoLostWakeup
  <2>1. g # f
    BY DEF WakeInv
  <2>2. finder[g] = "wait" /\ waitsFor'[g] = waitsFor[g] /\ seen # NoAddress
    BY <2>1 DEF WakeInv
  <2> QED
    BY <2>2 DEF WakeInv, NoLostWakeup
<1> QED
  BY <1>1, <1>2, <1>3 DEF WakeInv

LEMMA WakeNext == WakeInv /\ [DiscoveryNext]_discoveryVars => WakeInv'
<1> SUFFICES ASSUME WakeInv, [DiscoveryNext]_discoveryVars PROVE WakeInv'
  OBVIOUS
<1> USE DEF finderVars
<1>1. CASE PhoneMoves
  BY <1>1, QuietKeepsWakeInv DEF PhoneMoves
<1>2. CASE ListenBegins
  BY <1>2, QuietKeepsWakeInv DEF ListenBegins
<1>3. CASE ListenEnds
  BY <1>3, QuietKeepsWakeInv DEF ListenEnds
<1>4. ASSUME NEW kind \in {"ptr", "srv", "txt", "a"}, Hear(kind) PROVE WakeInv'
  <2>1. learning.step # "broadcast"
    BY <1>4 DEF Hear, NoNews
  <2> QED
    BY <1>4, <2>1, QuietKeepsWakeInv DEF Hear
<1>5. CASE Remember
  <2>1. learning.step = "remember" /\ UNCHANGED <<finder, waitsFor, generation>>
    BY <1>5 DEF Remember, Learns
  <2>2. CASE seen = learning.address
    <3>1. seen' = seen
      BY <1>5, <2>2 DEF Remember, Learns
    <3> QED
      BY <2>1, <3>1, QuietKeepsWakeInv
  <2>3. CASE seen # learning.address
    <3>1. learning'.step = "broadcast"
      BY <1>5, <2>3 DEF Remember, Learns
    <3> QED
      BY <2>1, <3>1, QuietKeepsWakeInv
  <2> QED
    BY <2>2, <2>3
<1>6. CASE Broadcast
  BY <1>6, QuietKeepsWakeInv DEF Broadcast
<1>7. ASSUME NEW f \in Finder,
             Look(f) \/ Woken(f) \/ AsksAgain(f) \/ Dial(f) \/ Forget(f) \/ Again(f)
      PROVE  WakeInv'
  <2>1. CASE Look(f)
    BY <2>1, FinderKeepsWakeInv DEF Look
  <2>2. CASE Woken(f)
    BY <2>2, FinderKeepsWakeInv DEF Woken
  <2>3. CASE AsksAgain(f)
    BY <2>3, FinderKeepsWakeInv DEF AsksAgain
  <2>4. CASE Dial(f)
    BY <2>4, FinderKeepsWakeInv DEF Dial
  <2>5. CASE Forget(f)
    BY <2>5, FinderKeepsWakeInv DEF Forget
  <2>6. CASE Again(f)
    BY <2>6, FinderKeepsWakeInv DEF Again
  <2> QED
    BY <1>7, <2>1, <2>2, <2>3, <2>4, <2>5, <2>6
<1>8. CASE UNCHANGED discoveryVars
  BY <1>8, QuietKeepsWakeInv DEF discoveryVars
<1> QED
  BY <1>1, <1>2, <1>3, <1>4, <1>5, <1>6, <1>7, <1>8 DEF DiscoveryNext

(* Find (watcher.go): the channel is taken in the same critical section    *)
(* that found the phone unknown, and remember closes it after the phone    *)
(* has become known, so no announcement falls between the two.             *)
THEOREM NobodySleepsOn == DiscoverySpec => []NoLostWakeup
<1>1. WakeInv => NoLostWakeup
  BY DEF WakeInv
<1> QED
  BY WakeInit, WakeNext, <1>1, PTL DEF DiscoverySpec

-----------------------------------------------------------------------------
(* CallMute: the end of a call restores what the user wanted *)

(* A mute in progress is one the flags owe the undoing of; as long as it   *)
(* is owed, the default output is one the user does not want muted, unless *)
(* it is excused.                                                          *)
MuteInv ==
    /\ default \in Sink
    /\ autoMuted \in BOOLEAN
    /\ wasMuted \in BOOLEAN
    /\ muting \in {"idle", "mute", "unmute"}
    /\ muting = "mute" => autoMuted /\ ~wasMuted
    /\ muting = "unmute" => ~wasMuted
    /\ (autoMuted /\ ~wasMuted) \/ muting = "unmute" =>
           default \notin wanted \/ default \in excused
    /\ RestoresMute

LEMMA MuteInvInit == MuteInit => MuteInv
BY DEF MuteInit, MuteInv, RestoresMute

(* What neither touches the outputs nor the flags.                         *)
LEMMA QuietKeepsMuteInv ==
  ASSUME MuteInv,
         UNCHANGED <<muted, wanted, default, autoMuted, wasMuted, muting, excused>>
  PROVE  MuteInv'
BY DEF MuteInv, RestoresMute

LEMMA CallBeginsKeepsMuteInv ==
  ASSUME MuteInv, NEW p \in Caller, CallBegins(p)
  PROVE  MuteInv'
<1>1. /\ UNCHANGED <<muted, wanted, default, excused>>
      /\ muting = "idle"
  BY DEF CallBegins, Report
<1>2. CASE UNCHANGED <<autoMuted, wasMuted, muting>>
  BY <1>1, <1>2, QuietKeepsMuteInv
<1>3. CASE /\ ~autoMuted
           /\ autoMuted' = TRUE
           /\ wasMuted' = (default \in muted)
           /\ muting' = IF default \in muted THEN "idle" ELSE "mute"
  <2>1. RestoresMute /\ default \in Sink
    BY DEF MuteInv
  <2>2. \A s \in Sink \ excused : s \in muted <=> s \in wanted
    BY <1>1, <1>3, <2>1 DEF RestoresMute
  <2>3. CASE default \in muted
    BY <1>1, <1>3, <2>1, <2>2, <2>3 DEF MuteInv, RestoresMute
  <2>4. CASE default \notin muted
    BY <1>1, <1>3, <2>1, <2>2, <2>4 DEF MuteInv, RestoresMute
  <2> QED
    BY <2>3, <2>4
<1> QED
  BY <1>2, <1>3 DEF CallBegins

LEMMA CallEndsKeepsMuteInv ==
  ASSUME MuteInv, NEW p \in Caller, CallEnds(p)
  PROVE  MuteInv'
<1>1. /\ UNCHANGED <<muted, wanted, default, excused, wasMuted>>
      /\ muting = "idle"
      /\ autoMuted' = FALSE
      /\ muting' = IF autoMuted /\ ~wasMuted THEN "unmute" ELSE "idle"
  BY DEF CallEnds, Report
<1>2. CASE autoMuted /\ ~wasMuted
  BY <1>1, <1>2 DEF MuteInv, RestoresMute
<1>3. CASE ~(autoMuted /\ ~wasMuted)
  BY <1>1, <1>3 DEF MuteInv, RestoresMute
<1> QED
  BY <1>2, <1>3

LEMMA ToolsKeepMuteInv ==
  ASSUME MuteInv, MutesOutput \/ UnmutesOutput
  PROVE  MuteInv'
<1>1. CASE MutesOutput
  BY <1>1 DEF MutesOutput, Finishes, MuteInv, RestoresMute
<1>2. CASE UnmutesOutput
  <2>1. /\ UNCHANGED <<wanted, default, autoMuted, wasMuted>>
        /\ muting = "unmute" /\ muting' = "idle"
    BY <1>2 DEF UnmutesOutput, Finishes
  <2>2. CASE muted' = muted \ {default} /\ UNCHANGED excused
    BY <2>1, <2>2 DEF MuteInv, RestoresMute
  <2>3. CASE excused' = excused \cup {default} /\ UNCHANGED muted
    BY <2>1, <2>3 DEF MuteInv, RestoresMute
  <2> QED
    BY <1>2, <2>2, <2>3 DEF UnmutesOutput
<1> QED
  BY <1>1, <1>2

(* The user may do anything at any time: what happens to an output during  *)
(* a call is excused, and outside of calls both sets change alike.         *)
LEMMA UserKeepsMuteInv ==
  ASSUME MuteInv, NEW s \in Sink, UserMutes(s) \/ DefaultChanges(s)
  PROVE  MuteInv'
<1>1. UNCHANGED <<autoMuted, wasMuted, muting>>
  BY DEF UserMutes, DefaultChanges
<1>2. CASE UserMutes(s)
  <2>1. CASE autoMuted \/ muting # "idle"
    BY <1>1, <1>2, <2>1 DEF UserMutes, MuteInv, RestoresMute
  <2>2. CASE ~(autoMuted \/ muting # "idle")
    BY <1>1, <1>2, <2>2 DEF UserMutes, MuteInv, RestoresMute
  <2> QED
    BY <2>1, <2>2
<1>3. CASE DefaultChanges(s)
  <2>1. CASE autoMuted \/ muting # "idle"
    BY <1>1, <1>3, <2>1 DEF DefaultChanges, MuteInv, RestoresMute
  <2>2. CASE ~(autoMuted \/ muting # "idle")
    BY <1>1, <1>3, <2>2 DEF DefaultChanges, MuteInv, RestoresMute
  <2> QED
    BY <2>1, <2>2
<1> QED
  BY <1>2, <1>3

LEMMA MuteInvNext == MuteInv /\ [MuteNext]_muteVars => MuteInv'
<1> SUFFICES ASSUME MuteInv, [MuteNext]_muteVars PROVE MuteInv'
  OBVIOUS
<1>1. ASSUME NEW p \in Caller,
             \/ CallChanges(p) \/ CallerLeaves(p) \/ CallerReturns(p)
             \/ CallBegins(p) \/ CallEnds(p)
      PROVE  MuteInv'
  <2>1. CASE CallChanges(p)
    BY <2>1, QuietKeepsMuteInv DEF CallChanges
  <2>2. CASE CallerLeaves(p)
    BY <2>2, QuietKeepsMuteInv DEF CallerLeaves
  <2>3. CASE CallerReturns(p)
    BY <2>3, QuietKeepsMuteInv DEF CallerReturns
  <2> QED
    BY <1>1, <2>1, <2>2, <2>3, CallBeginsKeepsMuteInv, CallEndsKeepsMuteInv
<1>2. CASE \E s \in Sink : UserMutes(s) \/ DefaultChanges(s)
  BY <1>2, UserKeepsMuteInv
<1>3. CASE MutesOutput \/ UnmutesOutput
  BY <1>3, ToolsKeepMuteInv
<1>4. CASE UNCHANGED muteVars
  BY <1>4, QuietKeepsMuteInv DEF muteVars
<1> QED
  BY <1>1, <1>2, <1>3, <1>4 DEF MuteNext

(* applyCallMute (daemon_lifecycle.go): the flags are set before the mute  *)
(* may fail and cleared before the unmute may fail; whatever two phones    *)
(* report, in whatever order, an output stays muted against the user's     *)
(* wish only as long as the daemon owes the unmute.                        *)
THEOREM CallEndRestores == MuteSpec => []RestoresMute
<1>1. MuteInv => RestoresMute
  BY DEF MuteInv
<1> QED
  BY MuteInvInit, MuteInvNext, <1>1, PTL DEF MuteSpec

-----------------------------------------------------------------------------
(* Mpris: the active player is the right one, and its ticker follows it *)

(* First is a member of the set it is asked about.                         *)
LEMMA FirstMember ==
  ASSUME NEW S \in SUBSET Player, S # {}
  PROVE  First(S) \in S
<1>1. S \subseteq Nat
  BY MprisAssumption
<1>2. \E x \in S : \A y \in S : ~(<<y, x>> \in OpToRel(<, Nat))
  BY <1>1, NatLessThanWellFounded, WFMin
<1>3. PICK x \in S : \A y \in S : ~(<<y, x>> \in OpToRel(<, Nat))
  BY <1>2
<1>4. \A y \in S : ~(y < x)
  BY <1>1, <1>3 DEF OpToRel
<1>5. \A y \in S : x <= y
  BY <1>1, <1>4
<1> QED
  BY <1>5 DEF First

(* Of six sets of candidates, the first that is not empty wins.            *)
LEMMA OneWins ==
  ASSUME NEW C, C[6] # {},
         NEW i, i = CHOOSE k \in 1..6 : C[k] # {} /\ \A j \in 1..(k - 1) : C[j] = {}
  PROVE  i \in 1..6 /\ C[i] # {} /\ \A j \in 1..(i - 1) : C[j] = {}
<1> DEFINE W(k) == C[k] # {} /\ \A j \in 1..(k - 1) : C[j] = {}
<1>1. \E k \in 1..6 : W(k)
  <2>1. CASE C[1] # {}
    BY <2>1
  <2>2. CASE C[1] = {} /\ C[2] # {}
    <3>1. W(2)
      BY <2>2
    <3> QED
      BY <3>1
  <2>3. CASE C[1] = {} /\ C[2] = {} /\ C[3] # {}
    <3>1. W(3)
      BY <2>3
    <3> QED
      BY <3>1
  <2>4. CASE C[1] = {} /\ C[2] = {} /\ C[3] = {} /\ C[4] # {}
    <3>1. W(4)
      BY <2>4
    <3> QED
      BY <3>1
  <2>5. CASE C[1] = {} /\ C[2] = {} /\ C[3] = {} /\ C[4] = {} /\ C[5] # {}
    <3>1. W(5)
      BY <2>5
    <3> QED
      BY <3>1
  <2>6. CASE C[1] = {} /\ C[2] = {} /\ C[3] = {} /\ C[4] = {} /\ C[5] = {}
    <3>1. W(6)
      BY <2>6
    <3> QED
      BY <3>1
  <2> QED
    BY <2>1, <2>2, <2>3, <2>4, <2>5, <2>6
<1> QED
  BY <1>1

(* What updateActivePlayerLocked chooses.                                  *)
LEMMA Choice ==
  ASSUME NEW c, NEW previous, NEW pin, NEW a, a = ActiveAfter(c, previous, pin)
  PROVE  /\ Names(c) = {} => a = NoPlayer
         /\ Names(c) # {} => a \in Names(c)
         /\ pin \in Names(c) => a = pin
         /\ pin \notin Names(c) /\ Playing(c) \cap Controllable # {} =>
                a \in Playing(c)
<1>1. CASE Names(c) = {}
  <2>1. a = NoPlayer
    BY <1>1 DEF ActiveAfter
  <2>2. Playing(c) = {}
    BY <1>1 DEF Names, Playing, Gone
  <2> QED
    BY <1>1, <2>1, <2>2
<1>2. CASE Names(c) # {}
  <2> DEFINE C == <<{pin} \cap Names(c),
                    {previous} \cap Playing(c),
                    Playing(c) \cap Controllable,
                    {previous} \cap Names(c),
                    Names(c) \cap Controllable,
                    Names(c)>>
             i == CHOOSE k \in 1..6 : C[k] # {} /\ \A j \in 1..(k - 1) : C[j] = {}
  <2>1. a = First(C[i])
    BY <1>2 DEF ActiveAfter
  <2>2. /\ C[1] = {pin} \cap Names(c)
        /\ C[2] = {previous} \cap Playing(c)
        /\ C[3] = Playing(c) \cap Controllable
        /\ C[4] = {previous} \cap Names(c)
        /\ C[5] = Names(c) \cap Controllable
        /\ C[6] = Names(c)
    OBVIOUS
  <2>3. Names(c) \subseteq Player /\ Playing(c) \subseteq Names(c)
    BY DEF Names, Playing, Gone
  <2> HIDE DEF C
  <2>4. i \in 1..6 /\ C[i] # {} /\ \A j \in 1..(i - 1) : C[j] = {}
    <3>1. C[6] # {}
      BY <1>2, <2>2
    <3> QED
      BY <3>1, OneWins
  <2> HIDE DEF i
  <2>5. C[i] \subseteq Names(c)
    BY <2>2, <2>3, <2>4
  <2>6. a \in C[i]
    BY <2>1, <2>3, <2>4, <2>5, FirstMember
  <2>7. pin \in Names(c) => i = 1
    BY <2>2, <2>4
  <2>8. pin \notin Names(c) /\ Playing(c) \cap Controllable # {} => i \in 2..3
    BY <2>2, <2>4
  <2> QED
    BY <1>2, <2>2, <2>5, <2>6, <2>7, <2>8
<1> QED
  BY <1>1, <1>2

(* Until its first refresh the service knows no player.                    *)
MprisInv ==
    /\ lifecycle = "starting" =>
          /\ cache = [p \in Player |-> Gone]
          /\ monitor \in {"list", "ask"}
    /\ ActiveIsRight
    /\ TickerFollowsActive

LEMMA NoPlayerIsNone == NoPlayer \notin Player
BY MprisAssumption DEF NoPlayer

LEMMA EmptyCache ==
  ASSUME NEW c, c = [p \in Player |-> Gone]
  PROVE  Names(c) = {} /\ Playing(c) = {}
BY DEF Names, Playing, Gone

LEMMA MprisInvInit == MprisInit => MprisInv
<1> SUFFICES ASSUME MprisInit PROVE MprisInv
  OBVIOUS
<1>1. /\ cache = [p \in Player |-> Gone]
      /\ active = NoPlayer /\ pinned = NoPlayer /\ ticker = NoPlayer
      /\ lifecycle = "starting" /\ monitor = "list"
  BY DEF MprisInit
<1> QED
  BY <1>1, EmptyCache DEF MprisInv, ActiveIsRight, TickerFollowsActive

(* Whatever the cache becomes, settling it makes the choice right again.   *)
LEMMA SettleIsRight ==
  ASSUME NEW c, NEW pin, Settle(c, pin),
         lifecycle' \in {"starting", "up"} <=> lifecycle \in {"starting", "up"}
  PROVE  ActiveIsRight' /\ TickerFollowsActive'
<1>1. /\ cache' = c
      /\ pinned' = PinAfter(c, pin)
      /\ active' = ActiveAfter(c, active, pin)
      /\ ticker' = TickerFor(c, active')
  BY DEF Settle
<1>2. /\ Names(c) = {} => active' = NoPlayer
      /\ Names(c) # {} => active' \in Names(c)
      /\ pin \in Names(c) => active' = pin
      /\ pin \notin Names(c) /\ Playing(c) \cap Controllable # {} =>
             active' \in Playing(c)
  BY <1>1, Choice
<1>3. Names(c) \subseteq Player
  BY DEF Names
<1>4. ActiveIsRight'
  <2>1. pinned' # NoPlayer => active' = pinned'
    BY <1>1, <1>2 DEF PinAfter
  <2>2. active' = NoPlayer => Names(c) = {}
    BY <1>2, <1>3, NoPlayerIsNone
  <2>3. pinned' = NoPlayer => pin \notin Names(c)
    BY <1>1, <1>3, NoPlayerIsNone DEF PinAfter
  <2> QED
    BY <1>1, <1>2, <2>1, <2>2, <2>3 DEF ActiveIsRight, Names, Playing
<1>5. TickerFollowsActive'
  BY <1>1 DEF TickerFollowsActive, TickerFor, Playing
<1> QED
  BY <1>4, <1>5

LEMMA QuietKeepsMprisInv ==
  ASSUME MprisInv, UNCHANGED <<mprisCache, lifecycle>>,
         lifecycle = "starting" => monitor' \in {"list", "ask"}
  PROVE  MprisInv'
BY DEF MprisInv, mprisCache, ActiveIsRight, TickerFollowsActive, Names, Playing

LEMMA MonitorKeepsMprisInv ==
  ASSUME MprisInv, MonitorStep
  PROVE  MprisInv'
<1> USE DEF mprisVars, mprisMonitor
<1>1. CASE ListNames
  BY <1>1, QuietKeepsMprisInv DEF ListNames
<1>7. CASE ListFails
  <2>1. lifecycle # "starting"
    BY <1>7 DEF ListFails
  <2> QED
    BY <1>7, <2>1, QuietKeepsMprisInv DEF ListFails
<1>2. CASE ReplaceCache
  <2>1. Settle(found, pinned)
    BY <1>2 DEF ReplaceCache, EndRefresh
  <2>2. lifecycle' = IF lifecycle = "starting" THEN "up" ELSE lifecycle
    BY <1>2 DEF ReplaceCache, EndRefresh
  <2> QED
    BY <2>1, <2>2, SettleIsRight DEF MprisInv
<1>3. CASE TakeSignal
  <2>1. lifecycle # "starting"
    BY <1>3 DEF TakeSignal, MprisInv
  <2> QED
    BY <1>3, <2>1, QuietKeepsMprisInv DEF TakeSignal
<1>4. CASE FetchInvalidated
  <2>1. lifecycle # "starting"
    BY <1>4 DEF FetchInvalidated, MprisInv
  <2> QED
    BY <1>4, <2>1, QuietKeepsMprisInv DEF FetchInvalidated
<1>5. CASE ApplyUpdate
  <2>1. lifecycle # "starting" /\ UNCHANGED lifecycle
    BY <1>5 DEF ApplyUpdate, MprisInv
  <2>2. Settle(Updated(cache, update[1], update[2]), pinned)
    BY <1>5 DEF ApplyUpdate
  <2> QED
    BY <2>1, <2>2, SettleIsRight DEF MprisInv
<1>6. CASE \E p \in Player : QueryPlayer(p)
  <2>1. monitor' = "ask" /\ UNCHANGED <<mprisCache, lifecycle>>
    BY <1>6 DEF QueryPlayer
  <2> QED
    BY <2>1, QuietKeepsMprisInv
<1> QED
  BY <1>1, <1>2, <1>3, <1>4, <1>5, <1>6, <1>7 DEF MonitorStep

(* SetActivePlayer and UseAutomaticPlayer.                                 *)
LEMMA SelectionKeepsMprisInv ==
  ASSUME MprisInv, UseAutomaticPlayer \/ \E p \in Player : SetActivePlayer(p)
  PROVE  MprisInv'
<1>1. lifecycle # "starting" /\ UNCHANGED lifecycle
  BY DEF UseAutomaticPlayer, SetActivePlayer, mprisMonitor
<1>2. CASE UseAutomaticPlayer
  <2>1. Settle(cache, NoPlayer)
    BY <1>2 DEF UseAutomaticPlayer
  <2> QED
    BY <1>1, <2>1, SettleIsRight DEF MprisInv
<1>3. ASSUME NEW p \in Player, SetActivePlayer(p) PROVE MprisInv'
  <2>1. /\ p \in Names(cache)
        /\ active' = p /\ pinned' = p /\ cache' = cache
        /\ ticker' = TickerFor(cache, p)
    BY <1>3 DEF SetActivePlayer
  <2>2. p # NoPlayer
    BY NoPlayerIsNone
  <2>3. ActiveIsRight'
    BY <2>1, <2>2 DEF ActiveIsRight, Names
  <2>4. TickerFollowsActive'
    BY <1>1, <2>1 DEF TickerFollowsActive, TickerFor, Playing
  <2> QED
    BY <1>1, <2>3, <2>4 DEF MprisInv
<1> QED
  BY <1>2, <1>3

(* StartFails, StopMpris, MonitorExits and StopEnds.                       *)
LEMMA EndKeepsMprisInv ==
  ASSUME MprisInv, StartFails \/ StopMpris \/ MonitorExits \/ StopEnds
  PROVE  MprisInv'
<1>1. CASE StartFails
  <2>1. UNCHANGED <<cache, active, pinned, ticker>> /\ lifecycle' = "down"
    BY <1>1 DEF StartFails, mprisCache
  <2>2. ticker = NoPlayer
    <3>1. cache = [p \in Player |-> Gone]
      BY <1>1 DEF StartFails, MprisInv
    <3>2. Playing(cache) = {}
      BY <3>1, EmptyCache
    <3> QED
      BY <3>2 DEF MprisInv, TickerFollowsActive
  <2> QED
    BY <2>1, <2>2 DEF MprisInv, ActiveIsRight, TickerFollowsActive, Names, Playing
<1>2. CASE StopMpris
  BY <1>2 DEF StopMpris, MprisInv, ActiveIsRight, TickerFollowsActive, Names, Playing
<1>3. CASE MonitorExits
  <2>1. lifecycle # "starting" /\ UNCHANGED <<mprisCache, lifecycle>>
    BY <1>3 DEF MonitorExits
  <2> QED
    BY <2>1, QuietKeepsMprisInv
<1>4. CASE StopEnds
  <2>1. /\ cache' = [p \in Player |-> Gone]
        /\ active' = NoPlayer /\ pinned' = NoPlayer /\ ticker' = ticker
        /\ lifecycle = "stopping" /\ lifecycle' = "down"
    BY <1>4 DEF StopEnds
  <2>2. ticker = NoPlayer
    BY <2>1 DEF MprisInv, TickerFollowsActive
  <2>3. Names(cache') = {} /\ Playing(cache') = {}
    BY <2>1, EmptyCache
  <2> QED
    BY <2>1, <2>2, <2>3
    DEF MprisInv, ActiveIsRight, TickerFollowsActive, Names, Playing
<1> QED
  BY <1>1, <1>2, <1>3, <1>4

LEMMA PlayersKeepMprisInv ==
  ASSUME MprisInv, PlayerStep
  PROVE  MprisInv'
<1>1. UNCHANGED <<mprisCache, mprisMonitor>>
  BY DEF PlayerStep, PlayerAppears, PlayerLeaves, PlayerChanges, ControlPlayer, Changes
<1>2. UNCHANGED <<lifecycle, monitor>>
  BY <1>1 DEF mprisMonitor
<1>3. lifecycle = "starting" => monitor' \in {"list", "ask"}
  BY <1>2 DEF MprisInv
<1> QED
  BY <1>1, <1>2, <1>3, QuietKeepsMprisInv

LEMMA MprisInvNext == MprisInv /\ [MprisNext]_mprisVars => MprisInv'
<1> SUFFICES ASSUME MprisInv, [MprisNext]_mprisVars PROVE MprisInv'
  OBVIOUS
<1>1. CASE UNCHANGED mprisVars
  <2>1. UNCHANGED <<mprisCache, lifecycle, monitor>>
    BY <1>1 DEF mprisVars, mprisMonitor
  <2>2. lifecycle = "starting" => monitor' \in {"list", "ask"}
    BY <2>1 DEF MprisInv
  <2> QED
    BY <2>1, <2>2, QuietKeepsMprisInv
<1>2. CASE MprisNext
  BY <1>2, MonitorKeepsMprisInv, SelectionKeepsMprisInv, EndKeepsMprisInv,
     PlayersKeepMprisInv DEF MprisNext
<1> QED
  BY <1>1, <1>2

(* updateActivePlayerLocked (mpris.go) is called wherever the cache or the *)
(* pin changes: the active player is the user's choice, or plays if any    *)
(* controllable player plays, and exists if any player does.               *)
THEOREM ActiveStaysRight == MprisSpec => []ActiveIsRight
<1>1. MprisInv => ActiveIsRight
  BY DEF MprisInv
<1> QED
  BY MprisInvInit, MprisInvNext, <1>1, PTL DEF MprisSpec

(* syncPositionTickerLocked (mpris.go): one ticker exactly while the       *)
(* active player plays, and none after Stop, which waits for it.           *)
THEOREM TickerStaysRight == MprisSpec => []TickerFollowsActive
<1>1. MprisInv => TickerFollowsActive
  BY DEF MprisInv
<1> QED
  BY MprisInvInit, MprisInvNext, <1>1, PTL DEF MprisSpec

-----------------------------------------------------------------------------
(* ClipboardSync: no echo *)

Copy == [content : Content \cup {NoContent}, fresh : BOOLEAN]

(* A copy that is still fresh is what the service remembers: whatever      *)
(* makes it remember other content ends the freshness of the rest.         *)
Fine(copy, c) == copy \in Copy /\ (copy.fresh => copy.content = c)

FineQueue(q, c) == q \in Seq(Copy) /\ \A i \in 1..Len(q) : Fine(q[i], c)

EchoInv ==
    /\ remembered \in Content \cup {NoContent}
    /\ Fine(incoming, remembered)
    /\ DOMAIN copied = Start
    /\ \A n \in Start : FineQueue(copied[n], remembered)
    /\ pushed \in [Start -> Copy]
    /\ NoClipboardEcho

LEMMA StaleIsFine ==
  ASSUME NEW copy \in Copy, NEW c
  PROVE  Fine(Stale(copy, c), c)
<1>1. /\ Stale(copy, c).content = copy.content
      /\ Stale(copy, c).fresh = (copy.fresh /\ copy.content = c)
      /\ Stale(copy, c) = [content |-> copy.content,
                           fresh |-> (copy.fresh /\ copy.content = c)]
  BY DEF Stale, Copy
<1>2. Stale(copy, c) \in Copy
  BY <1>1 DEF Copy
<1> QED
  BY <1>1, <1>2 DEF Fine

LEMMA StaleQueueIsFine ==
  ASSUME NEW q \in Seq(Copy), NEW c
  PROVE  FineQueue([i \in 1..Len(q) |-> Stale(q[i], c)], c)
<1> DEFINE r == [i \in 1..Len(q) |-> Stale(q[i], c)]
<1>1. \A i \in 1..Len(q) : Fine(Stale(q[i], c), c)
  BY StaleIsFine
<1>2. r \in Seq(Copy) /\ Len(r) = Len(q)
  <2>1. \A i \in 1..Len(q) : Stale(q[i], c) \in Copy
    BY <1>1 DEF Fine
  <2> QED
    BY <2>1
<1> QED
  BY <1>1, <1>2 DEF FineQueue

LEMMA ShorterQueueIsFine ==
  ASSUME NEW q, NEW c, FineQueue(q, c), q # <<>>
  PROVE  FineQueue(Tail(q), c) /\ Fine(Head(q), c)
<1>1. /\ Tail(q) \in Seq(Copy) /\ Len(Tail(q)) = Len(q) - 1
      /\ \A i \in 1..Len(Tail(q)) : Tail(q)[i] = q[i + 1] /\ i + 1 \in 1..Len(q)
      /\ Head(q) = q[1] /\ 1 \in 1..Len(q)
  BY DEF FineQueue
<1> QED
  BY <1>1 DEF FineQueue

LEMMA LongerQueueIsFine ==
  ASSUME NEW q, NEW c, FineQueue(q, c), NEW copy, Fine(copy, c)
  PROVE  FineQueue(Append(q, copy), c)
<1>1. copy \in Copy /\ q \in Seq(Copy)
  BY DEF Fine, FineQueue
<1>2. /\ Append(q, copy) \in Seq(Copy) /\ Len(Append(q, copy)) = Len(q) + 1
      /\ \A i \in 1..Len(Append(q, copy)) :
             \/ i \in 1..Len(q) /\ Append(q, copy)[i] = q[i]
             \/ Append(q, copy)[i] = copy
  BY <1>1
<1> QED
  BY <1>2 DEF FineQueue

LEMMA WatchedIsFine ==
  ASSUME EchoInv, NEW copy, Fine(copy, remembered)
  PROVE  /\ DOMAIN Watched(copy) = Start
         /\ \A n \in Start : FineQueue(Watched(copy)[n], remembered)
<1>1. \A n \in Start : FineQueue(Append(copied[n], copy), remembered)
  BY LongerQueueIsFine DEF EchoInv
<1> QED
  BY <1>1 DEF EchoInv, Watched

LEMMA NoCopyIsFine == \A c : Fine(NoCopy, c) /\ ~NoCopy.fresh
<1>1. NoCopy \in Copy /\ NoCopy.fresh = FALSE
  BY DEF NoCopy, Copy
<1> QED
  BY <1>1 DEF Fine

LEMMA EchoInit == ClipInit => EchoInv
<1> SUFFICES ASSUME ClipInit PROVE EchoInv
  OBVIOUS
<1>1. \A c : FineQueue(<<>>, c)
  BY DEF FineQueue
<1>2. pushed \in [Start -> Copy] /\ NoClipboardEcho
  BY NoCopyIsFine DEF ClipInit, NoClipboardEcho, Fine
<1> QED
  BY <1>1, <1>2, NoCopyIsFine DEF ClipInit, EchoInv

(* HostCopies, PhoneCopies and WritesIncoming.                             *)
LEMMA CopiesKeepEchoInv ==
  ASSUME EchoInv,
         WritesIncoming \/ \E c \in Content : HostCopies(c) \/ PhoneCopies(c)
  PROVE  EchoInv'
<1>1. ASSUME NEW c \in Content, HostCopies(c) PROVE EchoInv'
  <2> DEFINE copy == [content |-> c, fresh |-> FALSE]
  <2>1. Fine(copy, remembered)
    BY DEF Fine, Copy
  <2>2. copied' = Watched(copy) /\ UNCHANGED <<remembered, incoming, pushed>>
    BY <1>1 DEF HostCopies
  <2> HIDE DEF copy
  <2> QED
    BY <2>1, <2>2, WatchedIsFine DEF EchoInv, NoClipboardEcho
<1>2. ASSUME NEW c \in Content, PhoneCopies(c) PROVE EchoInv'
  <2>1. /\ incoming' = [content |-> c, fresh |-> TRUE]
        /\ remembered' = c /\ UNCHANGED pushed
        /\ copied' = [n \in Start |->
                         [i \in 1..Len(copied[n]) |-> Stale(copied[n][i], c)]]
    BY <1>2 DEF PhoneCopies, Remembers
  <2>2. Fine(incoming', c)
    BY <2>1 DEF Fine, Copy
  <2>3. \A n \in Start : FineQueue(copied'[n], c)
    <3>1. \A n \in Start :
              FineQueue([i \in 1..Len(copied[n]) |-> Stale(copied[n][i], c)], c)
      <4>1. \A n \in Start : copied[n] \in Seq(Copy)
        BY DEF EchoInv, FineQueue
      <4> QED
        BY <4>1, StaleQueueIsFine
    <3> QED
      BY <2>1, <3>1
  <2> QED
    BY <2>1, <2>2, <2>3 DEF EchoInv, NoClipboardEcho
<1>3. CASE WritesIncoming
  <2>1. /\ incoming' = NoCopy
        /\ copied' = Watched(incoming) \/ UNCHANGED copied
        /\ UNCHANGED <<remembered, pushed>>
    BY <1>3 DEF WritesIncoming
  <2>2. Fine(incoming, remembered)
    BY DEF EchoInv
  <2> QED
    BY <2>1, <2>2, WatchedIsFine, NoCopyIsFine DEF EchoInv, NoClipboardEcho
<1> QED
  BY <1>1, <1>2, <1>3

LEMMA WorkerTakesKeepsEchoInv ==
  ASSUME EchoInv, NEW n \in Start, WorkerTakes(n)
  PROVE  EchoInv'
<1> DEFINE copy == Head(copied[n])
           rest(m) == IF m = n THEN Tail(copied[m]) ELSE copied[m]
<1>1. copied[n] # <<>>
  BY DEF WorkerTakes
<1>2. Fine(copy, remembered) /\ \A m \in Start : FineQueue(rest(m), remembered)
  BY <1>1, ShorterQueueIsFine DEF EchoInv
<1>3. CASE copy.content = remembered
  <2>1. /\ copied' = [copied EXCEPT ![n] = Tail(@)]
        /\ UNCHANGED <<remembered, incoming, pushed>>
    BY <1>3 DEF WorkerTakes
  <2>2. DOMAIN copied' = Start /\ \A m \in Start : copied'[m] = rest(m)
    BY <2>1 DEF EchoInv
  <2> QED
    BY <1>2, <2>1, <2>2 DEF EchoInv, NoClipboardEcho
<1>4. CASE copy.content # remembered
  <2>1. /\ remembered' = copy.content
        /\ incoming' = Stale(incoming, copy.content)
        /\ copied' = [m \in Start |->
                         [i \in 1..Len(rest(m)) |-> Stale(rest(m)[i], copy.content)]]
        /\ pushed' = [pushed EXCEPT ![n] = copy]
    BY <1>4 DEF WorkerTakes
  <2>2. copy \in Copy /\ ~copy.fresh /\ copy.content \in Content \cup {NoContent}
    BY <1>2, <1>4 DEF Fine, Copy
  <2> HIDE DEF copy, rest
  <2>3. Fine(incoming', copy.content)
    BY <2>1, StaleIsFine DEF EchoInv, Fine
  <2>4. \A m \in Start : FineQueue(copied'[m], copy.content)
    <3>1. \A m \in Start :
              FineQueue([i \in 1..Len(rest(m)) |-> Stale(rest(m)[i], copy.content)],
                        copy.content)
      <4>1. \A m \in Start : rest(m) \in Seq(Copy)
        BY <1>2 DEF FineQueue
      <4> QED
        BY <4>1, StaleQueueIsFine
    <3> QED
      BY <2>1, <3>1
  <2>5. pushed' \in [Start -> Copy] /\ NoClipboardEcho'
    BY <2>1, <2>2 DEF EchoInv, NoClipboardEcho
  <2> QED
    BY <2>1, <2>2, <2>3, <2>4, <2>5 DEF EchoInv
<1> QED
  BY <1>3, <1>4

LEMMA EchoNext == EchoInv /\ [ClipNext]_clipVars => EchoInv'
<1> SUFFICES ASSUME EchoInv, [ClipNext]_clipVars PROVE EchoInv'
  OBVIOUS
<1>1. ASSUME UNCHANGED <<remembered, incoming, copied, pushed>> PROVE EchoInv'
  BY <1>1 DEF EchoInv, NoClipboardEcho
<1>2. ASSUME NEW n \in Start,
             StartClipboardService(n) \/ WorkerBegins(n) \/ StopReturns(n)
      PROVE  EchoInv'
  BY <1>1, <1>2 DEF StartClipboardService, WorkerBegins, StopReturns
<1>3. ASSUME NEW n \in Start, WorkerHasPushed(n) PROVE EchoInv'
  BY <1>3, NoCopyIsFine DEF WorkerHasPushed, EchoInv, NoClipboardEcho, Fine
<1>4. ASSUME NEW n \in Start, WorkerExits(n) PROVE EchoInv'
  <2>1. \A c : FineQueue(<<>>, c)
    BY DEF FineQueue
  <2> QED
    BY <1>4, <2>1 DEF WorkerExits, EchoInv, NoClipboardEcho
<1>5. CASE StopBegins
  BY <1>1, <1>5 DEF StopBegins
<1>6. CASE UNCHANGED clipVars
  BY <1>1, <1>6 DEF clipVars
<1> QED
  BY <1>2, <1>3, <1>4, <1>5, <1>6, CopiesKeepEchoInv, WorkerTakesKeepsEchoInv
  DEF ClipNext, WorkerStep

(* RememberContent and PushClipboardContent (clipboard/sync.go): what the  *)
(* phone sent is not pushed back to it, however many copies of host and    *)
(* phone are on their way and whichever worker takes them.                 *)
THEOREM NothingEchoes == ClipSpec => []NoClipboardEcho
<1>1. EchoInv => NoClipboardEcho
  BY DEF EchoInv
<1> QED
  BY EchoInit, EchoNext, <1>1, PTL DEF ClipSpec

-----------------------------------------------------------------------------
(* ClipboardSync: a Stop that returns *)

(* A channel that is closed was closed by a worker that has ended, and a   *)
(* worker chooses its channel when its goroutine begins, once.             *)
QuietInv ==
    /\ DOMAIN worker = Start /\ DOMAIN deferred = Start
    /\ done \in Start \cup {NoStart}
    /\ cancelled \subseteq Start
    /\ \A n \in Start : worker[n] \in {"none", "created"} => deferred[n] = NoStart
    /\ \A m \in closed : \E n \in Start : worker[n] = "exited" /\ deferred[n] = m
    /\ StopMeansQuiet

LEMMA NoStartIsNone == NoStart \notin Start
BY ClipboardAssumption DEF Start, NoStart

LEMMA QuietNext == QuietInv /\ [ClipNext]_clipVars => QuietInv'
<1> SUFFICES ASSUME QuietInv, [ClipNext]_clipVars PROVE QuietInv'
  OBVIOUS
<1>1. ASSUME UNCHANGED <<worker, deferred, clipService, closed>> PROVE QuietInv'
  BY <1>1 DEF QuietInv, StopMeansQuiet, clipService
<1>2. ASSUME NEW c \in Content, HostCopies(c) \/ PhoneCopies(c) PROVE QuietInv'
  BY <1>1, <1>2 DEF HostCopies, PhoneCopies
<1>3. CASE WritesIncoming
  BY <1>1, <1>3 DEF WritesIncoming
<1>4. ASSUME NEW n \in Start, StartClipboardService(n) PROVE QuietInv'
  <2>1. worker[n] = "none"
    BY <1>4, ClipboardAssumption DEF StartClipboardService, Start
  <2> QED
    BY <1>4, <2>1 DEF StartClipboardService, QuietInv, StopMeansQuiet
<1>5. ASSUME NEW n \in Start, WorkerBegins(n) PROVE QuietInv'
  <2>1. /\ worker[n] = "created" /\ worker' = [worker EXCEPT ![n] = "waiting"]
        /\ deferred' = [deferred EXCEPT ![n] = done]
        /\ UNCHANGED <<done, cancelled, stopping, closed>>
    BY <1>5 DEF WorkerBegins, clipService
  <2>2. StopMeansQuiet'
    <3> SUFFICES ASSUME NEW m \in cancelled \ stopping
                 PROVE  \/ worker'[m] = "exited"
                        \/ \E k \in Start \ {m} : deferred'[k] = m
      BY <2>1 DEF StopMeansQuiet
    <3>1. CASE worker[m] = "exited"
      BY <2>1, <3>1 DEF QuietInv
    <3>2. ASSUME NEW k \in Start \ {m}, deferred[k] = m
          PROVE  deferred'[k] = m
      <4>1. m # NoStart
        BY NoStartIsNone DEF QuietInv
      <4>2. k # n
        BY <2>1, <3>2, <4>1 DEF QuietInv
      <4> QED
        BY <2>1, <3>2, <4>2 DEF QuietInv
    <3> QED
      BY <3>1, <3>2 DEF QuietInv, StopMeansQuiet
  <2> QED
    BY <2>1, <2>2 DEF QuietInv
<1>6. ASSUME NEW n \in Start, WorkerTakes(n) PROVE QuietInv'
  <2>1. /\ worker' = worker \/ worker' = [worker EXCEPT ![n] = "pushing"]
        /\ worker[n] = "waiting"
        /\ UNCHANGED <<deferred, done, cancelled, stopping, closed>>
    BY <1>6 DEF WorkerTakes, clipService
  <2> QED
    BY <2>1 DEF QuietInv, StopMeansQuiet
<1>7. ASSUME NEW n \in Start, WorkerHasPushed(n) PROVE QuietInv'
  <2>1. /\ worker' = [worker EXCEPT ![n] = "waiting"] /\ worker[n] = "pushing"
        /\ UNCHANGED <<deferred, done, cancelled, stopping, closed>>
    BY <1>7 DEF WorkerHasPushed, clipService
  <2> QED
    BY <2>1 DEF QuietInv, StopMeansQuiet
<1>8. ASSUME NEW n \in Start, WorkerExits(n) PROVE QuietInv'
  <2>1. /\ worker' = [worker EXCEPT ![n] = "exited"] /\ worker[n] = "waiting"
        /\ closed' = closed \cup {deferred[n]}
        /\ UNCHANGED <<deferred, done, cancelled, stopping>>
    BY <1>8 DEF WorkerExits, clipService
  <2> QED
    BY <2>1 DEF QuietInv, StopMeansQuiet
<1>9. CASE StopBegins
  BY <1>9 DEF StopBegins, QuietInv, StopMeansQuiet
<1>10. ASSUME NEW n \in Start, StopReturns(n) PROVE QuietInv'
  <2>1. /\ n \in closed /\ stopping' = stopping \ {n}
        /\ UNCHANGED <<worker, deferred, done, cancelled, closed>>
    BY <1>10 DEF StopReturns
  <2>2. worker[n] = "exited" \/ \E m \in Start \ {n} : deferred[m] = n
    BY <2>1 DEF QuietInv
  <2> QED
    BY <2>1, <2>2 DEF QuietInv, StopMeansQuiet
<1>11. CASE UNCHANGED clipVars
  BY <1>1, <1>11 DEF clipVars
<1> QED
  BY <1>2, <1>3, <1>4, <1>5, <1>6, <1>7, <1>8, <1>9, <1>10, <1>11
  DEF ClipNext, WorkerStep

(* StopClipboardService (daemon_clipboard.go) waits for the channel of its *)
(* worker: once it has returned that worker is gone, unless another worker *)
(* took its channel for its own.                                           *)
THEOREM StopIsQuiet == ClipSpec => []StopMeansQuiet
<1>1. ClipInit => QuietInv
  BY DEF ClipInit, QuietInv, StopMeansQuiet
<1>2. QuietInv => StopMeansQuiet
  BY DEF QuietInv
<1> QED
  BY <1>1, QuietNext, <1>2, PTL DEF ClipSpec

-----------------------------------------------------------------------------
(* MediaRelay: the phone is not left with an old state *)

Event == {"state", "position"}
InHand(s) == sending[s] \in {"list", "pin", "write"}

Frame == Nat \X Nat \X Nat

RelayTypes ==
    /\ version \in Nat
    /\ announced \in Nat /\ announced <= version
    /\ buffer \in Seq(Event)
    /\ DOMAIN sending = Sender
    /\ frame \in [Sender -> Frame]
    /\ view \in Frame

(* A frame is put together from what the state was, its list not before    *)
(* its active player and its pin not before its list.                      *)
FramesInOrder ==
    /\ \A s \in Sender :
           /\ InHand(s) => frame[s][1] <= version
           /\ sending[s] \in {"pin", "write"} =>
                  frame[s][1] <= frame[s][2] /\ frame[s][2] <= version
           /\ sending[s] = "write" =>
                  frame[s][2] <= frame[s][3] /\ frame[s][3] <= version
    /\ view[1] <= view[2] /\ view[2] <= view[3] /\ view[3] <= version

(* Of two frames put together at once, one has read nothing older than     *)
(* what the phone shows: the sender that wrote last was then not reading.  *)
OneIsRecent ==
    (\A s \in Sender : InHand(s)) => \E s \in Sender : view[3] <= frame[s][1]

(* A change that still makes somebody read the state, or that cannot.      *)
Covered ==
    \/ HasState(buffer)
    \/ \E s \in Sender : sending[s] = "read"
    \/ news # {}
    \/ starved

(* Otherwise a frame with all that was announced is being put together, or *)
(* is shown, or an older one has been written over it, the last of all.    *)
Reaches ==
    \/ Covered
    \/ view[1] >= announced
    \/ \E s \in Sender : InHand(s) /\ frame[s][1] >= announced
    \/ overtaken /\ \A s \in Sender : ~InHand(s)

RelayInv ==
    /\ RelayTypes
    /\ FramesInOrder
    /\ OneIsRecent
    /\ subscribed => Reaches

LEMMA MoreEvents ==
  ASSUME NEW q \in Seq(Event), NEW e \in Event
  PROVE  /\ Append(q, e) \in Seq(Event)
         /\ HasState(Append(q, e)) <=> HasState(q) \/ e = "state"
<1>1. /\ Append(q, e) \in Seq(Event) /\ Len(Append(q, e)) = Len(q) + 1
      /\ Len(q) \in Nat
      /\ \A i \in 1..Len(q) : Append(q, e)[i] = q[i]
      /\ Append(q, e)[Len(q) + 1] = e
  OBVIOUS
<1> QED
  BY <1>1 DEF HasState

LEMMA FewerEvents ==
  ASSUME NEW q \in Seq(Event), q # <<>>
  PROVE  /\ Tail(q) \in Seq(Event)
         /\ HasState(q) <=> HasState(Tail(q)) \/ Head(q) = "state"
<1>1. /\ Tail(q) \in Seq(Event) /\ Len(Tail(q)) = Len(q) - 1
      /\ Len(q) \in Nat /\ Len(q) > 0
      /\ \A i \in 1..Len(Tail(q)) : Tail(q)[i] = q[i + 1]
      /\ Head(q) = q[1]
  OBVIOUS
<1>2. \A i \in 1..Len(q) : i = 1 \/ i - 1 \in 1..Len(Tail(q))
  BY <1>1
<1>3. \A i \in 1..Len(q) : i # 1 => Tail(q)[i - 1] = q[i]
  BY <1>1, <1>2
<1> QED
  BY <1>1, <1>2, <1>3 DEF HasState

LEMMA RelayInvInit == RelayInit => RelayInv
<1> SUFFICES ASSUME RelayInit PROVE RelayInv
  OBVIOUS
<1>1. /\ version = 0 /\ buffer = <<>> /\ view = <<0, 0, 0>>
      /\ announced = 0 /\ frame = [s \in Sender |-> <<0, 0, 0>>] /\ ~subscribed
      /\ sending = [s \in Sender |-> IF s = "relay" THEN "off" ELSE "idle"]
  BY DEF RelayInit, Unread
<1>2. \A s \in Sender : sending[s] \in {"off", "idle"}
  BY <1>1
<1>3. RelayTypes
  BY <1>1 DEF RelayTypes, Frame
<1>4. FramesInOrder
  BY <1>1, <1>2 DEF FramesInOrder, InHand
<1>5. OneIsRecent
  BY <1>2 DEF OneIsRecent, InHand, Sender
<1> QED
  BY <1>1, <1>3, <1>4, <1>5 DEF RelayInv

(* The state changes: the publication to come covers it.                   *)
LEMMA ChangeKeepsRelayInv ==
  ASSUME RelayInv, NEW n, StateChanges(n),
         UNCHANGED <<buffer, frame, view>>,
         sending' \in {sending, [sending EXCEPT !["worker"] = "publish"]}
  PROVE  RelayInv'
<1>1. version' = version + 1 /\ announced' = version' /\ news' # {}
  BY DEF StateChanges
<1>2. \A s \in Sender : sending'[s] = sending[s] \/ sending'[s] = "publish"
  BY DEF RelayInv, RelayTypes
<1>3. RelayTypes'
  BY <1>1 DEF RelayInv, RelayTypes
<1>4. FramesInOrder'
  BY <1>1, <1>2 DEF RelayInv, RelayTypes, Frame, FramesInOrder, InHand
<1>5. OneIsRecent'
  BY <1>2 DEF RelayInv, OneIsRecent, InHand
<1> QED
  BY <1>1, <1>3, <1>4, <1>5 DEF RelayInv, Reaches, Covered

(* A change of the pin alone owes the phone nothing.                       *)
LEMMA PinChangeKeepsRelayInv ==
  ASSUME RelayInv, OnlyPinChanges,
         UNCHANGED <<announced, subscribed, buffer, sending, frame, view,
                     starved, overtaken>>
  PROVE  RelayInv'
<1>1. version' = version + 1 /\ UNCHANGED news
  BY DEF OnlyPinChanges
<1>2. RelayTypes'
  BY <1>1 DEF RelayInv, RelayTypes
<1>3. FramesInOrder'
  BY <1>1 DEF RelayInv, RelayTypes, Frame, FramesInOrder, InHand
<1>4. OneIsRecent'
  BY DEF RelayInv, OneIsRecent, InHand
<1> QED
  BY <1>1, <1>2, <1>3, <1>4 DEF RelayInv, Reaches, Covered, InHand

LEMMA PublishKeepsRelayInv ==
  ASSUME RelayInv, NEW n \in Notifier, Publish(n)
  PROVE  RelayInv'
<1>1. /\ buffer' = Queued("state")
      /\ starved' = (starved \/ (subscribed /\ ~HasState(buffer')))
      /\ sending' = IF n = "worker" THEN [sending EXCEPT !["worker"] = "read"]
                    ELSE sending
      /\ UNCHANGED <<version, announced, subscribed, frame, view, overtaken>>
  BY DEF Publish
<1>2. \A s \in Sender : sending'[s] = sending[s] \/ sending'[s] = "read"
  BY <1>1 DEF RelayInv, RelayTypes
<1>3. RelayTypes'
  BY <1>1, MoreEvents DEF RelayInv, RelayTypes, Queued, Event
<1>4. FramesInOrder'
  BY <1>1, <1>2 DEF RelayInv, FramesInOrder, InHand
<1>5. OneIsRecent'
  BY <1>1, <1>2 DEF RelayInv, OneIsRecent, InHand
<1>6. subscribed => Covered'
  BY <1>1 DEF Covered
<1> QED
  BY <1>1, <1>3, <1>4, <1>5, <1>6 DEF RelayInv, Reaches

LEMMA EventKeepsRelayInv ==
  ASSUME RelayInv, PositionMoves \/ TakeEvent
  PROVE  RelayInv'
<1>1. UNCHANGED <<stateVars, subscribed, frame, view, starved, overtaken>>
  BY DEF PositionMoves, TakeEvent
<1> USE DEF stateVars
<1>2. /\ buffer' \in Seq(Event) /\ DOMAIN sending' = Sender
      /\ \A s \in Sender : InHand(s)' <=> InHand(s)
      /\ \A s \in Sender : sending[s] \in {"read", "list", "pin", "write"} =>
             sending'[s] = sending[s]
      /\ \A s \in Sender : sending'[s] \in {"pin", "write"} =>
             sending'[s] = sending[s]
      /\ HasState(buffer) =>
             HasState(buffer') \/ \E s \in Sender : sending'[s] = "read"
  <2>1. CASE PositionMoves
    <3>1. sending' = sending /\ buffer' = Append(buffer, "position")
      BY <2>1 DEF PositionMoves, Queued
    <3> QED
      BY <3>1, MoreEvents DEF RelayInv, RelayTypes, InHand, Event
  <2>2. CASE TakeEvent
    <3>1. /\ sending["relay"] = "wait" /\ buffer # <<>> /\ buffer' = Tail(buffer)
          /\ sending' = [sending EXCEPT !["relay"] =
                             IF Head(buffer) = "state" THEN "read" ELSE "wait"]
      BY <2>2 DEF TakeEvent
    <3>2. /\ DOMAIN sending' = Sender
          /\ sending'["relay"] = IF Head(buffer) = "state" THEN "read" ELSE "wait"
          /\ \A s \in Sender \ {"relay"} : sending'[s] = sending[s]
      BY <3>1 DEF RelayInv, RelayTypes, Sender
    <3>3. Tail(buffer) \in Seq(Event)
          /\ (HasState(buffer) <=> HasState(Tail(buffer)) \/ Head(buffer) = "state")
      BY <3>1, FewerEvents DEF RelayInv, RelayTypes
    <3> QED
      BY <3>1, <3>2, <3>3 DEF InHand, Sender
  <2> QED
    BY <2>1, <2>2
<1>3. RelayTypes'
  BY <1>1, <1>2 DEF RelayInv, RelayTypes
<1>4. FramesInOrder'
  BY <1>1, <1>2 DEF RelayInv, FramesInOrder
<1>5. OneIsRecent'
  BY <1>1, <1>2 DEF RelayInv, OneIsRecent
<1>6. Covered => Covered'
  BY <1>1, <1>2 DEF Covered
<1>7. subscribed => Reaches'
  BY <1>1, <1>2, <1>6 DEF RelayInv, Reaches
<1> QED
  BY <1>1, <1>3, <1>4, <1>5, <1>7 DEF RelayInv

(* A sender is about to read the state: whatever it is, it is covered.     *)
LEMMA ReadKeepsRelayInv ==
  ASSUME RelayInv, NEW s \in Sender,
         sending' = [sending EXCEPT ![s] = "read"],
         version' \in {version, version + 1},
         announced' \in {announced, version'},
         UNCHANGED <<buffer, frame, view>>
  PROVE  RelayInv'
<1>1. sending'[s] = "read" /\ \A u \in Sender \ {s} : sending'[u] = sending[u]
  BY DEF RelayInv, RelayTypes
<1>2. RelayTypes' /\ FramesInOrder'
  BY <1>1 DEF RelayInv, RelayTypes, Frame, FramesInOrder, InHand
<1>3. OneIsRecent' /\ Covered'
  BY <1>1 DEF OneIsRecent, Covered, InHand
<1> QED
  BY <1>2, <1>3 DEF RelayInv, Reaches

LEMMA ReadActiveKeepsRelayInv ==
  ASSUME RelayInv, NEW s \in Sender, ReadActive(s)
  PROVE  RelayInv'
<1>1. /\ frame' = [frame EXCEPT ![s] = <<version, 0, 0>>]
      /\ sending' = [sending EXCEPT ![s] = "list"]
      /\ UNCHANGED <<version, announced, buffer, view>>
  BY DEF ReadActive, stateVars
<1>2. /\ sending'[s] = "list" /\ frame'[s] = <<version, 0, 0>>
      /\ \A u \in Sender \ {s} : sending'[u] = sending[u] /\ frame'[u] = frame[u]
  BY <1>1 DEF RelayInv, RelayTypes
<1>3. RelayTypes'
  BY <1>1 DEF RelayInv, RelayTypes, Frame
<1>4. InHand(s)' /\ frame'[s][1] = version' /\ version' \in Nat
      /\ announced' <= version'
  BY <1>1, <1>2 DEF InHand, RelayInv, RelayTypes
<1>5. FramesInOrder'
  BY <1>1, <1>2, <1>4 DEF RelayInv, FramesInOrder, InHand
<1>6. OneIsRecent'
  BY <1>4, <1>5 DEF OneIsRecent, FramesInOrder
<1>7. Reaches'
  BY <1>3, <1>4 DEF Reaches, RelayTypes
<1> QED
  BY <1>3, <1>5, <1>6, <1>7 DEF RelayInv

(* The list and the pin are read from the state of that moment.            *)
LEMMA ReadRestKeepsRelayInv ==
  ASSUME RelayInv, NEW s \in Sender, ReadList(s) \/ ReadPin(s)
  PROVE  RelayInv'
<1>1. /\ UNCHANGED <<version, announced, news, subscribed, buffer, view,
                     starved, overtaken>>
      /\ InHand(s)
      /\ \/ /\ frame' = [frame EXCEPT ![s][2] = version]
            /\ sending' = [sending EXCEPT ![s] = "pin"]
         \/ /\ sending[s] = "pin"
            /\ frame' = [frame EXCEPT ![s][3] = version]
            /\ sending' = [sending EXCEPT ![s] = "write"]
  BY DEF ReadList, ReadPin, stateVars, InHand
<1>2. /\ frame[s] \in Frame /\ version \in Nat
      /\ \A u \in Sender \ {s} : sending'[u] = sending[u] /\ frame'[u] = frame[u]
  BY <1>1 DEF RelayInv, RelayTypes
<1>3. \/ /\ frame'[s] = <<frame[s][1], version, frame[s][3]>>
         /\ sending'[s] = "pin"
      \/ /\ sending[s] = "pin" /\ sending'[s] = "write"
         /\ frame'[s] = <<frame[s][1], frame[s][2], version>>
  BY <1>1, <1>2 DEF RelayInv, RelayTypes, Frame
<1>4. RelayTypes'
  <2>1. frame'[s] \in Frame
    BY <1>2, <1>3 DEF Frame
  <2> QED
    BY <1>1, <1>2, <2>1 DEF RelayInv, RelayTypes
<1>5. \A u \in Sender : (InHand(u)' <=> InHand(u)) /\ frame'[u][1] = frame[u][1]
  BY <1>1, <1>2, <1>3 DEF InHand
<1>6. FramesInOrder'
  BY <1>1, <1>2, <1>3, <1>5 DEF RelayInv, FramesInOrder, InHand, Frame
<1>7. OneIsRecent'
  BY <1>1, <1>5 DEF RelayInv, OneIsRecent
<1>8. Covered => Covered'
  BY <1>1, <1>2 DEF Covered, InHand
<1>9. subscribed => Reaches'
  BY <1>1, <1>5, <1>8 DEF RelayInv, Reaches
<1> QED
  BY <1>1, <1>4, <1>6, <1>7, <1>9 DEF RelayInv

(* The frame that is written has all that was announced, or the phone has  *)
(* shown that already, or the other sender's frame is more recent.         *)
LEMMA WriteKeepsRelayInv ==
  ASSUME RelayInv, NEW s \in Sender, WriteFrame(s)
  PROVE  RelayInv'
<1>1. /\ sending[s] = "write"
      /\ view' = frame[s]
      /\ frame' = [frame EXCEPT ![s] = <<0, 0, 0>>]
      /\ sending' = [sending EXCEPT ![s] = IF s = "relay" THEN "wait" ELSE "idle"]
      /\ overtaken' = (\E i \in 1..3 : frame[s][i] < view[i])
      /\ UNCHANGED <<version, announced, news, subscribed, buffer, starved>>
  BY DEF WriteFrame, Shows, Unread, stateVars
<1>2. /\ ~InHand(s)' /\ frame'[s] = <<0, 0, 0>>
      /\ sending'[s] \notin {"pin", "write"}
      /\ \A u \in Sender \ {s} : sending'[u] = sending[u] /\ frame'[u] = frame[u]
  BY <1>1 DEF RelayInv, RelayTypes, InHand
<1>3. /\ version \in Nat /\ announced \in Nat
      /\ view \in Frame /\ frame[s] \in Frame
      /\ frame[s][1] <= frame[s][2] /\ frame[s][2] <= frame[s][3]
      /\ frame[s][3] <= version
      /\ view[1] <= view[2] /\ view[2] <= view[3]
  BY <1>1 DEF RelayInv, RelayTypes, FramesInOrder
<1>4. RelayTypes'
  BY <1>1, <1>3 DEF RelayInv, RelayTypes, Frame
<1>5. FramesInOrder'
  BY <1>1, <1>2, <1>3 DEF RelayInv, FramesInOrder, InHand
<1>6. OneIsRecent'
  BY <1>2 DEF OneIsRecent
<1>7. ASSUME subscribed PROVE Reaches'
  <2>1. CASE Covered
    <3>1. Covered'
      BY <1>1, <1>2, <2>1 DEF Covered
    <3> QED
      BY <3>1 DEF Reaches
  <2>2. CASE frame[s][1] >= announced
    BY <1>1, <2>2 DEF Reaches
  <2>3. ASSUME NEW u \in Sender \ {s}, InHand(u), frame[u][1] >= announced
        PROVE  Reaches'
    <3>1. InHand(u)' /\ frame'[u][1] >= announced'
      BY <1>1, <1>2, <2>3 DEF InHand
    <3> QED
      BY <3>1 DEF Reaches
  <2>4. ASSUME view[1] >= announced, ~(frame[s][1] >= announced)
        PROVE  Reaches'
    <3>1. overtaken'
      BY <1>1, <1>3, <2>4 DEF Frame
    <3>2. CASE \A u \in Sender : ~InHand(u)'
      BY <3>1, <3>2 DEF Reaches
    <3>3. ASSUME NEW u \in Sender, InHand(u)' PROVE Reaches'
      <4>1. u # s /\ InHand(u) /\ InHand(s)
        BY <1>1, <1>2, <3>3 DEF InHand
      <4>2. \A w \in Sender : w = u \/ w = s
        BY <4>1 DEF Sender
      <4>3. view[3] <= frame[u][1] \/ view[3] <= frame[s][1]
        BY <4>1, <4>2 DEF RelayInv, OneIsRecent
      <4>4. frame[u] \in Frame
        BY DEF RelayInv, RelayTypes
      <4>5. frame[u][1] >= announced
        BY <1>3, <2>4, <4>3, <4>4 DEF Frame
      <4> QED
        BY <2>3, <4>1, <4>5
    <3> QED
      BY <3>2, <3>3
  <2> QED
    BY <1>1, <1>7, <2>1, <2>2, <2>3, <2>4 DEF RelayInv, Reaches, InHand
<1> QED
  BY <1>1, <1>4, <1>5, <1>6, <1>7 DEF RelayInv

LEMMA RelayEndsKeepsRelayInv ==
  ASSUME RelayInv, RelayEnds
  PROVE  RelayInv'
<1>1. /\ sending' = [sending EXCEPT !["relay"] = "ended"]
      /\ subscribed' = FALSE /\ buffer' = <<>>
      /\ UNCHANGED <<version, announced, frame, view>>
  BY DEF RelayEnds, stateVars
<1>2. \A s \in Sender : sending'[s] = sending[s] \/ sending'[s] = "ended"
  BY <1>1 DEF RelayInv, RelayTypes
<1>3. RelayTypes' /\ FramesInOrder'
  BY <1>1, <1>2 DEF RelayInv, RelayTypes, Frame, FramesInOrder, InHand
<1>4. OneIsRecent'
  BY <1>1, <1>2 DEF RelayInv, OneIsRecent, InHand
<1> QED
  BY <1>1, <1>3, <1>4 DEF RelayInv

LEMMA RelayInvNext == RelayInv /\ [RelayNext]_relayVars => RelayInv'
<1> SUFFICES ASSUME RelayInv, [RelayNext]_relayVars PROVE RelayInv'
  OBVIOUS
<1>1. ASSUME NEW n \in Notifier, HostChangesState(n) PROVE RelayInv'
  BY <1>1, ChangeKeepsRelayInv, PinChangeKeepsRelayInv DEF HostChangesState
<1>2. CASE PhoneCommand
  <2>1. UNCHANGED <<buffer, frame, view>>
    BY <1>2 DEF PhoneCommand
  <2>2. CASE /\ StateChanges("worker")
             /\ sending' = [sending EXCEPT !["worker"] = "publish"]
    BY <2>1, <2>2, ChangeKeepsRelayInv
  <2>3. CASE /\ sending' = [sending EXCEPT !["worker"] = "read"]
             /\ \/ OnlyPinChanges /\ announced' = version'
                \/ UNCHANGED stateVars
    BY <2>1, <2>3, ReadKeepsRelayInv DEF Sender, OnlyPinChanges, stateVars
  <2> QED
    BY <1>2, <2>2, <2>3 DEF PhoneCommand
<1>3. CASE Subscribe
  BY <1>3, ReadKeepsRelayInv DEF Subscribe, Sender, stateVars
<1>4. CASE UNCHANGED relayVars
  <2>1. UNCHANGED <<version, announced, news, subscribed, buffer, sending,
                    frame, view, starved, overtaken>>
    BY <1>4 DEF relayVars, stateVars
  <2> QED
    BY <2>1 DEF RelayInv, RelayTypes, Frame, FramesInOrder, OneIsRecent, Reaches,
                Covered, InHand
<1> QED
  BY <1>1, <1>2, <1>3, <1>4, PublishKeepsRelayInv, EventKeepsRelayInv,
     ReadActiveKeepsRelayInv, ReadRestKeepsRelayInv, WriteKeepsRelayInv,
     RelayEndsKeepsRelayInv DEF RelayNext

(* startMultimediaSyncOnce and sendMultimediaStateFrame (session/media.go) *)
(* read without the connection and write with it: the phone is left with   *)
(* less than was announced to it, or than it asked for itself, only when   *)
(* an event was dropped or a frame overtaken.                              *)
THEOREM PhoneIsKeptCurrent == RelaySpec => []PhoneViewCurrent
<1>1. RelayInv => PhoneViewCurrent
  <2> SUFFICES ASSUME RelayInv, subscribed, ~Covered, ~overtaken,
                      \A s \in Sender : ~InHand(s)
               PROVE  \A i \in 1..3 : view[i] >= announced
    BY DEF PhoneViewCurrent, Covered, InHand
  <2>1. view[1] >= announced
    BY DEF RelayInv, Reaches
  <2>2. /\ view \in Frame /\ announced \in Nat
        /\ view[1] <= view[2] /\ view[2] <= view[3]
    BY DEF RelayInv, RelayTypes, FramesInOrder
  <2> QED
    BY <2>1, <2>2 DEF Frame
<1> QED
  BY RelayInvInit, RelayInvNext, <1>1, PTL DEF RelaySpec

-----------------------------------------------------------------------------
(* Mpris: the cache catches up with the bus *)

Status == {"Playing", "Paused", "gone"}
PlayerState == [status : Status, owner : Nat]
Signal == [kind : {"owner", "changed", "invalidated"}, player : Player,
           owner : Nat, status : Status]

(* A signal about the properties of the player that owns the name now, a   *)
(* queue without one, and one whose last such signal leads to its status.  *)
Concerns(s, p, owner) == s.kind # "owner" /\ s.player = p /\ s.owner = owner

Silent(q, p, owner) == \A i \in 1..Len(q) : ~Concerns(q[i], p, owner)

Tells(s, status) == s.kind = "invalidated" \/ s.status = status

EndsWith(q, p, owner, status) ==
    \E i \in 1..Len(q) :
        /\ Concerns(q[i], p, owner) /\ Tells(q[i], status)
        /\ \A j \in 1..Len(q) : i < j => ~Concerns(q[j], p, owner)

OwnerQueued(q) == \E i \in 1..Len(q) : q[i].kind = "owner"

MediaTypes ==
    /\ changes \in Nat
    /\ bus \in [Player -> PlayerState]
    /\ cache \in [Player -> PlayerState]
    /\ found \in [Player -> PlayerState]
    /\ signals \in Seq(Signal)
    /\ monitor \in {"fetch", "apply"} => update \in Player \X Status
    /\ monitor # "ask" => found = [p \in Player |-> Gone]

(* The unique names of the bus are used once: a name that is new is in no  *)
(* signal and not known, and a player that is gone has none.               *)
OwnersAreNew ==
    /\ \A p \in Player :
           /\ bus[p].owner <= changes
           /\ cache[p].owner <= changes /\ found[p].owner <= changes
           /\ bus[p] = Gone \/ bus[p].owner >= 1
    /\ \A i \in 1..Len(signals) :
           /\ signals[i].owner <= changes
           /\ signals[i].kind = "owner" \/ signals[i].owner >= 1

SilentOn(p) == Silent(signals, p, bus[p].owner)

Announced ==
    \A p \in Player : SilentOn(p) \/ EndsWith(signals, p, bus[p].owner, bus[p].status)

(* What is known of a player is right but for the signals still queued: of *)
(* one whose name has changed hands, nothing.                              *)
Knows(known, p) ==
    /\ known.owner = 0 => known.status = "gone"
    /\ known.owner = bus[p].owner /\ SilentOn(p) => known.status = bus[p].status
    /\ OwnerQueued(signals) \/ known.owner = bus[p].owner

Collected == \A p \in Player \ (missed \cup asked) : Knows(found[p], p)

Awaited(p) == monitor \in {"fetch", "apply"} /\ update[1] = p

Kept ==
    \A p \in Player \ missed :
        /\ cache[p].owner = 0 => cache[p].status = "gone"
        /\ cache[p].owner = bus[p].owner /\ SilentOn(p) =>
               /\ ~Awaited(p) => cache[p].status = bus[p].status
               /\ monitor = "apply" /\ update[1] = p => update[2] = bus[p].status
        /\ \/ monitor = "list" \/ OwnerQueued(signals)
           \/ cache[p].owner = bus[p].owner

(* A status that is applied or fetched is that of a player the cache has.  *)
Known == monitor \in {"fetch", "apply"} => cache[update[1]].owner >= 1

CatchUp ==
    /\ monitor # "exited"
    /\ Announced
    /\ Known
    /\ IF monitor = "ask" THEN Collected ELSE Kept

CacheInv ==
    /\ MediaTypes
    /\ OwnersAreNew
    /\ lifecycle \in {"starting", "up"} => CatchUp

LEMMA SignalInQueue ==
  ASSUME NEW q \in Seq(Signal), NEW i \in 1..Len(q)
  PROVE  q[i] \in Signal /\ q[i].owner \in Nat
<1>1. q[i] \in Signal
  OBVIOUS
<1> QED
  BY <1>1 DEF Signal

LEMMA QueuedSignal ==
  ASSUME NEW q \in Seq(Signal), NEW s \in Signal, NEW p, NEW owner, NEW status
  PROVE  /\ Append(q, s) \in Seq(Signal)
         /\ OwnerQueued(Append(q, s)) <=> OwnerQueued(q) \/ s.kind = "owner"
         /\ ~Concerns(s, p, owner) =>
                /\ Silent(Append(q, s), p, owner) <=> Silent(q, p, owner)
                /\ EndsWith(q, p, owner, status) =>
                       EndsWith(Append(q, s), p, owner, status)
         /\ Concerns(s, p, owner) =>
                /\ ~Silent(Append(q, s), p, owner)
                /\ Tells(s, status) => EndsWith(Append(q, s), p, owner, status)
<1> DEFINE r == Append(q, s)
           n == Len(q)
<1>1. /\ r \in Seq(Signal) /\ Len(r) = n + 1 /\ n \in Nat
      /\ \A i \in 1..n : r[i] = q[i]
      /\ r[n + 1] = s
  OBVIOUS
<1> HIDE DEF r, n
<1>2. /\ \A i \in 1..n : i \in 1..Len(r)
      /\ \A i \in 1..Len(r) : i \in 1..n \/ i = n + 1
      /\ n + 1 \in 1..Len(r)
      /\ \A j \in 1..Len(r) : ~(n + 1 < j)
  BY <1>1
<1>3. OwnerQueued(r) <=> (\E i \in 1..n : q[i].kind = "owner") \/ s.kind = "owner"
  BY <1>1, <1>2 DEF OwnerQueued
<1>4. ASSUME ~Concerns(s, p, owner)
      PROVE  /\ Silent(r, p, owner) <=> \A i \in 1..n : ~Concerns(q[i], p, owner)
             /\ (\E i \in 1..n :
                   /\ Concerns(q[i], p, owner) /\ Tells(q[i], status)
                   /\ \A j \in 1..n : i < j => ~Concerns(q[j], p, owner))
                => EndsWith(r, p, owner, status)
  <2>1. Silent(r, p, owner) <=> \A i \in 1..n : ~Concerns(q[i], p, owner)
    BY <1>1, <1>2, <1>4 DEF Silent
  <2>2. ASSUME NEW i \in 1..n, Concerns(q[i], p, owner), Tells(q[i], status),
               \A j \in 1..n : i < j => ~Concerns(q[j], p, owner)
        PROVE  EndsWith(r, p, owner, status)
    <3>1. i \in 1..Len(r) /\ Concerns(r[i], p, owner) /\ Tells(r[i], status)
      BY <1>1, <1>2, <2>2
    <3>2. \A j \in 1..Len(r) : i < j => ~Concerns(r[j], p, owner)
      BY <1>1, <1>2, <1>4, <2>2
    <3> QED
      BY <3>1, <3>2 DEF EndsWith
  <2> QED
    BY <2>1, <2>2
<1>5. ASSUME Concerns(s, p, owner)
      PROVE  /\ ~Silent(r, p, owner)
             /\ Tells(s, status) => EndsWith(r, p, owner, status)
  BY <1>1, <1>2, <1>5 DEF Silent, EndsWith
<1> QED
  BY <1>1, <1>3, <1>4, <1>5 DEF OwnerQueued, Silent, EndsWith, r, n

LEMMA TakenSignal ==
  ASSUME NEW q \in Seq(Signal), q # <<>>, NEW p, NEW owner, NEW status
  PROVE  /\ Head(q) \in Signal /\ Tail(q) \in Seq(Signal)
         /\ OwnerQueued(q) <=> OwnerQueued(Tail(q)) \/ Head(q).kind = "owner"
         /\ Silent(q, p, owner) <=>
                Silent(Tail(q), p, owner) /\ ~Concerns(Head(q), p, owner)
         /\ EndsWith(q, p, owner, status) =>
                \/ EndsWith(Tail(q), p, owner, status)
                \/ /\ Silent(Tail(q), p, owner)
                   /\ Concerns(Head(q), p, owner) /\ Tells(Head(q), status)
         /\ EndsWith(Tail(q), p, owner, status) => ~Silent(Tail(q), p, owner)
<1> DEFINE t == Tail(q)
           h == Head(q)
<1>1. /\ t \in Seq(Signal) /\ Len(t) = Len(q) - 1
      /\ Len(q) \in Nat /\ Len(q) > 0
      /\ \A i \in 1..Len(t) : t[i] = q[i + 1]
      /\ h = q[1] /\ h \in Signal
  OBVIOUS
<1> HIDE DEF t, h
<1>2. /\ \A i \in 1..Len(t) : i + 1 \in 1..Len(q) /\ i + 1 # 1
      /\ \A i \in 1..Len(q) : i = 1 \/ i - 1 \in 1..Len(t)
      /\ 1 \in 1..Len(q)
  BY <1>1
<1>3. \A i \in 1..Len(q) : i # 1 => t[i - 1] = q[i]
  BY <1>1, <1>2
<1>4. OwnerQueued(q) <=> OwnerQueued(t) \/ h.kind = "owner"
  BY <1>1, <1>2, <1>3 DEF OwnerQueued
<1>5. Silent(q, p, owner) <=> Silent(t, p, owner) /\ ~Concerns(h, p, owner)
  BY <1>1, <1>2, <1>3 DEF Silent
<1>6. ASSUME NEW i \in 1..Len(q), Concerns(q[i], p, owner), Tells(q[i], status),
             \A j \in 1..Len(q) : i < j => ~Concerns(q[j], p, owner)
      PROVE  \/ EndsWith(t, p, owner, status)
             \/ /\ Silent(t, p, owner)
                /\ Concerns(h, p, owner) /\ Tells(h, status)
  <2>1. CASE i = 1
    <3>1. \A j \in 1..Len(t) : ~Concerns(t[j], p, owner)
      <4> SUFFICES ASSUME NEW j \in 1..Len(t) PROVE ~Concerns(t[j], p, owner)
        OBVIOUS
      <4>1. 1 < j + 1 /\ j + 1 \in 1..Len(q) /\ t[j] = q[j + 1]
        BY <1>1, <1>2
      <4> QED
        BY <1>6, <2>1, <4>1
    <3> QED
      BY <1>1, <1>6, <2>1, <3>1 DEF Silent
  <2>2. CASE i # 1
    <3>1. i - 1 \in 1..Len(t) /\ t[i - 1] = q[i]
      BY <1>2, <1>3, <2>2
    <3>2. ASSUME NEW j \in 1..Len(t), i - 1 < j PROVE ~Concerns(t[j], p, owner)
      <4>1. i < j + 1 /\ j + 1 \in 1..Len(q) /\ t[j] = q[j + 1]
        BY <1>1, <1>2, <3>2
      <4> QED
        BY <1>6, <4>1
    <3> QED
      BY <1>6, <3>1, <3>2 DEF EndsWith
  <2> QED
    BY <2>1, <2>2
<1>7. EndsWith(t, p, owner, status) => ~Silent(t, p, owner)
  BY DEF EndsWith, Silent
<1> QED
  BY <1>1, <1>4, <1>5, <1>6, <1>7 DEF EndsWith, t, h

LEMMA GoneIsState == Gone \in PlayerState /\ Gone.owner = 0 /\ Gone.status = "gone"
BY DEF Gone, PlayerState, Status

LEMMA CacheInvInit == MprisInit => CacheInv
<1> SUFFICES ASSUME MprisInit PROVE CacheInv
  OBVIOUS
<1>1. /\ bus = [p \in Player |-> Gone] /\ cache = bus /\ found = bus
      /\ signals = <<>> /\ monitor = "list" /\ changes = 0
  BY DEF MprisInit
<1>2. MediaTypes
  BY <1>1, GoneIsState DEF MediaTypes
<1>3. OwnersAreNew
  BY <1>1, GoneIsState DEF OwnersAreNew
<1>4. CatchUp
  BY <1>1, GoneIsState DEF CatchUp, Announced, Known, Kept, SilentOn, Silent
<1> QED
  BY <1>2, <1>3, <1>4 DEF CacheInv

LEMMA QuietKeepsCacheInv ==
  ASSUME CacheInv, changes' \in {changes, changes + 1},
         UNCHANGED <<bus, signals, cache, monitor, asked, found, update, missed>>,
         lifecycle' \in {"starting", "up"} => lifecycle \in {"starting", "up"}
  PROVE  CacheInv'
<1>1. MediaTypes'
  BY DEF CacheInv, MediaTypes
<1>2. OwnersAreNew'
  <2>1. /\ changes \in Nat
        /\ \A p \in Player : /\ bus[p].owner \in Nat /\ cache[p].owner \in Nat
                             /\ found[p].owner \in Nat
    BY DEF CacheInv, MediaTypes, PlayerState
  <2>2. \A i \in 1..Len(signals) : signals[i].owner \in Nat
    BY SignalInQueue DEF CacheInv, MediaTypes
  <2> QED
    BY <2>1, <2>2 DEF CacheInv, OwnersAreNew
<1>3. CatchUp => CatchUp'
  BY DEF CatchUp, Announced, Known, Collected, Kept, Knows, SilentOn, Awaited
<1> QED
  BY <1>1, <1>2, <1>3 DEF CacheInv

(* What a player does: its state on the bus and a signal, if anybody       *)
(* listens.                                                                *)
LEMMA PlayerSignals ==
  ASSUME CacheInv, NEW p \in Player, NEW now \in PlayerState,
         Changes(p, now), NEW kind \in {"owner", "changed", "invalidated"},
         NEW owner \in Nat, NEW status \in Status,
         Signalled(kind, p, owner, status),
         now = Gone \/ (now.owner >= 1 /\ now.owner <= changes + 1),
         kind = "owner" \/ (owner >= 1 /\ owner <= changes + 1),
         kind = "owner" => owner = 0
  PROVE  /\ MediaTypes' /\ OwnersAreNew'
         /\ UNCHANGED <<cache, lifecycle, monitor, asked, found, update, missed>>
         /\ bus'[p] = now /\ \A r \in Player \ {p} : bus'[r] = bus[r]
<1> DEFINE s == [kind |-> kind, player |-> p, owner |-> owner, status |-> status]
<1>1. /\ bus' = [bus EXCEPT ![p] = now] /\ changes' = changes + 1
      /\ UNCHANGED <<cache, lifecycle, monitor, asked, found, update, missed>>
      /\ signals' \in {signals, Append(signals, s)}
  BY DEF Changes, MprisHappens, mprisCache, mprisMonitor, Signalled
<1>2. /\ s \in Signal /\ signals \in Seq(Signal) /\ changes \in Nat
      /\ bus \in [Player -> PlayerState]
      /\ s.kind = kind /\ s.owner = owner
  BY DEF Signal, CacheInv, MediaTypes
<1> HIDE DEF s
<1>3. signals' \in Seq(Signal)
  BY <1>1, <1>2
<1>4. MediaTypes'
  BY <1>1, <1>2, <1>3 DEF CacheInv, MediaTypes
<1>5. ASSUME NEW r \in Player
      PROVE  /\ bus'[r].owner <= changes'
             /\ cache'[r].owner <= changes' /\ found'[r].owner <= changes'
             /\ bus'[r] = Gone \/ bus'[r].owner >= 1
  <2>1. bus'[r] = now \/ bus'[r] = bus[r]
    BY <1>1, <1>2
  <2>2. bus[r].owner \in Nat /\ bus[r].owner <= changes
        /\ (bus[r] = Gone \/ bus[r].owner >= 1)
    BY <1>2 DEF CacheInv, OwnersAreNew, PlayerState
  <2>3. now.owner \in Nat
    BY DEF PlayerState
  <2>4. /\ cache[r].owner \in Nat /\ cache[r].owner <= changes
        /\ found[r].owner \in Nat /\ found[r].owner <= changes
    BY DEF CacheInv, MediaTypes, OwnersAreNew, PlayerState
  <2> QED
    BY <1>1, <1>2, <2>1, <2>2, <2>3, <2>4, GoneIsState
<1>6. ASSUME NEW i \in 1..Len(signals')
      PROVE  /\ signals'[i].owner <= changes'
             /\ signals'[i].kind = "owner" \/ signals'[i].owner >= 1
  <2>1. \/ i \in 1..Len(signals) /\ signals'[i] = signals[i]
        \/ signals'[i] = s
    BY <1>1, <1>2
  <2>2. CASE i \in 1..Len(signals) /\ signals'[i] = signals[i]
    <3>1. signals[i].owner \in Nat
      BY <1>2, <2>2, SignalInQueue
    <3> QED
      BY <1>1, <1>2, <2>2, <3>1 DEF CacheInv, OwnersAreNew
  <2>3. CASE signals'[i] = s
    BY <1>1, <1>2, <2>3
  <2> QED
    BY <2>1, <2>2, <2>3
<1>7. OwnersAreNew'
  BY <1>5, <1>6 DEF OwnersAreNew
<1> QED
  BY <1>1, <1>2, <1>4, <1>7

(* A name that changes hands makes the monitor refresh; no signal concerns *)
(* its new owner yet, and nothing is known of it.                          *)
LEMMA NameChangeKeepsCacheInv ==
  ASSUME CacheInv, NEW p \in Player, NEW now \in PlayerState,
         now = Gone \/ now.owner = changes + 1,
         Changes(p, now), Signalled("owner", p, 0, "gone")
  PROVE  CacheInv'
<1> DEFINE s == [kind |-> "owner", player |-> p, owner |-> 0, status |-> "gone"]
<1>1. /\ signals \in Seq(Signal) /\ changes \in Nat /\ s \in Signal
      /\ "gone" \in Status
  BY DEF CacheInv, MediaTypes, Signal, Status
<1>2. /\ MediaTypes' /\ OwnersAreNew'
      /\ UNCHANGED <<cache, lifecycle, monitor, asked, found, update, missed>>
      /\ bus'[p] = now /\ \A r \in Player \ {p} : bus'[r] = bus[r]
  BY <1>1, PlayerSignals
<1>3. ASSUME lifecycle \in {"starting", "up"} PROVE CatchUp'
  <2>1. signals' = Append(signals, s)
    BY <1>3 DEF Signalled
  <2>2. \A r, o : ~Concerns(s, r, o)
    BY DEF Concerns
  <2> HIDE DEF s
  <2>3. OwnerQueued(signals')
    BY <1>1, <2>1, QueuedSignal DEF s
  <2>4. Silent(signals, p, now.owner)
    <3> SUFFICES ASSUME NEW i \in 1..Len(signals), signals[i].kind # "owner"
                 PROVE  signals[i].owner # now.owner
      BY DEF Silent, Concerns
    <3>1. signals[i].owner \in Nat /\ signals[i].owner <= changes
          /\ signals[i].owner >= 1
      BY <1>1, SignalInQueue DEF CacheInv, OwnersAreNew
    <3> QED
      BY <1>1, <3>1, GoneIsState
  <2>5. ASSUME NEW r \in Player
        PROVE  \/ Silent(signals', r, bus'[r].owner)
               \/ EndsWith(signals', r, bus'[r].owner, bus'[r].status)
    <3>1. \/ Silent(signals, r, bus'[r].owner)
          \/ EndsWith(signals, r, bus'[r].owner, bus'[r].status)
      BY <1>2, <1>3, <2>4 DEF CacheInv, CatchUp, Announced, SilentOn
    <3> QED
      BY <1>1, <2>1, <2>2, <3>1, QueuedSignal
  <2>6. Announced'
    BY <2>5 DEF Announced, SilentOn
  <2>7. \A r \in Player \ {p} : SilentOn(r)' <=> SilentOn(r)
    BY <1>1, <1>2, <2>1, <2>2, QueuedSignal DEF SilentOn
  <2>8. /\ cache[p].owner \in Nat /\ cache[p].owner <= changes
        /\ found[p].owner \in Nat /\ found[p].owner <= changes
    BY DEF CacheInv, MediaTypes, OwnersAreNew, PlayerState
  <2>9. \/ now.owner = 0 /\ now.status = "gone"
        \/ now.owner = changes + 1
    BY GoneIsState
  <2>10. Collected => Collected'
    BY <1>1, <1>2, <2>3, <2>7, <2>8, <2>9 DEF Collected, Knows
  <2>11. Known /\ Kept => Kept'
    <3> SUFFICES ASSUME Known, Kept, NEW r \in Player \ missed
                 PROVE  /\ cache[r].owner = 0 => cache[r].status = "gone"
                        /\ cache[r].owner = bus'[r].owner /\ SilentOn(r)' =>
                               /\ ~Awaited(r) => cache[r].status = bus'[r].status
                               /\ monitor = "apply" /\ update[1] = r =>
                                      update[2] = bus'[r].status
      BY <1>2, <2>3 DEF Kept, Awaited
    <3>1. CASE r = p
      BY <1>1, <1>2, <2>8, <2>9, <3>1 DEF Kept, Known, Awaited
    <3>2. CASE r # p
      BY <1>2, <2>7, <3>2 DEF Kept
    <3> QED
      BY <3>1, <3>2
  <2> QED
    BY <1>2, <1>3, <2>6, <2>10, <2>11 DEF CacheInv, CatchUp, Known
<1> QED
  BY <1>2, <1>3 DEF CacheInv

(* A status that changes is told by the signal that goes with it.          *)
LEMMA StatusChangeKeepsCacheInv ==
  ASSUME CacheInv, NEW p \in Player, NEW kind \in {"changed", "invalidated"},
         PlayerChanges(p, kind)
  PROVE  CacheInv'
<1> DEFINE status == IF bus[p].status = "Playing" THEN "Paused" ELSE "Playing"
           now == [bus[p] EXCEPT !.status = status]
           s == [kind |-> kind, player |-> p, owner |-> bus[p].owner,
                 status |-> status]
<1>1. /\ bus[p] # Gone /\ Changes(p, now)
      /\ Signalled(kind, p, bus[p].owner, status)
  BY DEF PlayerChanges
<1>2. /\ signals \in Seq(Signal) /\ changes \in Nat /\ bus[p] \in PlayerState
      /\ bus[p].owner \in Nat /\ status \in Status
      /\ bus[p].owner >= 1 /\ bus[p].owner <= changes
  BY <1>1 DEF CacheInv, MediaTypes, OwnersAreNew, PlayerState, Status
<1>3. /\ now \in PlayerState /\ now.owner = bus[p].owner /\ now.status = status
      /\ s \in Signal
  BY <1>2 DEF PlayerState, Signal
<1>4. s.status = status /\ Concerns(s, p, bus[p].owner)
      /\ \A r \in Player \ {p} : \A o : ~Concerns(s, r, o)
  BY DEF Concerns
<1>5. lifecycle \in {"starting", "up"} => signals' = Append(signals, s)
  BY <1>1 DEF Signalled
<1>6. now.owner <= changes + 1 /\ bus[p].owner <= changes + 1
  BY <1>2, <1>3
<1> HIDE DEF s, now, status
<1>7. /\ MediaTypes' /\ OwnersAreNew'
      /\ UNCHANGED <<cache, lifecycle, monitor, asked, found, update, missed>>
      /\ bus'[p] = now /\ \A r \in Player \ {p} : bus'[r] = bus[r]
  BY <1>1, <1>2, <1>3, <1>6, PlayerSignals
<1>8. ASSUME lifecycle \in {"starting", "up"} PROVE CatchUp'
  <2>1. signals' = Append(signals, s)
    BY <1>5, <1>8
  <2>2. OwnerQueued(signals) => OwnerQueued(signals')
    BY <1>2, <1>3, <2>1, QueuedSignal
  <2>3. ~SilentOn(p)' /\ EndsWith(signals', p, bus'[p].owner, bus'[p].status)
    BY <1>2, <1>3, <1>4, <1>7, <2>1, QueuedSignal DEF SilentOn, Tells
  <2>4. \A r \in Player \ {p} :
            /\ SilentOn(r)' <=> SilentOn(r)
            /\ EndsWith(signals, r, bus[r].owner, bus[r].status) =>
                   EndsWith(signals', r, bus'[r].owner, bus'[r].status)
    BY <1>2, <1>3, <1>4, <1>7, <2>1, QueuedSignal DEF SilentOn
  <2>5. Announced'
    BY <1>8, <2>3, <2>4 DEF CacheInv, CatchUp, Announced
  <2>6. \A r \in Player : /\ SilentOn(r)' => SilentOn(r) /\ bus'[r] = bus[r]
                          /\ bus'[r].owner = bus[r].owner
    BY <1>3, <1>7, <2>3, <2>4
  <2>7. /\ Collected => Collected'
        /\ Kept => Kept'
    BY <1>7, <2>2, <2>6 DEF Collected, Knows, Kept, Awaited
  <2> QED
    BY <1>7, <1>8, <2>5, <2>7 DEF CacheInv, CatchUp, Known
<1> QED
  BY <1>7, <1>8 DEF CacheInv

LEMMA PlayersKeepCacheInv ==
  ASSUME CacheInv, PlayerStep
  PROVE  CacheInv'
<1>1. ASSUME NEW p \in Player, NEW status \in {"Playing", "Paused"},
             PlayerAppears(p, status)
      PROVE  CacheInv'
  <2> DEFINE now == [status |-> status, owner |-> changes + 1]
  <2>1. Changes(p, now) /\ Signalled("owner", p, 0, "gone")
    BY <1>1 DEF PlayerAppears
  <2>2. now \in PlayerState /\ now.owner = changes + 1
    BY DEF PlayerState, Status, CacheInv, MediaTypes
  <2> HIDE DEF now
  <2> QED
    BY <2>1, <2>2, NameChangeKeepsCacheInv
<1>2. ASSUME NEW p \in Player, PlayerLeaves(p) PROVE CacheInv'
  BY <1>2, GoneIsState, NameChangeKeepsCacheInv DEF PlayerLeaves
<1>3. ASSUME NEW p \in Player, NEW kind \in {"changed", "invalidated"},
             PlayerChanges(p, kind)
      PROVE  CacheInv'
  BY <1>3, StatusChangeKeepsCacheInv
<1>4. ASSUME NEW p \in Player, ControlPlayer(p) PROVE CacheInv'
  BY <1>3, <1>4 DEF ControlPlayer
<1> QED
  BY <1>1, <1>2, <1>3, <1>4 DEF PlayerStep

(* A refresh knows what it has queried, and what has left before it asked; *)
(* one that gets no list leaves what was known.                            *)
LEMMA RefreshKeepsCacheInv ==
  ASSUME CacheInv,
         \/ ListNames \/ ListFails \/ ReplaceCache
         \/ \E p \in Player : QueryPlayer(p)
  PROVE  CacheInv'
<1>1. /\ UNCHANGED <<bus, signals, changes>>
      /\ bus \in [Player -> PlayerState] /\ found \in [Player -> PlayerState]
      /\ cache \in [Player -> PlayerState]
      /\ monitor # "ask" => found = [p \in Player |-> Gone]
      /\ \A p \in Player : SilentOn(p)' <=> SilentOn(p)
  BY DEF ListNames, ListFails, ReplaceCache, EndRefresh, QueryPlayer, mprisEnv,
         CacheInv, MediaTypes, SilentOn
<1>2. Announced => Announced'
  BY <1>1 DEF Announced
<1>6. \A p \in Player : bus[p].owner = 0 => bus[p] = Gone
  BY GoneIsState DEF CacheInv, OwnersAreNew
<1>7. changes \in Nat /\ 0 <= changes
  BY DEF CacheInv, MediaTypes
<1>3. CASE ListNames
  <2>1. /\ monitor = "list" /\ monitor' = "ask" /\ asked' = Names(bus)
        /\ UNCHANGED <<cache, lifecycle, found, update>>
    BY <1>3 DEF ListNames, mprisCache
  <2>2. MediaTypes'
    BY <1>1, <2>1 DEF CacheInv, MediaTypes
  <2>3. \A p \in Player : p \in asked' \/ (bus[p] = Gone /\ found'[p] = Gone)
    BY <1>1, <2>1 DEF Names
  <2>4. Collected'
    BY <1>1, <2>1, <2>3, GoneIsState DEF Collected, Knows
  <2>5. OwnersAreNew'
    BY <1>1, <2>1 DEF CacheInv, OwnersAreNew
  <2> QED
    BY <1>1, <1>2, <2>1, <2>2, <2>4, <2>5 DEF CacheInv, CatchUp, Known
<1>8. CASE ListFails
  <2>1. /\ monitor = "list" /\ monitor' = "idle"
        /\ missed' = missed \cup {p \in Player : cache[p].owner # bus[p].owner}
        /\ UNCHANGED <<cache, lifecycle, asked, found, update>>
    BY <1>8 DEF ListFails, mprisCache
  <2>2. MediaTypes' /\ OwnersAreNew'
    BY <1>1, <2>1 DEF CacheInv, MediaTypes, OwnersAreNew
  <2>3. Kept => Kept'
    BY <1>1, <2>1 DEF Kept, Awaited
  <2> QED
    BY <1>1, <1>2, <2>1, <2>2, <2>3 DEF CacheInv, CatchUp, Known
<1>4. CASE ReplaceCache
  <2>1. /\ monitor = "ask" /\ asked = {} /\ monitor' = "idle" /\ cache' = found
        /\ found' = [p \in Player |-> Gone]
        /\ UNCHANGED <<missed, update>>
        /\ lifecycle' \in {"starting", "up"} => lifecycle \in {"starting", "up"}
    BY <1>4 DEF ReplaceCache, EndRefresh, Settle
  <2>2. MediaTypes'
    BY <1>1, <2>1, GoneIsState DEF CacheInv, MediaTypes
  <2>3. Collected => Kept'
    BY <1>1, <2>1 DEF Collected, Knows, Kept, Awaited
  <2>4. OwnersAreNew'
    BY <1>1, <1>7, <2>1, GoneIsState DEF CacheInv, OwnersAreNew
  <2> QED
    BY <1>1, <1>2, <2>1, <2>2, <2>3, <2>4 DEF CacheInv, CatchUp, Known
<1>5. ASSUME NEW p \in Player, QueryPlayer(p) PROVE CacheInv'
  <2>1. /\ monitor = "ask" /\ p \in asked /\ asked' = asked \ {p}
        /\ UNCHANGED <<cache, lifecycle, monitor, update>>
        /\ \/ found' = [found EXCEPT ![p] = bus[p]] /\ missed' = missed
           \/ /\ missed' = missed \cup {p}
              /\ found' \in {found, [found EXCEPT ![p] = [bus[p] EXCEPT !.owner = 0]]}
    BY <1>5 DEF QueryPlayer, mprisCache
  <2>2. [bus[p] EXCEPT !.owner = 0] \in PlayerState
    BY <1>1 DEF PlayerState
  <2>3. MediaTypes'
    BY <1>1, <2>1, <2>2 DEF CacheInv, MediaTypes
  <2>4. \A r \in Player \ {p} : found'[r] = found[r]
    BY <1>1, <2>1
  <2>5. p \in missed' \/ found'[p] = bus[p]
    BY <1>1, <2>1
  <2>6. Collected => Collected'
    BY <1>1, <1>6, <2>1, <2>4, <2>5, GoneIsState DEF Collected, Knows
  <2>7. found'[p].owner <= changes
    <3>1. [bus[p] EXCEPT !.owner = 0].owner = 0
      BY <1>1 DEF PlayerState
    <3> QED
      BY <1>1, <1>7, <2>1, <3>1 DEF CacheInv, OwnersAreNew
  <2>8. OwnersAreNew'
    BY <1>1, <2>1, <2>4, <2>7 DEF CacheInv, OwnersAreNew
  <2> QED
    BY <1>1, <1>2, <2>1, <2>3, <2>6, <2>8 DEF CacheInv, CatchUp, Known
<1> QED
  BY <1>3, <1>4, <1>5, <1>8

(* A signal that the cache does not know the sender of concerns nobody     *)
(* whose entry is right; the last that concerns a player tells its status, *)
(* or makes the monitor ask for it.                                        *)
LEMMA SignalKeepsCacheInv ==
  ASSUME CacheInv, TakeSignal
  PROVE  CacheInv'
<1> DEFINE s == Head(signals)
           known == cache[s.player].owner = s.owner
<1>1. /\ monitor = "idle" /\ signals # <<>> /\ signals' = Tail(signals)
      /\ monitor' = IF s.kind = "owner" THEN "list"
                    ELSE IF ~known THEN "idle"
                    ELSE IF s.kind = "changed" THEN "apply" ELSE "fetch"
      /\ update' = IF monitor' \in {"apply", "fetch"}
                   THEN <<s.player, s.status>> ELSE update
      /\ UNCHANGED <<bus, changes, cache, lifecycle, asked, found, missed>>
  BY DEF TakeSignal, mprisCache
<1>2. /\ signals \in Seq(Signal) /\ s \in Signal /\ Tail(signals) \in Seq(Signal)
      /\ Len(Tail(signals)) = Len(signals) - 1 /\ Len(signals) \in Nat
      /\ \A i \in 1..Len(Tail(signals)) :
             i + 1 \in 1..Len(signals) /\ Tail(signals)[i] = signals[i + 1]
  BY <1>1 DEF CacheInv, MediaTypes
<1>3. /\ s.player \in Player /\ s.status \in Status
      /\ s.kind \in {"owner", "changed", "invalidated"}
  BY <1>2 DEF Signal
<1> HIDE DEF s
<1>4. MediaTypes'
  BY <1>1, <1>2, <1>3 DEF CacheInv, MediaTypes
<1>5. OwnersAreNew'
  BY <1>1, <1>2 DEF CacheInv, OwnersAreNew
<1>6. ASSUME NEW p \in Player
      PROVE  /\ SilentOn(p) <=> SilentOn(p)' /\ ~Concerns(s, p, bus[p].owner)
             /\ EndsWith(signals, p, bus[p].owner, bus[p].status) =>
                    \/ EndsWith(signals', p, bus[p].owner, bus[p].status)
                    \/ SilentOn(p)' /\ Tells(s, bus[p].status)
             /\ EndsWith(signals', p, bus[p].owner, bus[p].status) => ~SilentOn(p)'
  BY <1>1, <1>2, TakenSignal DEF SilentOn, s
<1>7. OwnerQueued(signals) <=> OwnerQueued(signals') \/ s.kind = "owner"
  BY <1>1, <1>2, TakenSignal DEF s
<1>8. Announced => Announced'
  BY <1>1, <1>6 DEF Announced
<1>9. ASSUME Announced, Kept PROVE Kept'
  <2>5. \A p \in Player \ missed :
            /\ cache[p].owner = 0 => cache[p].status = "gone"
            /\ \/ monitor' = "list" \/ OwnerQueued(signals')
               \/ cache[p].owner = bus[p].owner
    BY <1>1, <1>7, <1>9 DEF Kept
  <2> SUFFICES ASSUME NEW p \in Player, p \notin missed,
                      cache[p].owner = bus[p].owner, SilentOn(p)'
               PROVE  /\ ~Awaited(p)' => cache[p].status = bus[p].status
                      /\ monitor' = "apply" /\ update'[1] = p =>
                             update'[2] = bus[p].status
    BY <1>1, <2>5 DEF Kept
  <2>1. SilentOn(p) => cache[p].status = bus[p].status
    BY <1>1, <1>9 DEF Kept, Awaited
  <2>2. CASE Concerns(s, p, bus[p].owner)
    <3>1. known /\ s.player = p /\ s.kind # "owner"
      BY <2>2 DEF Concerns
    <3>2. monitor' \in {"apply", "fetch"} /\ update'[1] = p /\ update'[2] = s.status
          /\ (monitor' = "apply" <=> s.kind = "changed")
      BY <1>1, <3>1
    <3>3. Tells(s, bus[p].status)
      BY <1>6, <1>9, <2>2 DEF Announced
    <3> QED
      BY <3>2, <3>3 DEF Awaited, Tells
  <2>3. CASE ~Concerns(s, p, bus[p].owner)
    <3>1. cache[p].status = bus[p].status
      BY <1>6, <2>1, <2>3
    <3>2. monitor' = "apply" => update'[1] # p
      <4>1. monitor' = "apply" =>
                known /\ s.kind # "owner" /\ update'[1] = s.player
        BY <1>1
      <4> QED
        BY <2>3, <4>1 DEF Concerns
    <3> QED
      BY <3>1, <3>2
  <2> QED
    BY <2>2, <2>3
<1>10. Known'
  <2> SUFFICES ASSUME monitor' \in {"fetch", "apply"}
               PROVE  cache[s.player].owner >= 1
    BY <1>1 DEF Known
  <2>1. s.kind # "owner" /\ known
    BY <1>1
  <2>2. 1 \in 1..Len(signals) /\ s = signals[1]
    BY <1>1, <1>2 DEF s
  <2> QED
    BY <2>1, <2>2 DEF CacheInv, OwnersAreNew
<1>11. monitor # "ask" /\ monitor' # "exited" /\ monitor' # "ask"
  BY <1>1
<1> QED
  BY <1>1, <1>4, <1>5, <1>8, <1>9, <1>10, <1>11 DEF CacheInv, CatchUp

LEMMA UpdateKeepsCacheInv ==
  ASSUME CacheInv, FetchInvalidated \/ ApplyUpdate
  PROVE  CacheInv'
<1>1. /\ UNCHANGED <<bus, signals, changes>>
      /\ bus \in [Player -> PlayerState] /\ cache \in [Player -> PlayerState]
      /\ \A p \in Player : SilentOn(p)' <=> SilentOn(p)
      /\ Announced => Announced'
      /\ UNCHANGED <<lifecycle, found>>
      /\ monitor \in {"fetch", "apply"} /\ monitor' \in {"apply", "idle"}
      /\ update \in Player \X Status
  BY DEF FetchInvalidated, ApplyUpdate, mprisEnv, CacheInv, MediaTypes,
         SilentOn, Announced
<1> DEFINE p == update[1]
<1>2. p \in Player /\ update[2] \in Status /\ bus[p].status \in Status
      /\ cache[p].status \in Status
  BY <1>1 DEF PlayerState
<1>3. /\ Known /\ Kept => Known' /\ Kept'
      /\ MediaTypes' /\ OwnersAreNew'
  <2>1. CASE FetchInvalidated
    <3>1. /\ monitor = "fetch" /\ monitor' = "apply" /\ UNCHANGED cache
          /\ \/ update' = <<p, bus[p].status>> /\ missed' = missed
             \/ update' = <<p, cache[p].status>> /\ missed' = missed \cup {p}
      BY <2>1 DEF FetchInvalidated, mprisCache
    <3> HIDE DEF p
    <3>2. update'[1] = p /\ (p \in missed' \/ update'[2] = bus[p].status)
          /\ missed \subseteq missed' /\ update' \in Player \X Status
      BY <1>2, <3>1
    <3>3. \A r \in Player : Awaited(r)' <=> Awaited(r)
      BY <3>1, <3>2 DEF Awaited, p
    <3>4. MediaTypes'
      BY <1>1, <3>1, <3>2 DEF CacheInv, MediaTypes
    <3>5. OwnersAreNew'
      BY <1>1, <3>1 DEF CacheInv, OwnersAreNew
    <3>6. Known => Known'
      BY <3>1, <3>2 DEF Known, p
    <3>7. Kept => Kept'
      BY <1>1, <3>1, <3>2, <3>3 DEF Kept
    <3> QED
      BY <3>4, <3>5, <3>6, <3>7
  <2>2. CASE ApplyUpdate
    <3>1. /\ monitor = "apply" /\ monitor' = "idle" /\ UNCHANGED missed
          /\ cache' = [cache EXCEPT ![p].status = update[2]]
      BY <2>2 DEF ApplyUpdate, Settle, Updated
    <3> HIDE DEF p
    <3>2. /\ cache'[p] = [cache[p] EXCEPT !.status = update[2]]
          /\ \A r \in Player \ {p} : cache'[r] = cache[r]
          /\ DOMAIN cache' = Player /\ cache' = [r \in Player |-> cache'[r]]
      BY <1>1, <1>2, <3>1
    <3>3. /\ cache'[p] \in PlayerState /\ cache'[p].owner = cache[p].owner
          /\ cache'[p].status = update[2]
      BY <1>1, <1>2, <3>2 DEF PlayerState
    <3>4. cache' \in [Player -> PlayerState]
      BY <1>1, <3>2, <3>3
    <3>5. MediaTypes'
      BY <1>1, <3>1, <3>4 DEF CacheInv, MediaTypes
    <3>6. \A r \in Player : Awaited(r) <=> r = p
      BY <3>1 DEF Awaited, p
    <3>7. ASSUME Known, Kept, NEW r \in Player, r \notin missed
          PROVE  /\ cache'[r].owner = 0 => cache'[r].status = "gone"
                 /\ cache'[r].owner = bus[r].owner /\ SilentOn(r) =>
                        cache'[r].status = bus[r].status
                 /\ OwnerQueued(signals) \/ cache'[r].owner = bus[r].owner
      <4>1. CASE r = p
        <5>1. /\ cache'[r].owner = cache[r].owner
              /\ cache'[r].status = update[2]
          BY <3>3, <4>1
        <5>2. cache[r].owner # 0
          BY <3>1, <3>7, <4>1 DEF Known, p
        <5>3. /\ monitor # "list" /\ monitor = "apply" /\ update[1] = r
          BY <3>1, <4>1 DEF p
        <5>4. /\ OwnerQueued(signals) \/ cache[r].owner = bus[r].owner
              /\ cache[r].owner = bus[r].owner /\ SilentOn(r) =>
                     update[2] = bus[r].status
          BY <3>7, <5>3 DEF Kept
        <5> QED
          BY <5>1, <5>2, <5>4
      <4>2. CASE r # p
        BY <3>1, <3>2, <3>6, <3>7, <4>2 DEF Kept
      <4> QED
        BY <4>1, <4>2
    <3>8. OwnersAreNew'
      <4>1. \A r \in Player : cache'[r].owner = cache[r].owner
        BY <3>2, <3>3
      <4> QED
        BY <1>1, <4>1 DEF CacheInv, OwnersAreNew
    <3>9. Known /\ Kept => Known' /\ Kept'
      BY <1>1, <3>1, <3>7 DEF Kept, Known
    <3> QED
      BY <3>5, <3>8, <3>9
  <2> QED
    BY <2>1, <2>2
<1> QED
  BY <1>1, <1>3 DEF CacheInv, CatchUp

LEMMA EndKeepsCacheInv ==
  ASSUME CacheInv, StartFails \/ StopMpris \/ MonitorExits \/ StopEnds
  PROVE  CacheInv'
<1>1. /\ lifecycle' \notin {"starting", "up"}
      /\ UNCHANGED <<bus, changes, found, update>>
      /\ signals' \in {signals, <<>>}
      /\ cache' \in {cache, [p \in Player |-> Gone]}
      /\ monitor' \in {monitor, "exited"} /\ (monitor' = "ask" <=> monitor = "ask")
  <2>1. CASE StartFails
    BY <2>1 DEF StartFails, mprisEnv, mprisCache
  <2>2. CASE StopMpris
    BY <2>2 DEF StopMpris
  <2>3. CASE MonitorExits
    BY <2>3 DEF MonitorExits, mprisEnv, mprisCache
  <2>4. CASE StopEnds
    BY <2>4 DEF StopEnds, mprisEnv
  <2> QED
    BY <2>1, <2>2, <2>3, <2>4
<1>2. MediaTypes'
  <2>1. signals' \in Seq(Signal)
    <3>1. <<>> \in Seq(Signal)
      OBVIOUS
    <3>2. signals \in Seq(Signal)
      BY DEF CacheInv, MediaTypes
    <3> QED
      BY <1>1, <3>1, <3>2
  <2>2. cache' \in [Player -> PlayerState]
    BY <1>1, GoneIsState DEF CacheInv, MediaTypes
  <2>3. monitor' \in {"fetch", "apply"} => monitor \in {"fetch", "apply"}
    BY <1>1
  <2> QED
    BY <1>1, <2>1, <2>2, <2>3 DEF CacheInv, MediaTypes
<1>3. OwnersAreNew'
  <2>1. \A p \in Player : cache'[p].owner \in {cache[p].owner, 0}
    BY <1>1, GoneIsState
  <2>2. 0 <= changes
    BY DEF CacheInv, MediaTypes
  <2> QED
    BY <1>1, <2>1, <2>2 DEF CacheInv, OwnersAreNew
<1> QED
  BY <1>1, <1>2, <1>3 DEF CacheInv

LEMMA CacheInvNext == CacheInv /\ [MprisNext]_mprisVars => CacheInv'
<1> SUFFICES ASSUME CacheInv, [MprisNext]_mprisVars PROVE CacheInv'
  OBVIOUS
<1>1. ASSUME NEW p \in Player, SetActivePlayer(p) PROVE CacheInv'
  BY <1>1, QuietKeepsCacheInv DEF SetActivePlayer, MprisHappens, mprisMonitor
<1>2. CASE UseAutomaticPlayer
  BY <1>2, QuietKeepsCacheInv DEF UseAutomaticPlayer, Settle, MprisHappens,
     mprisMonitor
<1>3. CASE UNCHANGED mprisVars
  BY <1>3, QuietKeepsCacheInv DEF mprisVars, mprisEnv, mprisCache, mprisMonitor
<1> QED
  BY <1>1, <1>2, <1>3, PlayersKeepCacheInv, RefreshKeepsCacheInv,
     SignalKeepsCacheInv, UpdateKeepsCacheInv, EndKeepsCacheInv
  DEF MprisNext, MonitorStep

(* refreshPlayers and handleSignal (media/mpris.go) see the bus late and   *)
(* out of step: when the monitor has nothing left to do its cache is the   *)
(* bus, but for players that did not answer when they were asked and those *)
(* that changed hands before a list of names the bus refused.              *)
THEOREM CacheIsTheBus == MprisSpec => []CacheCatchesUp
<1>1. CacheInv => CacheCatchesUp
  <2> SUFFICES ASSUME CacheInv, lifecycle = "up", monitor = "idle", signals = <<>>,
                      NEW p \in Player \ missed
               PROVE  cache[p] = bus[p]
    BY DEF CacheCatchesUp
  <2>1. ~OwnerQueued(signals) /\ SilentOn(p)
    BY DEF OwnerQueued, SilentOn, Silent
  <2>2. Kept
    BY <2>1 DEF CacheInv, CatchUp
  <2>3. cache[p].owner = bus[p].owner /\ cache[p].status = bus[p].status
    BY <2>1, <2>2 DEF Kept, Awaited
  <2>4. cache[p] \in PlayerState /\ bus[p] \in PlayerState
    BY DEF CacheInv, MediaTypes
  <2> QED
    BY <2>3, <2>4 DEF PlayerState
<1> QED
  BY CacheInvInit, CacheInvNext, <1>1, PTL DEF MprisSpec
=============================================================================
