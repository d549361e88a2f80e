------------------------------ MODULE CallMute ------------------------------
(***************************************************************************)
(* Muting the host while a phone is in a call.  Two phones share the flags *)
(* of the daemon; the user and the phones change the mute of an output and *)
(* the default output at any time, since neither asks for d.mu, and every  *)
(* call of wpctl or pactl can fail.                                        *)
(***************************************************************************)
EXTENDS Naturals

CONSTANTS Caller,      \* the connected phones
          Sink,        \* the outputs of the host
          MaxSwitches  \* bound on calls and on what the user does

ASSUME CallMuteAssumption == Sink # {} /\ MaxSwitches \in Nat

VARIABLES
    muted,      \* the outputs that are muted
    wanted,     \* the outputs the user wants muted
    default,    \* the default output
    inCall,     \* phones in a call
    online,     \* phones with a session
    reports,    \* how many reports of each call state are on their way
    autoMuted,  \* d.audioAutoMuted
    wasMuted,   \* d.audioWasMutedBefore
    muting,     \* what the handler that holds d.mu does now
    excused,    \* outputs muted or unmuted by hand during a call, left by
                \* their default, or whose unmute failed
    switches    \* calls and actions of the user so far

phoneCalls == <<inCall, online, reports>>
muteVars == <<muted, wanted, default, phoneCalls, autoMuted, wasMuted, muting,
              excused, switches>>

NoReports == [value \in BOOLEAN |-> 0]

MuteInit ==
    /\ muted \in SUBSET Sink
    /\ wanted = muted
    /\ default \in Sink
    /\ inCall = {}
    /\ online = Caller
    /\ reports = [p \in Caller |-> NoReports]
    /\ autoMuted = FALSE
    /\ wasMuted = FALSE
    /\ muting = "idle"
    /\ excused = {}
    /\ switches = 0

Switches ==
    /\ switches < MaxSwitches
    /\ switches' = switches + 1

-----------------------------------------------------------------------------
(* Phones and users *)

(* CallStateWatcher reports every change, each in a coroutine of its own:  *)
(* the frames are written in any order.                                    *)
CallChanges(p) ==
    /\ Switches
    /\ inCall' = IF p \in inCall THEN inCall \ {p} ELSE inCall \cup {p}
    /\ reports' = IF p \in online
                  THEN [reports EXCEPT ![p][p \in inCall'] = @ + 1] ELSE reports
    /\ UNCHANGED <<muted, wanted, default, online, autoMuted, wasMuted, muting,
                   excused>>

(* The session of a phone ends, with the reports that were on their way.   *)
CallerLeaves(p) ==
    /\ Switches
    /\ p \in online
    /\ online' = online \ {p}
    /\ reports' = [reports EXCEPT ![p] = NoReports]
    /\ UNCHANGED <<muted, wanted, default, inCall, autoMuted, wasMuted, muting,
                   excused>>

(* The watcher of the next session is told the present state at once.      *)
CallerReturns(p) ==
    /\ Switches
    /\ p \notin online
    /\ online' = online \cup {p}
    /\ reports' = [reports EXCEPT ![p][p \in inCall] = 1]
    /\ UNCHANGED <<muted, wanted, default, inCall, autoMuted, wasMuted, muting,
                   excused>>

(* The desktop, audio-mute of the control socket, system-audio-mute of a   *)
(* phone.                                                                  *)
UserMutes(s) ==
    /\ Switches
    /\ wanted' = IF s \in muted THEN wanted \ {s} ELSE wanted \cup {s}
    /\ muted' = IF s \in muted THEN muted \ {s} ELSE muted \cup {s}
    /\ excused' = IF autoMuted \/ muting # "idle" THEN excused \cup {s}
                  ELSE excused
    /\ UNCHANGED <<default, phoneCalls, autoMuted, wasMuted, muting>>

DefaultChanges(s) ==
    /\ Switches
    /\ s # default
    /\ default' = s
    /\ excused' = IF autoMuted \/ muting # "idle" THEN excused \cup {s, default}
                  ELSE excused
    /\ UNCHANGED <<muted, wanted, phoneCalls, autoMuted, wasMuted, muting>>

-----------------------------------------------------------------------------
(* applyCallMute, under d.mu from its first to its last step *)

Report(p, value) ==
    /\ muting = "idle"
    /\ reports[p][value] > 0
    /\ reports' = [reports EXCEPT ![p][value] = @ - 1]

(* SystemAudioState tells what to restore, or fails.                       *)
CallBegins(p) ==
    /\ Report(p, TRUE)
    /\ \/ /\ ~autoMuted
          /\ autoMuted' = TRUE
          /\ wasMuted' = (default \in muted)
          /\ muting' = IF default \in muted THEN "idle" ELSE "mute"
       \/ UNCHANGED <<autoMuted, wasMuted, muting>>
    /\ UNCHANGED <<muted, wanted, default, inCall, online, excused, switches>>

Finishes(kind) ==
    /\ muting = kind
    /\ muting' = "idle"
    /\ UNCHANGED <<wanted, default, phoneCalls, autoMuted, wasMuted, switches>>

(* SetOutputDeviceMuted of what is the default output by now, or its       *)
(* failure: the flags are set already.                                     *)
MutesOutput ==
    /\ Finishes("mute")
    /\ \/ muted' = muted \cup {default}
       \/ UNCHANGED muted
    /\ UNCHANGED excused

(* The end of a call that always unmutes.                                  *)
AlwaysUnmutes(p) ==
    /\ Report(p, FALSE)
    /\ autoMuted' = FALSE
    /\ muting' = IF autoMuted THEN "unmute" ELSE "idle"
    /\ UNCHANGED <<muted, wanted, default, inCall, online, wasMuted, excused,
                   switches>>

CallEnds(p) ==
    /\ Report(p, FALSE)
    /\ autoMuted' = FALSE
    /\ muting' = IF autoMuted /\ ~wasMuted THEN "unmute" ELSE "idle"
    /\ UNCHANGED <<muted, wanted, default, inCall, online, wasMuted, excused,
                   switches>>

UnmutesOutput ==
    /\ Finishes("unmute")
    /\ \/ muted' = muted \ {default} /\ UNCHANGED excused
       \/ excused' = excused \cup {default} /\ UNCHANGED muted

MuteNext ==
    \/ \E p \in Caller :
          \/ CallChanges(p) \/ CallerLeaves(p) \/ CallerReturns(p)
          \/ CallBegins(p) \/ CallEnds(p)
    \/ \E s \in Sink : UserMutes(s) \/ DefaultChanges(s)
    \/ MutesOutput \/ UnmutesOutput

MuteSpec == MuteInit /\ [][MuteNext]_muteVars

-----------------------------------------------------------------------------
(* Properties *)

(* "ending the call restores that prior state instead of always unmuting": *)
(* an output is muted against the user's wish only as long as the daemon   *)
(* still owes the unmute, and never unmuted against it, in whatever order  *)
(* the calls of two phones begin and end and whichever mute fails.  The    *)
(* exceptions: the user or the default output changed during the call, and *)
(* a failed unmute, which nobody repeats.                                  *)
RestoresMute ==
    \A s \in Sink \ excused :
        /\ s \in muted \ wanted =>
              /\ s = default
              /\ ~wasMuted
              /\ autoMuted \/ muting = "unmute"
        /\ s \in wanted => s \in muted
=============================================================================
