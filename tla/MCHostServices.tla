--------------------------- MODULE MCHostServices ---------------------------
(***************************************************************************)
(* The services of the host side by side for TLC.  They share no state, so *)
(* a behaviour of this instance is one of a single service: the others     *)
(* stay in an initial state.  What they share in the program, a session's  *)
(* connection, is in SessionDispatch; Notifications has a run of its own.  *)
(***************************************************************************)
EXTENDS Mpris, MediaRelay, CallMute, ClipboardSync, Discovery

VARIABLE service

Service == {"media", "relay", "mute", "clipboard", "discovery"}

ServicesInit ==
    /\ service \in Service
    /\ MprisInit
    /\ RelayInit
    /\ MuteInit
    /\ ClipInit
    /\ DiscoveryInit
    /\ service # "mute" => muted = {} /\ default = CHOOSE s \in Sink : TRUE

ServicesNext ==
    \/ /\ service = "media"
       /\ MprisNext
       /\ UNCHANGED <<service, relayVars, muteVars, clipVars,
                      discoveryVars>>
    \/ /\ service = "relay"
       /\ RelayNext
       /\ UNCHANGED <<service, mprisVars, muteVars, clipVars,
                      discoveryVars>>
    \/ /\ service = "mute"
       /\ MuteNext
       /\ UNCHANGED <<service, mprisVars, relayVars, clipVars,
                      discoveryVars>>
    \/ /\ service = "clipboard"
       /\ ClipNext
       /\ UNCHANGED <<service, mprisVars, relayVars, muteVars,
                      discoveryVars>>
    \/ /\ service = "discovery"
       /\ DiscoveryNext
       /\ UNCHANGED <<service, mprisVars, relayVars, muteVars,
                      clipVars>>

servicesVars == <<service, mprisVars, relayVars, muteVars, clipVars,
                  discoveryVars>>

ServicesSpec == ServicesInit /\ [][ServicesNext]_servicesVars
=============================================================================
