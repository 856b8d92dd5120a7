----------------------------- MODULE Reference -----------------------------
(***************************************************************************)
(* The reference firmware: its COMMS, its camera and its OBC.  What they   *)
(* share is small (the length of the image, the tasks the OBC suspends)    *)
(* and part of each environment, so that a behaviour follows one of them   *)
(* while the others stay as they are: the space is a sum, not a product.   *)
(***************************************************************************)
EXTENDS RefComms, RefCamera, RefObc, Interleave

VARIABLE unit  \* which of the three the behaviour follows

refvars == <<unit, cvars, camvars, ovars>>

RefInit == /\ unit \in {"COMMS", "CAMERA", "OBC"} /\ CommsInit /\ CameraInit /\ ObcInit
           /\ unit # "CAMERA" => circular
           /\ unit # "OBC" => current = "NOMINAL" /\ previous = "NOMINAL" /\ deployed

RefNext == /\ UNCHANGED unit
           /\ \/ unit = "COMMS" /\ CommsNext /\ UNCHANGED <<camvars, ovars>>
              \/ unit = "CAMERA" /\ CameraNext /\ UNCHANGED <<cvars, ovars>>
              \/ unit = "OBC" /\ ObcNext /\ UNCHANGED <<cvars, camvars>>

RefSpec == RefInit /\ [][RefNext]_refvars

UnitStep(u, action, others) == unit = u /\ action /\ UNCHANGED <<unit, others>>

\* The tasks run; a transmission, a scan and a transfer end; the timer expires.
RefFairSpec == /\ RefSpec
               /\ WF_refvars(UnitStep("COMMS", Loop, <<camvars, ovars>>))
               /\ WF_refvars(UnitStep("COMMS", RadioEnds, <<camvars, ovars>>))
               /\ WF_refvars(UnitStep("COMMS", beacon_time, <<camvars, ovars>>))
               /\ WF_refvars(UnitStep("CAMERA", CameraStep, <<cvars, ovars>>))
               /\ WF_refvars(UnitStep("CAMERA", Dma, <<cvars, ovars>>))
               /\ WF_refvars(UnitStep("OBC", Obc, <<cvars, camvars>>))

\* KeepsListening and FollowsState, of the unit that runs.
CommsKeepsListening == unit = "COMMS" => KeepsListening
ObcFollowsState == unit = "OBC" => FollowsState
=============================================================================
