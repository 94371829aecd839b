----------------------------- MODULE OtaInstall -----------------------------
(***************************************************************************)
(* What the update mechanism promises of slot A, with no RAM, no flash     *)
(* operations and no control block: at most one image is pending; the slot *)
(* holds one whole image or is torn; it is torn only by an installation,   *)
(* and an installation ends with the pending image, whole, and nothing     *)
(* pending.                                                                *)
(***************************************************************************)
CONSTANTS
  Installable,   \* the images that may be staged
  Original       \* the image the slot holds at first

VARIABLES
  waiting,   \* {image to be installed}, or {}
  content    \* {image in the slot}, or {} when it is torn

installVars == <<waiting, content>>

Start == waiting = {} /\ content = {Original}

\* An upload is complete; it replaces one that was still waiting.
Stage(img) == waiting' = {img} /\ UNCHANGED content

\* The image is refused, or lost with the power.
Discard == waiting' = {} /\ UNCHANGED content

\* An installation writes to the slot; the power may fail as it does.
Tear == waiting # {} /\ content' = {} /\ waiting' \in {waiting, {}}

Complete ==
  /\ waiting # {} /\ content = {}
  /\ content' = waiting /\ waiting' = {}

InstallNext == (\E img \in Installable : Stage(img)) \/ Discard \/ Tear \/ Complete

Atomically == Start /\ [][InstallNext]_installVars
=============================================================================
