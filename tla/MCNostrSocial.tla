---------------------------- MODULE MCNostrSocial ----------------------------
(***************************************************************************)
(* The three ways an invite takes: over Nostr (NostrSocial), as a link     *)
(* (RoomInvites) and as a code before the camera (InviteScanner).  They    *)
(* share no state, and one is explored at a time while the others rest.    *)
(* NostrSocial is explored once with presences and no invitations, and     *)
(* once with invitations while the user chooses no other presence.         *)
(***************************************************************************)
EXTENDS NostrSocial

CONSTANTS MaxLinks, MaxScans

ASSUME InviteAssumption == {MaxLinks, MaxScans} \subseteq Nat

VARIABLES focus,
          token, auto, waiting, admitting, request, welcome, route, link, attached,
          room, asked, admittedBy,
          shown, scanning, scan, cameras, live, looking, mounted, redeemed

Links == INSTANCE RoomInvites WITH seen <- asked
Scanner == INSTANCE InviteScanner WITH asked <- cameras

linkVars == <<token, auto, waiting, admitting, request, welcome, route, link,
              attached, room, asked, admittedBy>>
scannerVars == <<shown, scanning, scan, cameras, live, looking, mounted, redeemed>>

MCInit ==
  /\ SocialInit /\ Links!Init /\ Scanner!Init
  /\ \/ focus = "presences" /\ auto
     \/ focus = "invitations" /\ chosen = "invisible" /\ auto
     \/ focus = "links" /\ chosen = "invisible"
     \/ focus = "scanner" /\ chosen = "invisible" /\ auto

MCNext ==
  \/ focus = "presences" /\ SocialNext /\ UNCHANGED <<focus, invitations, linkVars, scannerVars>>
  \/ focus = "invitations" /\ SocialNext /\ UNCHANGED <<focus, chosen, linkVars, scannerVars>>
  \/ focus = "links" /\ Links!Next /\ UNCHANGED <<focus, socialVars, scannerVars>>
  \/ focus = "scanner" /\ Scanner!Next /\ UNCHANGED <<focus, socialVars, linkVars>>

MCSpec == MCInit /\ [][MCNext]_<<focus, socialVars, linkVars, scannerVars>>

PreviousLinksAreClosed == Links!PreviousLinksAreClosed
WaitingRoomsAsked == Links!WaitingRoomsAsked
CameraFollowsTheDialog == Scanner!CameraFollowsTheDialog
===============================================================================
