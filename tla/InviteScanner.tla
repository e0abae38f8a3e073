------------------------------ MODULE InviteScanner ------------------------------
(***************************************************************************)
(* The dialog in which a guest pastes an invite or holds it before the     *)
(* camera (InviteRedeemer.svelte).  The browser asks the user for the      *)
(* camera, and a detector looks for a code in frame after frame; the       *)
(* dialog may be closed, opened and the scan begun again before either     *)
(* answers.  A scan is the value of scanToken that it began with.          *)
(***************************************************************************)
EXTENDS Integers

CONSTANTS MaxScans  \* bound: values of scanToken

VARIABLES
  shown,    \* open
  scanning,
  scan,     \* scanToken
  asked,    \* scans that wait for getUserMedia
  live,     \* scans whose camera is on
  looking,  \* scans with a detector at work, or a frame requested for it
  mounted,
  redeemed  \* scans, and 0 for a paste, from which the last invite was redeemed

vars == <<shown, scanning, scan, asked, live, looking, mounted, redeemed>>

Pasted == 0
Nothing == -1

Init ==
  /\ shown = FALSE
  /\ scanning = FALSE
  /\ scan = 0
  /\ asked = {} /\ live = {} /\ looking = {}
  /\ mounted = TRUE
  /\ redeemed = Nothing

\* stopScanner: a frame that is requested is cancelled, a detector at work is not.
StopScanner ==
  /\ scan' = scan + 1
  /\ scanning' = FALSE
  /\ live' = {}

OpenDialog ==
  /\ mounted /\ ~shown
  /\ shown' = TRUE
  /\ redeemed' = Nothing
  /\ UNCHANGED <<scanning, scan, asked, live, looking, mounted>>

CloseDialog ==
  /\ mounted /\ shown /\ scan < MaxScans
  /\ shown' = FALSE
  /\ StopScanner
  /\ UNCHANGED <<asked, looking, mounted, redeemed>>

\* redeem with a valid invite: the dialog closes, and the room is navigated to.
Redeem(from) ==
  /\ shown' = FALSE
  /\ StopScanner
  /\ redeemed' = from

Submit ==
  /\ mounted /\ shown /\ scan < MaxScans
  /\ Redeem(Pasted)
  /\ UNCHANGED <<asked, looking, mounted>>

\* startScan, in a browser that has a camera and a detector.
StartScan ==
  /\ mounted /\ shown /\ ~scanning /\ scan < MaxScans
  /\ scan' = scan + 1
  /\ scanning' = TRUE
  /\ asked' = asked \union {scan'}
  /\ UNCHANGED <<shown, live, looking, mounted, redeemed>>

\* Mutant: an open dialog takes any camera.
IsOpen(t) == shown

IsCurrent(t) == shown /\ t = scan

\* The camera is there: it is turned off at once if nobody waits for it any more.
Acquired(t) ==
  /\ t \in asked
  /\ asked' = asked \ {t}
  /\ IF IsCurrent(t)
     THEN live' = live \union {t} /\ looking' = looking \union {t}
     ELSE UNCHANGED <<live, looking>>
  /\ UNCHANGED <<shown, scanning, scan, mounted, redeemed>>

\* ...or is refused, or has no preview to show.
Unavailable(t) ==
  /\ t \in asked /\ scan < MaxScans
  /\ asked' = asked \ {t}
  /\ IF t = scan THEN StopScanner ELSE UNCHANGED <<scan, scanning, live>>
  /\ UNCHANGED <<shown, looking, mounted, redeemed>>

\* The detector comes back with an invite, or with nothing of use.
Detected(t, invite) ==
  /\ t \in looking /\ scan < MaxScans
  /\ IF IsCurrent(t) /\ invite
     THEN Redeem(t) /\ looking' = looking \ {t}
     ELSE /\ looking' = IF IsCurrent(t) THEN looking ELSE looking \ {t}
          /\ UNCHANGED <<shown, scanning, scan, live, redeemed>>
  /\ UNCHANGED <<asked, mounted>>

\* The page goes while the dialog may be open.
Destroy ==
  /\ mounted /\ scan < MaxScans
  /\ mounted' = FALSE
  /\ StopScanner
  /\ UNCHANGED <<shown, asked, looking, redeemed>>

Next ==
  \/ OpenDialog \/ CloseDialog \/ Submit \/ StartScan \/ Destroy
  \/ \E t \in asked : Acquired(t) \/ Unavailable(t)
  \/ \E t \in looking, invite \in BOOLEAN : Detected(t, invite)

Spec == Init /\ [][Next]_vars

-------------------------------------------------------------------------------
\* The camera is on only for the scan of the dialog that is open, and for no more than
\* that one, however late the browser hands out cameras it was asked for before.
CameraFollowsTheDialog == live \subseteq {t \in 1..MaxScans : shown /\ mounted /\ t = scan}
===============================================================================
