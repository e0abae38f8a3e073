--------------------------- MODULE NotificationFeed ---------------------------
(***************************************************************************)
(* The feed of notifications and the grouped desktop notifications that    *)
(* are made from it (notification-center.svelte.ts), with its producers    *)
(* and the controls that change it.                                        *)
(*                                                                         *)
(* An event has an id, its category and key.  Recording it moves its entry *)
(* to the front of the feed, and offers it to desktop delivery: a queue    *)
(* and one timer.  The permission the store works with is a copy of the    *)
(* browser's, which the user can change in the browser at any time.        *)
(*                                                                         *)
(* The clock does not go back here, so a feed sorted by time is a feed in  *)
(* the order of the entries, and a reload restores what was saved.  The    *)
(* labels, the count of occurrences and the mark of what was read are left *)
(* out, and a message that its channel's preference mutes is none.         *)
(***************************************************************************)
EXTENDS Integers, SequencesExt, FiniteSetsExt, Sublists

CONSTANTS
  Online, Messages, Invitations, Requests,  \* the ids of each category
  MaxHistory     \* MAX_NOTIFICATION_HISTORY

ASSUME FeedAssumption ==
  /\ MaxHistory \in Nat \ {0}
  /\ IsFiniteSet(Online \union Messages \union Invitations \union Requests)

VARIABLES
  feed,        \* the ids of the entries, newest first
  permission,  \* the store's copy
  browser,     \* Notification.permission
  enabled, categories,  \* the preferences
  queued,      \* the ids that wait for the timer
  timer,       \* whether it is set
  latest,      \* history: the ids since the feed was cleared, newest first
  withdrawn    \* history: ids that waited when the user turned them off, and have not
               \* been recorded since

settings == <<permission, browser, enabled, categories>>
delivery == <<queued, timer>>
feedVars == <<feed, settings, delivery, latest, withdrawn>>

Events == Online \union Messages \union Invitations \union Requests
Category(e) == CASE e \in Online   -> "user_online" [] e \in Messages -> "new_message"
                 [] e \in Invitations  -> "room_invite" [] OTHER -> "join_request"
Categories == {"user_online", "new_message", "room_invite", "join_request"}

FeedTypeOK ==
  /\ feed \in Seq(Events) /\ IsInjective(feed)
  /\ {permission, browser} \subseteq {"default", "granted", "denied"}
  /\ enabled \in BOOLEAN /\ timer \in BOOLEAN
  /\ categories \subseteq Categories /\ queued \subseteq Events
  /\ withdrawn \subseteq Events

\* The permission when the page loads, and the default categories.
FeedInit ==
  /\ feed = <<>> /\ latest = <<>>
  /\ browser \in {"default", "granted", "denied"}
  /\ permission = browser
  /\ enabled = FALSE
  /\ categories = {"user_online"}
  /\ queued = {} /\ timer = FALSE /\ withdrawn = {}

-----------------------------------------------------------------------------
(* The operations.                                                         *)

\* Mutant: the feed as a whole is bounded, invitations with the rest.
TrimAll(entries) == SubSeq(entries, 1, Min({Len(entries), MaxHistory}))

\* trimFeedEntries: the oldest entries that are not invitations go.  Every id is in the
\* feed once.
Trimmed(entries) ==
  LET ordinary(i) == Cardinality({j \in 1..i : entries[j] \notin Invitations})
      kept == {i \in 1..Len(entries) :
                 entries[i] \in Invitations \/ ordinary(i) <= MaxHistory}
  IN  Only(entries, {entries[i] : i \in kept})

WithFirst(e, entries) == <<e>> \o Without(entries, e)

\* syncPermission with what the browser says: cancelQueued unless it is granted.
CancelUnless(p) == IF p # "granted" THEN queued' = {} /\ timer' = FALSE
                   ELSE UNCHANGED delivery

\* offerDesktopDelivery
Offered(e) ==
  /\ permission' = browser
  /\ IF browser = "granted" /\ enabled /\ Category(e) \in categories
     THEN queued' = queued \union {e} /\ timer' = TRUE
     ELSE CancelUnless(browser)

\* record, of an event the channel preferences let through.
Record(e) ==
  /\ feed' = Trimmed(WithFirst(e, feed))
  /\ Offered(e)
  /\ latest' = WithFirst(e, latest)
  /\ withdrawn' = withdrawn \ {e}
  /\ UNCHANGED <<browser, enabled, categories>>

\* A contact comes online, an invitation arrives, a guest waits or was let in, a message
\* is pulled after the first synchronisation of its room and its channel is not muted.
Produced == \E e \in Events : Record(e)

ClearAll ==
  /\ feed # <<>>
  /\ feed' = <<>> /\ latest' = <<>>
  /\ UNCHANGED <<settings, delivery, withdrawn>>

\* The user changes the permission in the browser; the store learns of it when the page
\* gets the focus or its settings are opened (syncPermission), or at the next event.
BrowserSettings(p) ==
  /\ browser' = p
  /\ UNCHANGED <<feed, permission, enabled, categories, delivery, withdrawn, latest>>

SyncPermission ==
  /\ permission' = browser
  /\ CancelUnless(browser)
  /\ UNCHANGED <<feed, browser, enabled, categories, withdrawn, latest>>

\* requestPermission: the browser asks the user.
RequestPermission(answer) ==
  /\ browser' = IF browser = "default" THEN answer ELSE browser
  /\ permission' = browser'
  /\ enabled' = (enabled \/ browser' = "granted")
  /\ UNCHANGED <<feed, categories, delivery, withdrawn, latest>>

SetEnabled(value) ==
  /\ enabled' = (value /\ permission = "granted")
  /\ IF enabled' THEN UNCHANGED <<delivery, withdrawn>>
     ELSE queued' = {} /\ timer' = FALSE /\ withdrawn' = withdrawn \union queued
  /\ UNCHANGED <<feed, permission, browser, categories, latest>>

\* Mutant: a category is turned off for what comes later only.
KeepQueued(c) == queued

\* What stays in the queue when a category is turned off.
StillWanted(c) == {e \in queued : Category(e) # c}

SetCategory(c, value) ==
  /\ categories' = IF value THEN categories \union {c} ELSE categories \ {c}
  /\ IF value THEN UNCHANGED <<delivery, withdrawn>>
     ELSE /\ queued' = StillWanted(c)
          /\ timer' = (timer /\ queued' # {})
          /\ withdrawn' = withdrawn \union {e \in queued : Category(e) = c}
  /\ UNCHANGED <<feed, permission, browser, enabled, latest>>

\* flush: what the desktop notification shows when the timer fires; the browser has the
\* last word.
Deliverable ==
  IF timer /\ permission = "granted" /\ enabled /\ browser = "granted" THEN queued ELSE {}

Flush ==
  /\ timer
  /\ timer' = FALSE /\ queued' = {}
  /\ UNCHANGED <<feed, settings, latest, withdrawn>>

\* readFeed: each id once, and trimmed again.
Restored(entries) == Trimmed(entries)

\* A reload: the feed and the preferences are read back; the queue is gone.
FeedReload ==
  /\ feed' = Restored(feed)
  /\ permission' = browser
  /\ queued' = {} /\ timer' = FALSE
  /\ UNCHANGED <<browser, enabled, categories, withdrawn, latest>>

FeedNext ==
  \/ Produced \/ ClearAll \/ SyncPermission \/ Flush \/ FeedReload
  \/ \E p \in {"default", "granted", "denied"} : BrowserSettings(p)
  \/ \E a \in {"granted", "denied"} : RequestPermission(a)
  \/ \E v \in BOOLEAN : SetEnabled(v)
  \/ \E e \in Events, v \in BOOLEAN : SetCategory(Category(e), v)

FeedSpec == FeedInit /\ [][FeedNext]_feedVars

-----------------------------------------------------------------------------
(* Properties.                                                             *)

\* The feed is what a list of all events since it was cleared would show: every
\* invitation, and the MaxHistory other events that were recorded last, in that order,
\* however often entries were trimmed, came back or moved to the front.
NewestAreKept ==
  LET others == Only(latest, Events \ Invitations)
  IN  /\ Only(feed, Events \ Invitations)
           = SubSeq(others, 1, Min({Len(others), MaxHistory}))
      /\ ToSet(latest) \intersect Invitations \subseteq ToSet(feed)

\* A desktop notification would hold only events of categories that are on, of a user
\* who has allowed notifications, and none that was turned off while it waited, also
\* when it was turned on again.
ShownIsWanted ==
  Deliverable # {} =>
    /\ browser = "granted" /\ enabled
    /\ \A e \in Deliverable : Category(e) \in categories /\ e \notin withdrawn
===============================================================================
