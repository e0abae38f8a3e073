------------------------------ MODULE NostrSocial ------------------------------
(***************************************************************************)
(* Presence and invitations over Nostr (nostr-social.svelte.ts): the store *)
(* of one user, connected and disconnected as the identity changes         *)
(* (UserProfile.svelte), the relays that keep gift wraps, one contact on   *)
(* the other side, and the invitations that the user has answered, which   *)
(* the notification centre remembers across reloads.                       *)
(*                                                                         *)
(* Every operation awaits relays or the signer, and goes on afterwards     *)
(* with the fields of the store as they are then.  Operations are told     *)
(* apart by where they wait (pc); any two may overlap.  A query may come   *)
(* back with part of what the relays hold, since it ends after a while and *)
(* when the pool is destroyed.                                             *)
(*                                                                         *)
(* A presence is its remaining life in ticks: Life when the user is online *)
(* as it is made, none when invisible or expired.  It is made at once and  *)
(* then awaits the signer and the relays for each follower, so it reaches  *)
(* the contact at any later time, in any order, or never.                  *)
(*                                                                         *)
(* Invitations are in days, which pass only while nothing is awaited.      *)
(* Left out: the status shown, profiles, the seals, clocks that disagree,  *)
(* and what is in an invitation.                                           *)
(***************************************************************************)
EXTENDS Integers, FiniteSets

CONSTANTS
  Connects,   \* names for calls of connect()
  Invites,    \* the invitations the contact may send
  Replay,     \* days that a new subscription asks for
  Backdate,   \* days by which the time stamp of a gift wrap may be early
  Retention,  \* days for which an answer to an invitation is kept
  Life,       \* ticks for which an online presence is in force
  MaxDay,     \* bound: days
  MaxOverlap, \* bound: operations under way when another one begins
  MaxChoices  \* bound: changes of the identity and of the presence, and reloads

ASSUME SocialAssumption ==
  /\ {Replay, Backdate, Retention, MaxDay, MaxOverlap, MaxChoices} \subseteq Nat
  /\ Connects \intersect Invites = {} /\ "set" \notin Connects \union Invites
  /\ Replay <= Retention  \* three days and seven
  /\ Life \in Nat \ {0}    \* two minutes

VARIABLES
  signedIn,  \* the identity has a signer and is not the anonymous one
  chosen,    \* config.presenceState: what the user chose last
  choices,
  pc,        \* where each operation waits
  wanted,    \* the presence an operation was called with
  hasPool,      \* pool, pubkey and signer are set
  subs,      \* subscriptions on the pool
  following, followers, online,  \* whether the contact is among them
  presence,  \* the store's
  beat,      \* this.heartbeat is a running timer
  stray,     \* there are running heartbeat timers that nothing points to
  underWay,  \* presences for the contact between publishPresence and its client
  visible,   \* the life left of the presence that the contact's client has of the user
  offlineFor, \* history: ticks since the user was last online, up to Life
  today,
  stamp,     \* [Invites -> created_at of the gift wrap on the relays]
  seen,      \* invitations received in this page
  incoming,  \* [Invites -> how often it is listed]
  noted,     \* invitations the feed has an entry of, which survives a reload
  answered,  \* [Invites -> the day the answer was stored]
  settled    \* history: invitations answered while none was being received

user == <<signedIn, chosen, choices>>
graph == <<following, followers, online>>
beats == <<presence, beat, stray>>
invitations == <<stamp, seen, incoming, noted, answered, settled>>
connection == <<hasPool, subs>>
presences == <<underWay, visible>>
contact == <<presences, offlineFor>>
socialVars == <<user, pc, wanted, connection, graph, beats, contact, today, invitations>>

Never == 0 - 1
Tasks == Connects \union Invites \union {"set"}
States == {"online", "invisible"}
First == Backdate  \* the day it starts, so that time stamps are natural numbers

TypeOK ==
  /\ pc \in [Tasks -> {"idle", "key", "lists", "followers", "profiles", "presence", "profile"}]
  /\ {following, followers, online, hasPool, beat, stray, signedIn} \subseteq BOOLEAN
  /\ underWay \subseteq 0..Life /\ {visible, offlineFor} \subseteq 0..Life
  /\ subs \in Nat
  /\ {chosen, presence} \subseteq States
  /\ today \in First..MaxDay /\ settled \union noted \subseteq Invites
  /\ stamp \in [Invites -> 0..MaxDay \union {Never}]
  /\ answered \in [Invites -> First..MaxDay \union {Never}]
  /\ incoming \in [Invites -> Nat]

SocialInit ==
  /\ signedIn = FALSE /\ chosen \in States /\ choices = 0
  /\ pc = [t \in Tasks |-> "idle"] /\ wanted = [t \in Tasks |-> "invisible"]
  /\ hasPool = FALSE /\ subs = 0
  /\ following = FALSE /\ followers = FALSE /\ online = FALSE
  /\ presence = "invisible" /\ beat = FALSE /\ stray = FALSE
  /\ underWay = {} /\ visible = 0 /\ offlineFor = Life
  /\ today = First
  /\ stamp = [i \in Invites |-> Never] /\ seen = {} /\ noted = {} /\ settled = {}
  /\ incoming = [i \in Invites |-> 0] /\ answered = [i \in Invites |-> Never]

Busy == {t \in Tasks : pc[t] # "idle"}
NothingAwaited == Busy = {}
MayBegin == Cardinality(Busy) <= MaxOverlap
At(t, where) == pc' = [pc EXCEPT ![t] = where]

-----------------------------------------------------------------------------
(* Presence.                                                               *)

\* The store is connected and its presence is online.
IsOnline == presence = "online" /\ hasPool

\* Mutant: the heartbeat publishes the state it was started with.
OnlineAlways == Life

\* publishPresence reads the presence when it is called.
Payload == IF presence' = "online" THEN Life ELSE 0

\* publishPresence, to the followers; what it awaits is left to PresenceArrives.
Publish ==
  underWay' = IF hasPool' /\ followers' THEN underWay \union {Payload} ELSE underWay

\* setPresence(s) by t, up to its await.
SetPresence(t, s) ==
  /\ presence' = s
  /\ beat' = IF hasPool' THEN FALSE ELSE beat
  /\ Publish
  /\ At(t, IF hasPool' THEN "presence" ELSE "idle")
  /\ wanted' = [wanted EXCEPT ![t] = IF hasPool' THEN s ELSE "invisible"]
  /\ UNCHANGED <<stray, visible>>

\* The publication of t has settled, or not all of it reached a relay: an online presence
\* gets a heartbeat.
Published(t) ==
  /\ pc[t] = "presence"
  /\ IF wanted[t] = "online" THEN beat' = TRUE /\ stray' = (stray \/ beat)
     ELSE UNCHANGED <<beat, stray>>
  /\ At(t, "idle") /\ wanted' = [wanted EXCEPT ![t] = "invisible"]
  /\ UNCHANGED <<user, connection, graph, presence, presences, today, invitations>>

\* A heartbeat timer fires.
Heartbeat ==
  /\ beat \/ stray
  /\ hasPool /\ followers
  /\ UNCHANGED <<user, pc, wanted, connection, graph, beats, visible, today, invitations>>
  /\ Publish

\* The contact's client gets a presence, which replaces what it had of the user, whatever
\* came before; one that is not in force only removes it.  An element of underWay stands
\* for all presences of one tick.
PresenceArrives ==
  /\ \E life \in underWay :
       visible' = life /\ underWay' \in {underWay, underWay \ {life}}
  /\ UNCHANGED <<user, pc, wanted, connection, graph, beats, today, invitations>>

\* The contact's client has closed its page, or the user is no longer a mutual there.
ContactForgets ==
  /\ visible > 0 /\ visible' = 0
  /\ UNCHANGED <<user, pc, wanted, connection, graph, beats, underWay, today, invitations>>

Aged(life) == IF life = 0 THEN 0 ELSE life - 1

\* Time passes, whatever is awaited; the contact's client prunes what has expired.
Tick ==
  /\ underWay' = {Aged(life) : life \in underWay}
  /\ visible' = Aged(visible)
  /\ offlineFor' = IF IsOnline THEN 0 ELSE IF offlineFor < Life THEN offlineFor + 1 ELSE Life
  /\ UNCHANGED <<user, pc, wanted, connection, graph, beats, today, invitations>>

-----------------------------------------------------------------------------
(* Connections.                                                            *)

\* disconnect(); the pool takes its subscriptions with it.
Disconnect ==
  /\ hasPool' = FALSE /\ subs' = 0
  /\ following' = FALSE /\ followers' = FALSE /\ online' = FALSE
  /\ beat' = FALSE

Free == CHOOSE c \in Connects : pc[c] = "idle"
MayConnect == choices < MaxChoices /\ MayBegin /\ \E c \in Connects : pc[c] = "idle"

\* The effect of UserProfile calls connect with the presence of the moment.
CallConnect(c) ==
  /\ At(c, "key") /\ wanted' = [wanted EXCEPT ![c] = chosen']

SignIn ==
  /\ ~signedIn /\ signedIn' = TRUE /\ chosen' = chosen
  /\ MayConnect /\ choices' = choices + 1
  /\ CallConnect(Free)
  /\ UNCHANGED <<connection, graph, beats, presences, today, invitations>>

SignOut ==
  /\ signedIn /\ signedIn' = FALSE
  /\ Disconnect
  /\ UNCHANGED <<chosen, choices, pc, wanted, presence, stray, presences, today, invitations>>

\* The user chooses a presence: the control sets it, and the effect calls connect.
Choose ==
  /\ signedIn /\ pc["set"] = "idle"
  /\ MayConnect /\ choices' = choices + 1
  /\ chosen' \in States \ {chosen}
  /\ UNCHANGED <<signedIn, connection, graph, stray, visible, today, invitations>>
  /\ presence' = chosen' /\ beat' = (beat /\ ~hasPool)
  /\ Publish
  /\ pc' = [pc EXCEPT !["set"] = IF hasPool THEN "presence" ELSE "idle", ![Free] = "key"]
  /\ wanted' = [wanted EXCEPT !["set"] = IF hasPool THEN chosen' ELSE "invisible", ![Free] = chosen']

\* The signer has answered with its key.  The store may be connected by now.
KeyAnswer(c) ==
  /\ pc[c] = "key"
  /\ UNCHANGED <<user, today, invitations>>
  /\ IF hasPool
     THEN UNCHANGED <<connection, graph>> /\ SetPresence(c, wanted[c])
     ELSE /\ hasPool' = TRUE /\ subs' = 0
          /\ following' = FALSE /\ followers' = FALSE /\ online' = FALSE
          /\ beat' = FALSE /\ presence' = wanted[c]
          /\ At(c, "lists")
          /\ UNCHANGED <<stray, wanted, presences>>

\* After the graph: subscribe, and set the presence that connect was called with.
Connected(c) ==
  /\ pc[c] = "profiles"
  /\ UNCHANGED <<user, hasPool, graph, today, invitations>>
  /\ subs' = IF hasPool THEN subs + 1 ELSE subs
  /\ SetPresence(c, wanted[c])

-----------------------------------------------------------------------------
(* The social graph: refreshSocialGraph awaits the lists of the user and    *)
(* those that name it, then the lists of these people, then profiles.      *)

\* Mutant: people who are no longer mutuals stay listed as online.
KeepOnline(f, g) == online

\* The online contacts that are mutuals still.
StillMutual(f, g) == online /\ f /\ g

ListsAnswer(t) ==
  /\ pc[t] = "lists"
  /\ following' \in BOOLEAN
  /\ \/ hasPool /\ At(t, "followers") /\ UNCHANGED <<followers, online>>
     \* nobody names the user
     \/ /\ followers' = FALSE /\ online' = StillMutual(following', FALSE)
        /\ At(t, "profiles")
     \* the pool is gone
     \/ ~hasPool /\ At(t, "idle") /\ UNCHANGED <<followers, online>>
  /\ UNCHANGED <<user, wanted, connection, beats, presences, today, invitations>>

FollowersAnswer(t) ==
  /\ pc[t] = "followers"
  /\ followers' \in BOOLEAN
  /\ online' = StillMutual(following, followers')
  /\ At(t, "profiles")
  /\ UNCHANGED <<user, wanted, connection, following, beats, presences, today, invitations>>

\* receivePresence of the contact, and pruneExpired.
ContactSeen ==
  /\ subs > 0
  /\ online' = ((following /\ followers) \/ online)
  /\ UNCHANGED <<user, pc, wanted, connection, following, followers, beats, presences,
                 today, invitations>>

ContactGone ==
  /\ online /\ online' = FALSE
  /\ UNCHANGED <<user, pc, wanted, connection, following, followers, beats, presences,
                 today, invitations>>

-----------------------------------------------------------------------------
(* Invitations.                                                            *)

\* The contact sends an invitation; the relays keep its gift wrap.
ContactInvites(i) ==
  /\ stamp[i] = Never
  /\ \E at \in (today - Backdate)..today : stamp' = [stamp EXCEPT ![i] = at]
  /\ UNCHANGED <<user, pc, wanted, connection, graph, beats, presences, today, seen,
                 incoming, noted, answered, settled>>

\* Mutant: an answer counts for the day it was given.
ResolvedToday(i) == answered[i] = today

\* isInvitationResolved
Resolved(i) == answered[i] # Never /\ today - answered[i] <= Retention

ListInvite(i) == incoming' = [incoming EXCEPT ![i] = @ + 1] /\ noted' = noted \union {i}

\* receiveInvite from its checks on; without a profile there is one more await.
Check(i) ==
  /\ UNCHANGED <<stamp, answered, settled>>
  /\ IF following /\ incoming[i] = 0 /\ ~Resolved(i)
     THEN \/ At(i, "profile") /\ UNCHANGED <<incoming, noted>>
          \/ ListInvite(i) /\ IF pc[i] = "profile" THEN UNCHANGED pc ELSE At(i, "idle")
     ELSE At(i, "idle") /\ UNCHANGED <<incoming, noted>>

Seen(i) == seen \union {i}

\* receive(): a gift wrap that a subscription delivers, of today or from the days it asks
\* for; relays send what they hold on the day they are asked.  A second subscription
\* may deliver it again while the first reception awaits the profile.  The graph is
\* refreshed first when it is older than a minute.
Receive(i) ==
  /\ subs > 0 /\ stamp[i] # Never /\ stamp[i] >= today - Replay /\ i \notin seen
  /\ pc[i] \in {"idle", "profile"} /\ MayBegin
  /\ seen' = Seen(i)
  /\ UNCHANGED <<user, wanted, connection, graph, beats, presences, today>>
  /\ \/ At(i, "lists") /\ UNCHANGED <<stamp, incoming, noted, answered, settled>>
     \/ Check(i)

GraphForInvite(i) ==
  /\ pc[i] = "profiles" /\ Check(i)
  /\ UNCHANGED <<user, wanted, connection, graph, beats, presences, today, seen>>

\* The profile has come: the invitation is listed and recorded.
Listed(i) ==
  /\ pc[i] = "profile" /\ At(i, "idle")
  /\ ListInvite(i)
  /\ UNCHANGED <<user, wanted, connection, graph, beats, presences, today, stamp, seen,
                 answered, settled>>

\* Accepting or dismissing an invitation of the feed, which survives a reload: the answer
\* is stored and the invitation is no longer listed.
Answer(i) ==
  /\ i \in noted
  /\ answered' = [answered EXCEPT ![i] = today]
  /\ incoming' = [incoming EXCEPT ![i] = 0]
  /\ settled' = IF pc[i] = "idle" THEN settled \union {i} ELSE settled
  /\ UNCHANGED <<user, pc, wanted, connection, graph, beats, presences, today, stamp, seen,
                 noted>>

-----------------------------------------------------------------------------
\* A day passes, and with it every presence.
Day ==
  /\ NothingAwaited /\ today < MaxDay /\ today' = today + 1
  /\ underWay' = {0 : life \in underWay} /\ visible' = 0
  /\ offlineFor' = IF IsOnline THEN 0 ELSE Life
  /\ UNCHANGED <<user, pc, wanted, connection, graph, beats, invitations>>

\* A new page: all is gone but the choice and the answers.
NewPage ==
  /\ choices < MaxChoices /\ choices' = choices + 1
  /\ signedIn' = FALSE
  /\ pc' = [t \in Tasks |-> "idle"]
  /\ wanted' = [t \in Tasks |-> "invisible"]
  /\ Disconnect /\ presence' = "invisible" /\ stray' = FALSE
  /\ seen' = {} /\ incoming' = [i \in Invites |-> 0]
  /\ UNCHANGED <<chosen, presences, today, stamp, noted, answered, settled>>

SocialStep ==
  \/ SignIn \/ SignOut \/ Choose \/ ContactSeen \/ ContactGone
  \/ Heartbeat \/ PresenceArrives \/ ContactForgets \/ NewPage
  \/ \E c \in Connects : KeyAnswer(c) \/ Connected(c)
  \/ \E t \in Tasks : Published(t) \/ ListsAnswer(t) \/ FollowersAnswer(t)
  \/ \E i \in Invites : ContactInvites(i) \/ Receive(i) \/ GraphForInvite(i) \/ Listed(i) \/ Answer(i)

SocialNext ==
  \/ SocialStep /\ offlineFor' = IF IsOnline' THEN 0 ELSE offlineFor
  \/ Tick \/ Day

SocialSpec == SocialInit /\ [][SocialNext]_socialVars

-----------------------------------------------------------------------------
(* Properties.                                                             *)

\* Who is shown as online is a mutual, once no refresh of the graph is under way.
OnlineAreMutuals ==
  (\A t \in Tasks : pc[t] \notin {"lists", "followers"}) => (online => following /\ followers)

\* A contact's client stops showing the user at most the life of a presence after it was
\* last online, by invisible, signing out or closing the page: whatever heartbeats
\* overlapping calls and old connections have left running, however long a presence waits
\* for the signer and the relays, and in whatever order presences arrive.
NotShownForLong == visible > 0 => offlineFor < Life

\* An invitation that was answered while it was not being received stays out of the
\* list, through reloads and new subscriptions that deliver it again: relays are asked
\* for fewer days than answers are kept.
AnsweredStaysAnswered == \A i \in settled : incoming[i] = 0
===============================================================================
