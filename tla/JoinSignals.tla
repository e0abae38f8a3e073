------------------------------- MODULE JoinSignals -------------------------------
(***************************************************************************)
(* A request to join that reaches a coordinator in whose tab the host of   *)
(* the room is active (coordinator.ts, room-store.ts).  The request is     *)
(* held, the host's session is signalled, and the answer to the guest    *)
(* waits for what the session does about it, so that a guest that asks for *)
(* its welcome next finds it.  The session synchronizes one operation at a *)
(* time, and a signal joins the synchronization that is pending, which may *)
(* have read the requests already.                                         *)
(***************************************************************************)
EXTENDS Naturals, FiniteSets

CONSTANTS
  Askers,      \* guests of one room whose host admits by itself
  MaxCalls,    \* bound: calls to store a request
  MaxOthers    \* bound: messages the host sends, stops and failures of the session

VARIABLES
  held,        \* askers whose request the coordinator holds
  welcomed,    \* askers for whose last request a welcome was held
  call,        \* [Askers -> how far the call is: "none", "joined", "resumes" or "awaits"
               \* while it waits, "answered" or "failed"]
  subscribed,  \* joinRequestUnsubscribe # null: the session is told of requests
  pendingSync, \* sync() has not ended
  running,     \* the operation at the head of operationQueue: "sync", "send" or "none"
  fetched,     \* the requests it has read and not dealt with
  disturbed,   \* history: askers whose last pass failed, or whose session stopped
  asked, others

signalVars == <<held, welcomed, call, subscribed, pendingSync, running, fetched, disturbed,
                asked, others>>

Init ==
  /\ held = {} /\ welcomed = {} /\ call = [a \in Askers |-> "none"]
  /\ subscribed = FALSE /\ pendingSync = FALSE /\ running = "none" /\ fetched = {}
  /\ disturbed = {} /\ asked = 0 /\ others = 0

Waiting == {a \in Askers : call[a] \in {"joined", "resumes", "awaits"}}
Other == others < MaxOthers /\ others' = others + 1

-----------------------------------------------------------------------------
(* The coordinator.                                                        *)

\* Mutant: a signal is content with the synchronization that is under way.
JoinsOnly(inFlight) == "awaits"

\* syncAfterJoinRequest(), up to its first await: "If the signal arrived after an
\* in-flight sync had already fetched its requests, perform one more pass".
Signalled(inFlight) == IF inFlight THEN "joined" ELSE "awaits"

\* storeJoinRequest(): a request replaces the one before, and every listener is called;
\* the adapter waits for them, if there are any.
StoreJoinRequest(a) ==
  /\ a \notin Waiting /\ asked < MaxCalls /\ asked' = asked + 1
  /\ held' = held \union {a} /\ welcomed' = welcomed \ {a}
  /\ disturbed' = disturbed \ {a}
  /\ IF subscribed
     THEN call' = [call EXCEPT ![a] = Signalled(pendingSync)] /\ pendingSync' = TRUE
     ELSE call' = [call EXCEPT ![a] = "answered"] /\ UNCHANGED pendingSync
  /\ UNCHANGED <<subscribed, running, fetched, others>>

-----------------------------------------------------------------------------
(* The session of the host.                                                *)

\* recover() or start() of a session has ended, and the steady state is attached.  The
\* operations of one that was stopped before are over: they are of no concern to it.
Attach ==
  /\ ~subscribed /\ ~pendingSync /\ running = "none" /\ Waiting = {}
  /\ subscribed' = TRUE
  /\ UNCHANGED <<held, welcomed, call, pendingSync, running, fetched, disturbed, asked,
                 others>>

\* The interval, and the browser's online event.
Poll ==
  /\ subscribed /\ ~pendingSync /\ pendingSync' = TRUE
  /\ UNCHANGED <<held, welcomed, call, subscribed, running, fetched, disturbed, asked,
                 others>>

\* The operation is at the head of the queue and reads the requests.  A session that was
\* stopped meanwhile does nothing.
Fetched == IF subscribed THEN held ELSE {}

SyncBegins ==
  /\ pendingSync /\ running = "none" /\ running' = "sync" /\ fetched' = Fetched
  /\ UNCHANGED <<held, welcomed, call, subscribed, pendingSync, disturbed, asked, others>>

\* A message is sent by an operation of its own, which synchronizes, too.
SendBegins ==
  /\ subscribed /\ running = "none" /\ running' = "send" /\ fetched' = Fetched /\ Other
  /\ UNCHANGED <<held, welcomed, call, subscribed, pendingSync, disturbed, asked>>

\* acceptJoinRequests() and flushPendingWelcomes() of one request, which a stop does not
\* interrupt.
Admit(a) ==
  /\ a \in fetched /\ fetched' = fetched \ {a}
  /\ held' = held \ {a} /\ welcomed' = welcomed \union {a}
  /\ UNCHANGED <<call, subscribed, pendingSync, running, disturbed, asked, others>>

\* What becomes of the calls that waited for a sync() that has ended.
After(outcome) ==
  [a \in Askers |-> IF call[a] \in {"joined", "awaits"} /\ outcome = "throws" THEN "failed"
                    ELSE CASE call[a] = "joined" -> "resumes"
                           [] call[a] = "awaits" -> "answered"
                           [] OTHER -> call[a]]

SyncEnds(outcome) ==
  IF running = "sync"
  THEN /\ pendingSync' = FALSE /\ call' = After(outcome)
       /\ disturbed' = IF outcome = "done" THEN disturbed
                       ELSE disturbed \union {a \in Askers : call[a] = "awaits"}
  ELSE UNCHANGED <<pendingSync, call, disturbed>>

OperationEnds ==
  /\ running # "none" /\ fetched = {} /\ running' = "none"
  /\ SyncEnds("done")
  /\ UNCHANGED <<held, welcomed, subscribed, fetched, asked, others>>

\* syncOnce() keeps its errors to itself, but not that of the room that cannot be saved.
OperationFails ==
  /\ running # "none" /\ running' = "none" /\ fetched' = {} /\ Other
  /\ \E outcome \in {"fails", "throws"} : SyncEnds(outcome)
  /\ UNCHANGED <<held, welcomed, subscribed, asked>>

\* The rest of syncAfterJoinRequest() of a signal that found a sync() in flight.
Resume(a) ==
  /\ call[a] = "resumes"
  /\ IF subscribed
     THEN call' = [call EXCEPT ![a] = "awaits"] /\ pendingSync' = TRUE
     ELSE call' = [call EXCEPT ![a] = "answered"] /\ UNCHANGED pendingSync
  /\ UNCHANGED <<held, welcomed, subscribed, running, fetched, disturbed, asked, others>>

\* stop(); the session that comes next is another one, for which the calls do not wait.
Stop ==
  /\ subscribed /\ subscribed' = FALSE /\ Other
  /\ disturbed' = disturbed \union Waiting
  /\ UNCHANGED <<held, welcomed, call, pendingSync, running, fetched, asked>>

Next ==
  \/ Attach \/ Poll \/ SyncBegins \/ SendBegins \/ OperationEnds \/ OperationFails \/ Stop
  \/ \E a \in Askers : StoreJoinRequest(a) \/ Admit(a) \/ Resume(a)

Spec == Init /\ [][Next]_signalVars

-----------------------------------------------------------------------------

\* A guest whose request was signalled to a session finds its welcome when it has the
\* answer, however its signal met polls, messages and the signals of others, unless the
\* pass that began after it failed or the session was stopped (the test "makes a Welcome
\* available to one immediate canonical welcome_take after join_request_store").
AnswerBringsWelcome ==
  [][\A a \in Askers : a \in Waiting /\ call'[a] = "answered" /\ a \notin disturbed'
                         => a \in welcomed']_signalVars
=================================================================================
