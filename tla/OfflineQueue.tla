---------------------------- MODULE OfflineQueue ----------------------------
(***************************************************************************)
(* The mobile app's queue of write operations made offline                 *)
(* (cache/CacheStore.ts, fed by cache/NetworkMonitor.ts) and the server it *)
(* sends them to.  The queue is persisted in MMKV; the network and sync    *)
(* state are not.  JavaScript runs one step at a time, but processQueue    *)
(* awaits every request, so several passes can be under way.               *)
(*                                                                         *)
(* Actions are numbered as they are queued; the array's order is that of   *)
(* the numbers.  retries and lastError only reach a log line: an action    *)
(* whose retries are used up stays queued and is sent again.               *)
(***************************************************************************)
EXTENDS Naturals, FiniteSets

CONSTANTS
  MaxActions,    \* bound: actions ever queued
  MaxQueueSize,  \* config.maxQueueSize, 50
  Passes         \* bound: passes under way at once

ASSUME OfflineQueueAssumption == MaxActions \in Nat /\ MaxQueueSize \in Nat

QueueActions == 1..MaxActions

VARIABLES
  queued,      \* actions ever queued
  queue,       \* storage: "queue:actions"
  connected,   \* networkState.isConnected
  mounted,     \* the monitor has seen its first event (isInitialMount is off)
  syncStatus,  \* "idle", "syncing", "error" or "offline"
  pass,        \* the runs of processQueue: what is left of their snapshot
  served,      \* server: how often each action was carried out, up to 2
  cleared,     \* history: actions clearQueue has dropped
  unsure,      \* history: actions carried out without the app learning of it
  cut,         \* history: the network failed during a pass still under way
  shared       \* history: actions two passes had at once, after such a failure

offlineVars == <<queued, queue, connected, mounted, syncStatus, pass, served,
                 cleared, unsure, cut, shared>>

NoPass == [at |-> "idle", left |-> {}]
Running == {p \in Passes : pass[p].at # "idle"}
Current(p, a) == a \in pass[p].left /\ \A b \in pass[p].left : a <= b

OfflineInit ==
  /\ queued = 0
  /\ queue = {}
  /\ connected = TRUE
  /\ mounted = FALSE
  /\ syncStatus = "idle"
  /\ pass = [p \in Passes |-> NoPass]
  /\ served = [a \in QueueActions |-> 0]
  /\ cleared = {} /\ unsure = {} /\ shared = {}
  /\ cut = FALSE

\* processQueue up to its first await: nothing while disconnected or syncing, or
\* if the queue is empty; else a snapshot of the queue.
ProcessQueue(online, status, q) ==
  IF ~online \/ status = "syncing" \/ q = {}
  THEN syncStatus' = status /\ UNCHANGED <<pass, shared>>
  ELSE \E p \in Passes \ Running :
         /\ pass' = [pass EXCEPT ![p] = [at |-> "sending", left |-> q]]
         /\ syncStatus' = "syncing"
         /\ shared' = IF cut THEN shared \union (q \intersect UNION {pass[r].left : r \in Running})
                      ELSE shared

QueueAction ==
  /\ queued < MaxActions
  /\ Cardinality(queue) < MaxQueueSize
  /\ queued' = queued + 1
  /\ queue' = queue \union {queued + 1}
  /\ ProcessQueue(connected, syncStatus, queue')
  /\ UNCHANGED <<connected, mounted, served, cleared, unsure, cut>>

ClearQueue ==
  /\ queue # {}
  /\ queue' = {}
  /\ cleared' = cleared \union queue
  /\ UNCHANGED <<queued, connected, mounted, syncStatus, pass, served, unsure, cut, shared>>

-----------------------------------------------------------------------------
\* handleNetworkChange: setNetworkState processes the queue on a reconnect (the
\* monitor's own call after it finds it syncing); a disconnect overwrites the
\* sync status, a pass under way or not, unless it is the first event.
FirstEvent ==
  /\ ~mounted
  /\ mounted' = TRUE
  /\ UNCHANGED <<queued, queue, connected, syncStatus, pass, served, cleared, unsure, cut, shared>>

Reconnect ==
  /\ ~connected
  /\ connected' = TRUE
  /\ ProcessQueue(TRUE, syncStatus, queue)
  /\ UNCHANGED <<queued, queue, mounted, served, cleared, unsure, cut>>

Disconnect ==
  /\ connected
  /\ connected' = FALSE
  /\ mounted' = TRUE
  /\ syncStatus' = IF mounted THEN "offline" ELSE syncStatus
  /\ cut' = (cut \/ (mounted /\ Running # {}))
  /\ UNCHANGED <<queued, queue, pass, served, cleared, unsure, shared>>

-----------------------------------------------------------------------------
\* The server carries out the request of a pass.
Serve(p) ==
  /\ pass[p].at = "sending"
  /\ \E a \in QueueActions : Current(p, a) /\ served' = [served EXCEPT ![a] = IF @ < 2 THEN @ + 1 ELSE 2]
  /\ pass' = [pass EXCEPT ![p].at = "served"]
  /\ UNCHANGED <<queued, queue, connected, mounted, syncStatus, cleared, unsure, cut, shared>>

\* The loop goes on with the rest of its snapshot, whatever has happened to the
\* queue and the network since; after the last action it sets the status.
GoOn(p, a) ==
  LET left == pass[p].left \ {a} IN
    /\ pass' = [pass EXCEPT ![p] = [at |-> IF left = {} THEN "idle" ELSE "sending", left |-> left]]
    /\ syncStatus' = IF left # {} THEN syncStatus ELSE IF queue' = {} THEN "idle" ELSE "error"
    /\ cut' = (cut /\ \E r \in Passes : pass'[r].at # "idle")

\* mutant: the queue is emptied instead of the action removed
AcknowledgeAll(p) ==
  /\ pass[p].at = "served"
  /\ \E a \in QueueActions :
       /\ Current(p, a)
       /\ queue' = {}
       /\ GoOn(p, a)
  /\ UNCHANGED <<queued, connected, mounted, served, cleared, unsure, shared>>

Acknowledge(p) ==
  /\ pass[p].at = "served"
  /\ \E a \in QueueActions :
       /\ Current(p, a)
       /\ queue' = queue \ {a}
       /\ GoOn(p, a)
  /\ UNCHANGED <<queued, connected, mounted, served, cleared, unsure, shared>>

\* An error answer, or none: the action stays queued.
SendFails(p) ==
  /\ pass[p].at \in {"sending", "served"}
  /\ \E a \in QueueActions :
       /\ Current(p, a)
       /\ unsure' = IF pass[p].at = "served" THEN unsure \union {a} ELSE unsure
       /\ UNCHANGED queue
       /\ GoOn(p, a)
  /\ UNCHANGED <<queued, connected, mounted, served, cleared, shared>>

\* The app is killed and opened again: the queue is all that is left, and
\* nothing sends it before the next queueAction or reconnect.
Relaunch ==
  /\ pass' = [p \in Passes |-> NoPass]
  /\ connected' = TRUE
  /\ mounted' = FALSE
  /\ syncStatus' = "idle"
  /\ unsure' = unsure \union {a \in QueueActions : \E p \in Passes :
                                pass[p].at = "served" /\ Current(p, a)}
  /\ cut' = FALSE
  /\ UNCHANGED <<queued, queue, served, cleared, shared>>

OfflineNext ==
  \/ QueueAction \/ ClearQueue \/ FirstEvent \/ Reconnect \/ Disconnect \/ Relaunch
  \/ \E p \in Passes : Serve(p) \/ Acknowledge(p) \/ SendFails(p)

OfflineSpec == OfflineInit /\ [][OfflineNext]_offlineVars

-----------------------------------------------------------------------------
\* The shape of the state.
OfflineTypeOK ==
  /\ queued \in 0..MaxActions
  /\ queue \subseteq 1..queued
  /\ connected \in BOOLEAN /\ mounted \in BOOLEAN
  /\ syncStatus \in {"idle", "syncing", "error", "offline"}
  /\ pass \in [Passes -> [at : {"idle", "sending", "served"}, left : SUBSET QueueActions]]
  /\ served \in [QueueActions -> 0..2]
  /\ cleared \subseteq QueueActions /\ unsure \subseteq QueueActions /\ shared \subseteq QueueActions
  /\ cut \in BOOLEAN

\* An action queued (a tip, a review) is not lost: it is in the queue until the
\* server has carried it out or the user clears the queue, across kills, lost
\* answers and passes that overlap.  And it is carried out twice only if the app
\* could not learn of the first time, or if the network failed during a pass:
\* that resets the sync status, and a second pass starts on what the first is
\* sending.
ServedAsQueued ==
  \A a \in 1..queued :
    /\ a \in queue \/ a \in cleared \/ served[a] > 0
    /\ served[a] > 1 => a \in unsure \/ a \in shared
=============================================================================
