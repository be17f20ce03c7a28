------------------------------- MODULE RunFeed -------------------------------
(***************************************************************************)
(* The live feed of one run (app/services/ws_manager.py, api/v1/ws.py):    *)
(* sockets that subscribe, get the stored run and listen, the tasks that   *)
(* change the run and broadcast it, disconnections and the shutdown.       *)
(*                                                                         *)
(* The state of the run is the number of its store updates.  A socket is   *)
(* one connection: a client that reconnects (useRunWebSocket.ts) uses a    *)
(* further one.  The lock of WebSocketManager is never held across an      *)
(* await, so what it guards is one step; every awaited send is one.        *)
(* broadcast_event, which changes no state, is left out.                   *)
(***************************************************************************)
EXTENDS Naturals, FiniteSets

CONSTANTS
  Sockets,      \* connections
  Unknown,      \* those that ask for an autonomous goal nobody knows
  Unread,       \* those whose snapshot cannot be read (store failure)
  Publishers,   \* tasks that update the run: executions, cancel requests
  MaxVersion    \* bound on the updates

ASSUME FeedAssumption ==
  /\ Unknown \subseteq Sockets /\ Unread \subseteq Sockets
  /\ MaxVersion \in Nat

VARIABLES
  version,   \* updates of the stored run
  job,       \* job[p]: the broadcast task p is in
  listed,    \* WebSocketManager._connections, of all channels
  at,        \* at[s]: where the handler of s is
  snap,      \* snap[s]: the run as the handler of s read it
  dead,      \* sockets whose connection is closed
  view,      \* view[s]: the run as the client of s last received it
  newest,    \* newest[s]: the newest run it ever received (history)
  closing    \* sockets close_all still has to close

feedVars == <<version, job, listed, at, snap, dead, view, newest,
          closing>>

Versions == 0 .. MaxVersion

NoJob == [at |-> "idle", data |-> 0, left |-> {}]
Job == [at : {"idle", "publish", "send"}, data : Versions,
        left : SUBSET Sockets]
-----------------------------------------------------------------------------
Receive(s, data) ==
  /\ view' = [view EXCEPT ![s] = data]
  /\ newest' = [newest EXCEPT ![s] = IF data > @ THEN data ELSE @]

(* Mutant: the first send that raises ends the broadcast.                  *)
DeliverAborts(p, data, targets) ==
  \E s \in targets :
    /\ job' = [job EXCEPT ![p] =
         IF targets = {s} \/ s \in dead THEN NoJob
         ELSE [at |-> "send", data |-> data, left |-> targets \ {s}]]
    /\ IF s \in dead
       THEN listed' = listed \ {s} /\ UNCHANGED <<view, newest>>
       ELSE Receive(s, data) /\ UNCHANGED listed

(* A socket is handed the data of a broadcast; one whose send raises is    *)
(* removed and the others are served all the same.                         *)
Deliver(p, data, targets) ==
  \E s \in targets :
    /\ job' = [job EXCEPT ![p] =
         IF targets = {s} THEN NoJob
         ELSE [at |-> "send", data |-> data, left |-> targets \ {s}]]
    /\ IF s \in dead
       THEN listed' = listed \ {s} /\ UNCHANGED <<view, newest>>
       ELSE Receive(s, data) /\ UNCHANGED listed

(* store.update(run): the row holds the task's version of the run.         *)
Commit(p) ==
  /\ job[p].at = "idle" /\ version < MaxVersion
  /\ version' = version + 1
  /\ job' = [job EXCEPT ![p] =
       [at |-> "publish", data |-> version', left |-> {}]]
  /\ UNCHANGED <<listed, at, snap, dead, view, newest, closing>>

(* _broadcast_update: the sockets of the channel are copied, the first is  *)
(* served.                                                                 *)
Publish(p) ==
  /\ job[p].at = "publish"
  /\ \/ /\ listed \ Unknown = {}
        /\ job' = [job EXCEPT ![p] = NoJob]
        /\ UNCHANGED <<listed, view, newest>>
     \/ Deliver(p, job[p].data, listed \ Unknown)
  /\ UNCHANGED <<version, at, snap, dead, closing>>

Send(p) ==
  /\ job[p].at = "send"
  /\ Deliver(p, job[p].data, job[p].left)
  /\ UNCHANGED <<version, at, snap, dead, closing>>
-----------------------------------------------------------------------------
(* The handler accepts the socket and lists it before it reads the run.    *)
Connect(s) ==
  /\ at[s] = "new"
  /\ listed' = listed \union {s}
  /\ at' = [at EXCEPT ![s] = "read"]
  /\ UNCHANGED <<version, job, snap, dead, view, newest, closing>>

Read(s) ==
  /\ at[s] = "read" /\ s \notin Unread \union Unknown
  /\ snap' = [snap EXCEPT ![s] = version]
  /\ at' = [at EXCEPT ![s] = "greet"]
  /\ UNCHANGED <<version, job, listed, dead, view, newest, closing>>

(* A read that raises is logged; so is a snapshot that cannot be sent.     *)
ReadFails(s) ==
  /\ at[s] = "read" /\ s \in Unread \ Unknown
  /\ at' = [at EXCEPT ![s] = "listen"]
  /\ UNCHANGED <<version, job, listed, snap, dead, view, newest, closing>>

(* Mutant: a snapshot that cannot be sent ends the handler.                *)
GreetRaises(s) ==
  /\ at[s] = "greet"
  /\ at' = [at EXCEPT ![s] = IF s \in dead THEN "gone" ELSE "listen"]
  /\ IF s \in dead THEN UNCHANGED <<view, newest>> ELSE Receive(s, snap[s])
  /\ snap' = [snap EXCEPT ![s] = 0]
  /\ UNCHANGED <<version, job, listed, dead, closing>>

Greet(s) ==
  /\ at[s] = "greet"
  /\ at' = [at EXCEPT ![s] = "listen"]
  /\ IF s \in dead THEN UNCHANGED <<view, newest>> ELSE Receive(s, snap[s])
  /\ snap' = [snap EXCEPT ![s] = 0]
  /\ UNCHANGED <<version, job, listed, dead, closing>>

(* The answer that the goal is not known is sent from an except block: if  *)
(* that raises, the handler ends before the block that removes the socket. *)
RefuseGoal(s) ==
  /\ at[s] = "read" /\ s \in Unknown
  /\ at' = [at EXCEPT ![s] = IF s \in dead THEN "gone" ELSE "listen"]
  /\ UNCHANGED <<version, job, listed, snap, dead, view, newest, closing>>

(* The listening handler notices that its socket is closed.                *)
Disconnect(s) ==
  /\ at[s] = "listen" /\ s \in dead
  /\ listed' = listed \ {s}
  /\ at' = [at EXCEPT ![s] = "gone"]
  /\ UNCHANGED <<version, job, snap, dead, view, newest, closing>>

(* The client, or the network, closes the connection.                      *)
Drop(s) ==
  /\ at[s] \notin {"new", "gone"} /\ s \notin dead
  /\ dead' = dead \union {s}
  /\ UNCHANGED <<version, job, listed, at, snap, view, newest, closing>>

(* close_all, which the shutdown calls: the registry is emptied at once,   *)
(* then the sockets are closed one by one.                                 *)
CloseAll ==
  /\ listed # {} /\ closing = {}
  /\ closing' = listed
  /\ listed' = {}
  /\ UNCHANGED <<version, job, at, snap, dead, view, newest>>

CloseSocket(s) ==
  /\ s \in closing
  /\ closing' = closing \ {s}
  /\ dead' = dead \union {s}
  /\ UNCHANGED <<version, job, listed, at, snap, view, newest>>
-----------------------------------------------------------------------------
FeedInit ==
  /\ version = 0
  /\ job = [p \in Publishers |-> NoJob]
  /\ listed = {} /\ dead = {} /\ closing = {}
  /\ at = [s \in Sockets |-> "new"]
  /\ snap = [s \in Sockets |-> 0]
  /\ view = [s \in Sockets |-> 0]
  /\ newest = [s \in Sockets |-> 0]

Broadcast(p) == Publish(p) \/ Send(p)
HandleSocket(s) ==
  Read(s) \/ ReadFails(s) \/ Greet(s) \/ RefuseGoal(s) \/ Disconnect(s)

FeedNext ==
  \/ \E p \in Publishers : Commit(p) \/ Broadcast(p)
  \/ \E s \in Sockets : Connect(s) \/ HandleSocket(s) \/ Drop(s) \/ CloseSocket(s)
  \/ CloseAll

FeedSpec == FeedInit /\ [][FeedNext]_feedVars

(* The tasks go on: a send returns or raises, at the latest when the       *)
(* server's keepalive gives the connection up.                             *)
FeedFairSpec ==
  /\ FeedSpec
  /\ \A p \in Publishers : WF_feedVars(Broadcast(p))
  /\ \A s \in Sockets : WF_feedVars(HandleSocket(s)) /\ WF_feedVars(CloseSocket(s))
-----------------------------------------------------------------------------
FeedTypeOK ==
  /\ version \in Versions
  /\ job \in [Publishers -> Job]
  /\ listed \subseteq Sockets /\ dead \subseteq Sockets
  /\ closing \subseteq Sockets \ listed
  /\ at \in [Sockets -> {"new", "read", "greet", "listen", "gone"}]
  /\ snap \in [Sockets -> Versions] /\ view \in [Sockets -> Versions]
  /\ newest \in [Sockets -> Versions]

(* No leak: a listed socket has a handler that will still remove it; the   *)
(* handler of an unknown goal aside.                                       *)
Handled ==
  \A s \in listed \ Unknown : at[s] \in {"read", "greet", "listen"}

(* Nothing is missed: every update that is stored while a socket is        *)
(* subscribed, or before, reaches its client in some message, whatever the *)
(* other sockets do, unless the connection closes.                         *)
NothingMissed ==
  \A s \in Sockets \ (Unknown \union Unread), v \in Versions :
    version = v /\ at[s] \in {"read", "greet", "listen"} ~>
      newest[s] >= v \/ s \in dead
=============================================================================
