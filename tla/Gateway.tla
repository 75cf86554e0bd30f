------------------------------- MODULE Gateway -------------------------------
(***************************************************************************)
(* The OCPP gateway's view of one charge point: the upgrade handshake,     *)
(* the in-memory registry, BootNotification and Heartbeat, the heartbeat   *)
(* sweep, the close handler, the reconciliation at start-up, the commands  *)
(* awaiting an answer, and the charge point (the simulator) that dials in, *)
(* beats, loses its link and dials in again.                               *)
(*                                                                         *)
(* Sources: backend/src/ocpp/{gateway,registry,handlers,commands}.ts,      *)
(* services/charger.service.ts (regenerateChargerToken),                   *)
(* services/chargerCommand.service.ts and simulator/src/charger.ts.        *)
(*                                                                         *)
(* Every `await` is a boundary between two actions, because the event loop *)
(* runs other frames, timers and close events there.  A write that is not  *)
(* awaited (`void Charger.updateOne(...)`) is on its way from the moment   *)
(* it is issued and takes effect at any later step.  What a lost charger   *)
(* does to its charging sessions is the subject of ChargingSession; here   *)
(* only the connection, the `isOnline` mirror and the pending commands     *)
(* are kept.                                                               *)
(*                                                                         *)
(* One behaviour is the life of one backend process, from its start to an  *)
(* orderly shutdown or to a crash at any point: a crash leaves nothing but *)
(* the stored fields, and Init ranges over them.                           *)
(*                                                                         *)
(* Bounds: the sockets the charger opens (MaxSocket), the commands sent to *)
(* it (Calls) and one rotation of its token.                               *)
(***************************************************************************)
EXTENDS Naturals, FiniteSets

CONSTANTS
  MaxSocket,      \* how many WebSockets the charger opens, numbered in order
  Calls           \* remote commands sent to the charger

ASSUME MaxSocketAssumption == MaxSocket \in Nat \ {0}

VARIABLES
  proc,       \* the backend process: "up", or "stopping" at a shutdown
  registry,   \* registry.ts `connections`: the socket registered for the charger
  socket,     \* every WebSocket, as the gateway and as the charger see it
  isOnline,   \* Charger.isOnline, the stored mirror
  token,      \* which token Charger.authTokenHash admits
  frame,      \* the handler running for the frame last read from each socket
  offWrite,   \* the sockets whose close handler's isOnline write is on its way
  sweep,      \* sweepStaleConnections
  reconcile,  \* reconcileOnlineStateAtBoot
  calls       \* commands.ts `pending`, and what became of each call

vars == <<proc, registry, socket, isOnline, token, frame,
          offWrite, sweep, reconcile, calls>>

Sockets == 1..MaxSocket
None == 0

\* `phase` is the gateway's end, `peer` the charger's: a link that dies in
\* silence leaves the phase "open" with the peer "lost".  `stage` is how far
\* the charger is in onOpen: it beats only once its boot was answered.
Socket == [phase : {"unused", "offered", "verifying", "open", "closing", "closed"},
           peer  : {"none", "open", "lost"},
           stage : {"new", "unanswered", "booted"},
           heard : BOOLEAN,       \* lastHeartbeatAt is younger than the cutoff
           token : 0..2,          \* the token presented, while it matters
           hash  : 0..2,          \* the token whose hash authenticate read
           revoked : BOOLEAN]     \* the token was replaced before the upgrade began
Unused == [phase |-> "unused", peer |-> "none", stage |-> "new",
           heard |-> FALSE, token |-> 0, hash |-> 0, revoked |-> FALSE]
Closed == [Unused EXCEPT !.phase = "closed"]

Receiving(k) == socket[k].phase \in {"open", "closing"}
Linked(k) == socket[k].peer = "open"
NoCall == [state |-> "none", via |-> None, answer |-> None]

-----------------------------------------------------------------------------
(* registry.ts *)

\* touchHeartbeat looks the connection up by charger, so a frame read from a
\* superseded socket refreshes the connection that replaced it.
touchHeartbeat(sk) ==
  IF registry = None THEN sk ELSE [sk EXCEPT ![registry].heard = TRUE]

\* The socket that replaces another one closes it: no charger is locked out
\* behind a socket the backend wrongly believes alive.
register(k) ==
  /\ registry' = k
  /\ socket' = [j \in Sockets |->
       IF j = k THEN [socket[k] EXCEPT !.phase = "open", !.heard = TRUE,
                                       !.token = 0, !.hash = 0]
       ELSE IF j = registry /\ socket[j].phase = "open"
            THEN [socket[j] EXCEPT !.phase = "closing"]
            ELSE socket[j]]

\* remove is guarded by the identity of the socket; the result says whether
\* the registry held it.
Holds_unguarded(k) == registry # None
Holds(k) == registry = k
removed(k) == IF Holds(k) THEN None ELSE registry

-----------------------------------------------------------------------------
(* The upgrade handshake: authenticate, then onConnection *)

\* SimulatedCharger.connect, only when the previous socket is gone.  The
\* charger holds the token it was last configured with, replaced or not.
connect(k) ==
  /\ socket[k].phase = "unused"
  /\ \A j \in Sockets : (j < k => socket[j].phase # "unused") /\ ~Linked(j)
  /\ \E t \in 1..token :
       socket' = [socket EXCEPT ![k] =
         [@ EXCEPT !.phase = "offered", !.peer = "open", !.token = t, !.revoked = t < token]]
  /\ UNCHANGED <<proc, registry, isOnline, token, frame,
                 offWrite, sweep, reconcile, calls>>

findCharger(k) ==
  /\ socket[k].phase = "offered"
  /\ socket' = [socket EXCEPT ![k] = [@ EXCEPT !.phase = "verifying", !.hash = token]]
  /\ UNCHANGED <<proc, registry, isOnline, token, frame,
                 offWrite, sweep, reconcile, calls>>

\* The bcrypt comparison decides against the hash read before it.  Once the
\* shutdown has closed the WebSocket server nothing is accepted.  A raw socket
\* that died meanwhile is dropped if the server has noticed; if it has not, the
\* dead link is registered, even over a newer one.
Verified_anyToken(k) == TRUE
Verified(k) == socket[k].token = socket[k].hash

onConnection(k) ==
  /\ socket[k].phase = "verifying"
  /\ \/ /\ Verified(k) /\ proc = "up"
        /\ register(k)
     \/ /\ ~(Verified(k) /\ proc = "up" /\ Linked(k))
        /\ socket' = [socket EXCEPT ![k] = Closed]
        /\ UNCHANGED registry
  /\ UNCHANGED <<proc, isOnline, token, frame,
                 offWrite, sweep, reconcile, calls>>

\* Every connected socket stays; only the next upgrade meets the new hash.
regenerateChargerToken ==
  /\ proc = "up"
  /\ token = 1
  /\ token' = 2
  /\ UNCHANGED <<proc, registry, socket, isOnline, frame,
                 offWrite, sweep, reconcile, calls>>

-----------------------------------------------------------------------------
(* onFrame: BootNotification and Heartbeat *)

\* A valid frame touches the registered connection, then its handler writes
\* isOnline and awaits.
onFrame(k, action) ==
  /\ Receiving(k) /\ Linked(k)
  /\ frame[k] = "none"
  /\ frame' = [frame EXCEPT ![k] = action]
  /\ UNCHANGED <<proc, registry, isOnline, token,
                 offWrite, sweep, reconcile, calls>>

ReceiveBootNotification(k) ==
  /\ socket[k].stage = "new"
  /\ onFrame(k, "boot")
  /\ socket' = [touchHeartbeat(socket) EXCEPT ![k].stage = "unanswered"]

ReceiveHeartbeat(k) ==
  /\ socket[k].stage = "booted"
  /\ onFrame(k, "beat")
  /\ socket' = touchHeartbeat(socket)

\* findByIdAndUpdate lands; the charger starts beating if the reply reaches it,
\* and otherwise gives up on this boot.
handleBootNotification(k) ==
  /\ frame[k] = "boot"
  /\ isOnline' = TRUE
  /\ socket' = [touchHeartbeat(socket) EXCEPT ![k].stage =
       IF socket[k].phase = "open" /\ Linked(k) THEN "booted" ELSE @]
  /\ frame' = [frame EXCEPT ![k] = "none"]
  /\ UNCHANGED <<proc, registry, token, offWrite, sweep,
                 reconcile, calls>>

handleHeartbeat_timestampOnly(k) ==
  /\ frame[k] = "beat"
  /\ frame' = [frame EXCEPT ![k] = "none"]
  /\ UNCHANGED <<proc, registry, socket, isOnline, token,
                 offWrite, sweep, reconcile, calls>>

handleHeartbeat(k) ==
  /\ frame[k] = "beat"
  /\ isOnline' = TRUE
  /\ frame' = [frame EXCEPT ![k] = "none"]
  /\ UNCHANGED <<proc, registry, socket, token, offWrite,
                 sweep, reconcile, calls>>

-----------------------------------------------------------------------------
(* Losing a connection *)

\* The network goes silent: the charger notices and will dial again, the
\* gateway hears nothing.
LinkDies(k) ==
  /\ Linked(k)
  /\ socket' = [socket EXCEPT ![k].peer = "lost"]
  /\ UNCHANGED <<proc, registry, isOnline, token, frame,
                 offWrite, sweep, reconcile, calls>>

\* Ninety seconds pass without a frame.  A charger that beats every thirty is
\* never that quiet on a live link.
Silence(k) ==
  /\ Receiving(k)
  /\ socket[k].heard
  /\ ~(Linked(k) /\ socket[k].stage = "booted")
  /\ socket' = [socket EXCEPT ![k].heard = FALSE]
  /\ UNCHANGED <<proc, registry, isOnline, token, frame,
                 offWrite, sweep, reconcile, calls>>

\* The close event: the socket is removed if it is the registered one, and
\* only then is the charger marked offline, with a write nobody awaits.
onClose(k) ==
  /\ Receiving(k)
  /\ socket[k].phase = "closing" \/ ~Linked(k)
  /\ socket' = [socket EXCEPT ![k] = Closed]
  /\ registry' = removed(k)
  /\ offWrite' = IF Holds(k) THEN offWrite \cup {k} ELSE offWrite
  /\ UNCHANGED <<proc, isOnline, token, frame, sweep,
                 reconcile, calls>>

offlineWriteLands(k) ==
  /\ k \in offWrite
  /\ offWrite' = offWrite \ {k}
  /\ isOnline' = FALSE
  /\ UNCHANGED <<proc, registry, socket, token, frame,
                 sweep, reconcile, calls>>

-----------------------------------------------------------------------------
(* sweepStaleConnections, under singleFlight *)

\* registry.all() is a snapshot.  This charger's turn comes after the awaits
\* spent on the chargers listed before it.
sweepStaleConnections ==
  /\ proc = "up"
  /\ sweep.pc = "idle"
  /\ registry # None
  /\ sweep' = [pc |-> "listed", target |-> registry]
  /\ UNCHANGED <<proc, registry, socket, isOnline, token,
                 frame, offWrite, reconcile, calls>>

sweepJudges ==
  /\ sweep.pc = "listed"
  /\ sweep' = IF socket[sweep.target].heard
              THEN [pc |-> "idle", target |-> None]
              ELSE [sweep EXCEPT !.pc = "offline"]
  /\ UNCHANGED <<proc, registry, socket, isOnline, token,
                 frame, offWrite, reconcile, calls>>

sweepMarksOffline ==
  /\ sweep.pc = "offline"
  /\ isOnline' = FALSE
  /\ sweep' = [sweep EXCEPT !.pc = "remove"]
  /\ UNCHANGED <<proc, registry, socket, token, frame,
                 offWrite, reconcile, calls>>

\* A faulty variant: the connection is terminated but stays in the registry.
sweepTerminates_keepsEntry ==
  /\ sweep.pc = "remove"
  /\ socket' = [socket EXCEPT ![sweep.target] = Closed]
  /\ sweep' = [pc |-> "idle", target |-> None]
  /\ UNCHANGED <<proc, registry, isOnline, token, frame, offWrite,
                 reconcile, calls>>

\* After the open sessions were failed and the dashboards told: remove, and
\* terminate the socket whatever was heard from it meanwhile.  Its close
\* event finds nothing left to remove.
sweepTerminates ==
  /\ sweep.pc = "remove"
  /\ LET k == sweep.target
     IN /\ registry' = removed(k)
        /\ socket' = [socket EXCEPT ![k] = Closed]
  /\ sweep' = [pc |-> "idle", target |-> None]
  /\ UNCHANGED <<proc, isOnline, token, frame, offWrite,
                 reconcile, calls>>

-----------------------------------------------------------------------------
(* reconcileOnlineStateAtBoot *)

reconcileFinds ==
  /\ reconcile = "find"
  /\ reconcile' = IF isOnline THEN "wipe" ELSE "done"
  /\ UNCHANGED <<proc, registry, socket, isOnline, token,
                 frame, offWrite, sweep, calls>>

\* updateMany matches every charger that is online by now, not the ones found.
reconcileWipes ==
  /\ reconcile = "wipe"
  /\ isOnline' = FALSE
  /\ reconcile' = "done"
  /\ UNCHANGED <<proc, registry, socket, token, frame,
                 offWrite, sweep, calls>>

-----------------------------------------------------------------------------
(* commands.ts *)

\* registry.get in startSession and stopSession.  A start checks the tariff and
\* the driver's arrears and writes its session, with an await at each, before it
\* sends; it may also be refused on the way and send nothing.
captureConnection(c) ==
  /\ registry # None
  /\ calls[c].state = "none"
  /\ calls' = [calls EXCEPT ![c] = [@ EXCEPT !.state = "captured", !.via = registry]]
  /\ UNCHANGED <<proc, registry, socket, isOnline, token,
                 frame, offWrite, sweep, reconcile>>

\* The command goes down the connection captured, whatever the registry holds by
\* now.  A frame for a socket that is no longer open, or written to a dead link,
\* is lost without an error.
sendCall(c) ==
  /\ calls[c].state = "captured"
  /\ calls' = [calls EXCEPT ![c] =
       [@ EXCEPT !.state = "pending",
                 !.via = IF socket[calls[c].via].phase = "open" THEN calls[c].via ELSE None]]
  /\ UNCHANGED <<proc, registry, socket, isOnline, token,
                 frame, offWrite, sweep, reconcile>>

\* SimulatedCharger.onCommand answers; how long the answer is under way, and
\* whether anybody still waits for it then, is open.
onCommand(c) ==
  /\ calls[c].state # "captured"
  /\ calls[c].via # None
  /\ Linked(calls[c].via)
  /\ calls' = [calls EXCEPT ![c] = [@ EXCEPT !.via = None, !.answer = calls[c].via]]
  /\ UNCHANGED <<proc, registry, socket, isOnline, token,
                 frame, offWrite, sweep, reconcile>>

\* An answer nobody waits for any more is logged and dropped.
Awaited_always(c) == TRUE
Awaited(c) == calls[c].state = "pending"

handleResponse(c) ==
  /\ calls[c].answer # None
  /\ Receiving(calls[c].answer)
  /\ calls' = [calls EXCEPT ![c] =
       [@ EXCEPT !.answer = None,
                 !.state = IF Awaited(c) THEN "answered" ELSE calls[c].state]]
  /\ socket' = touchHeartbeat(socket)
  /\ UNCHANGED <<proc, registry, isOnline, token, frame,
                 offWrite, sweep, reconcile>>

callTimesOut_registeredOnly(c) ==
  /\ calls[c].state = "pending"
  /\ calls[c].via = registry
  /\ calls' = [calls EXCEPT ![c] = [@ EXCEPT !.state = "rejected", !.via = None]]
  /\ UNCHANGED <<proc, registry, socket, isOnline, token, frame,
                 offWrite, sweep, reconcile>>

callTimesOut(c) ==
  /\ calls[c].state = "pending"
  /\ calls' = [calls EXCEPT ![c] = [@ EXCEPT !.state = "rejected", !.via = None]]
  /\ UNCHANGED <<proc, registry, socket, isOnline, token,
                 frame, offWrite, sweep, reconcile>>

cancelPending ==
  [c \in Calls |-> IF calls[c].state = "pending"
                   THEN [calls[c] EXCEPT !.state = "rejected", !.via = None]
                   ELSE calls[c]]

-----------------------------------------------------------------------------
(* The process *)

\* The registry is emptied before the close events arrive, so none of them
\* marks the charger offline: the mirror is left for the next start.
shutdownOcppGateway ==
  /\ proc = "up"
  /\ proc' = "stopping"
  /\ calls' = cancelPending
  /\ registry' = None
  /\ socket' = [k \in Sockets |->
       IF k = registry THEN [socket[k] EXCEPT !.phase = "closing"] ELSE socket[k]]
  /\ UNCHANGED <<isOnline, token, frame, offWrite, sweep, reconcile>>

-----------------------------------------------------------------------------
\* attachOcppGateway.  A process starts with nothing in memory, so a crash at
\* any point leads to an initial state: only the stored mirror survives it,
\* and says what the last process left there.
Init ==
  /\ proc = "up"
  /\ registry = None
  /\ socket = [k \in Sockets |-> Unused]
  /\ isOnline \in BOOLEAN
  /\ token = 1
  /\ frame = [k \in Sockets |-> "none"]
  /\ offWrite = {}
  /\ sweep = [pc |-> "idle", target |-> None]
  /\ reconcile = "find"
  /\ calls = [c \in Calls |-> NoCall]

\* Of each of these at most one disjunct is enabled at a time.
Upgrade(k) == findCharger(k) \/ onConnection(k)

Frames(k) ==
  \/ ReceiveBootNotification(k) \/ handleBootNotification(k)
  \/ ReceiveHeartbeat(k) \/ handleHeartbeat(k)

Sweeping == sweepStaleConnections \/ sweepJudges \/ sweepMarksOffline \/ sweepTerminates

Next ==
  \/ \E k \in Sockets : \/ connect(k) \/ Upgrade(k) \/ Frames(k)
                        \/ LinkDies(k) \/ Silence(k) \/ onClose(k)
                        \/ offlineWriteLands(k)
  \/ regenerateChargerToken
  \/ Sweeping
  \/ reconcileFinds \/ reconcileWipes
  \/ \E c \in Calls : captureConnection(c) \/ sendCall(c) \/ onCommand(c) \/ handleResponse(c) \/ callTimesOut(c)
  \/ shutdownOcppGateway

Spec == Init /\ [][Next]_vars

\* The event loop runs every timer, every answered query and every delivered
\* frame; a charger on a live link boots and beats; a dead link is silent in
\* the end; a socket the gateway closes reports it, for ws destroys one whose
\* peer leaves the close unanswered.  Nothing makes a link die, a command be
\* sent or a process stop.
Fairness ==
  /\ \A k \in Sockets :
       /\ WF_vars(Upgrade(k)) /\ WF_vars(Frames(k)) /\ WF_vars(Silence(k))
       /\ WF_vars(offlineWriteLands(k))
       /\ WF_vars(socket[k].phase = "closing" /\ onClose(k))
  /\ WF_vars(Sweeping)
  /\ WF_vars(reconcileFinds \/ reconcileWipes)
  /\ \A c \in Calls : WF_vars(callTimesOut(c))

FairSpec == Spec /\ Fairness

-----------------------------------------------------------------------------
TypeOK ==
  /\ proc \in {"up", "stopping"}
  /\ registry \in Sockets \cup {None}
  /\ socket \in [Sockets -> Socket]
  /\ isOnline \in BOOLEAN
  /\ token \in 1..2
  /\ frame \in [Sockets -> {"none", "boot", "beat"}]
  /\ offWrite \subseteq Sockets
  /\ sweep \in [pc : {"idle", "listed", "offline", "remove"}, target : Sockets \cup {None}]
  /\ reconcile \in {"find", "wipe", "done"}
  /\ calls \in [Calls -> [state  : {"none", "captured", "pending", "answered", "rejected"},
                          via    : Sockets \cup {None},
                          answer : Sockets \cup {None}]]

\* A socket the gateway holds open is the one the registry would send a
\* command down: neither the late close event of the socket it replaced
\* (gateway.ts:469) nor a sweep that judged an older one evicts it.
OpenIsRegistered ==
  \A k \in Sockets : socket[k].phase = "open" => registry = k

\* A charger that dialled in after its token was replaced is admitted only
\* with the new one (charger.service.ts: "keeps its current socket but cannot
\* reconnect").  A token replaced during the handshake is another matter: the
\* hash was read before, so the old token is still admitted.
RevokedTokenNotAdmitted ==
  \A k \in Sockets :
    Receiving(k) => ~socket[k].revoked

\* A command is settled once: the answer that comes after its timeout, or
\* after the shutdown rejected it, changes nothing (commands.ts:45).
SettledOnce ==
  [][\A c \in Calls :
       calls[c].state \in {"answered", "rejected"} => calls'[c].state = calls[c].state]_vars

\* No request handler waits for ever on a charger that never answers, even
\* if its socket was replaced or closed meanwhile, or before the command left.
CallsSettle ==
  \A c \in Calls : calls[c].state = "pending" ~> calls[c].state \in {"answered", "rejected"}

\* Whatever offline write was still on its way when a charger came back, the
\* mirror reads online in the end if the charger stays connected and beats.
Beating == \E k \in Sockets :
             registry = k /\ Linked(k) /\ socket[k].stage = "booted" /\ proc = "up"
MirrorHealsOnline == <>[]Beating => <>[]isOnline

\* A connection nothing is heard on leaves the registry, close event or not:
\* again and again the registry holds no dead link, so commands are not sent
\* down one for ever.
DeadLinksLeave == []<>(proc = "up" /\ registry # None => Linked(registry))
=============================================================================
