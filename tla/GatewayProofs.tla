---------------------------- MODULE GatewayProofs ----------------------------
(***************************************************************************)
(* Theorems about Gateway, for any number of sockets the charger opens and *)
(* any number of commands sent to it: types, the registry against the      *)
(* sockets that are open, tokens that were replaced, and commands that are *)
(* settled once.                                                           *)
(***************************************************************************)
EXTENDS Gateway, TLAPS

-----------------------------------------------------------------------------
(* Types *)

\* A sweep past its listing has a socket in hand.
TypeInv ==
  /\ TypeOK
  /\ sweep.pc # "idle" => sweep.target \in Sockets

LEMMA ConstantsTyped ==
  /\ None \notin Sockets
  /\ Unused \in Socket /\ Closed \in Socket
  /\ Unused.phase = "unused" /\ Closed.phase = "closed"
<1>1. None \notin Sockets
  BY MaxSocketAssumption DEF None, Sockets
<1>2. Unused \in Socket /\ Unused.phase = "unused"
  BY DEF Unused, Socket
<1>4. Closed \in Socket /\ Closed.phase = "closed"
  BY <1>2 DEF Closed, Socket
<1>. QED BY <1>1, <1>2, <1>4

\* The updates the handshake makes.
LEMMA SocketUpdates ==
  ASSUME NEW s \in Socket
  PROVE  /\ \A t \in 0..2, b \in BOOLEAN :
              [s EXCEPT !.phase = "offered", !.peer = "open", !.token = t, !.revoked = b] \in Socket
         /\ \A t \in 0..2 : [s EXCEPT !.phase = "verifying", !.hash = t] \in Socket
         /\ [s EXCEPT !.phase = "open", !.heard = TRUE, !.token = 0, !.hash = 0] \in Socket
         /\ [s EXCEPT !.phase = "closing"] \in Socket
<1>1. ASSUME NEW t \in 0..2, NEW b \in BOOLEAN
      PROVE  [s EXCEPT !.phase = "offered", !.peer = "open", !.token = t, !.revoked = b] \in Socket
  BY DEF Socket
<1>2. ASSUME NEW t \in 0..2 PROVE [s EXCEPT !.phase = "verifying", !.hash = t] \in Socket
  BY DEF Socket
<1>3. [s EXCEPT !.phase = "open", !.heard = TRUE, !.token = 0, !.hash = 0] \in Socket
  <2>1. ASSUME NEW t \in 0..2
        PROVE  [s EXCEPT !.phase = "open", !.heard = TRUE, !.token = t, !.hash = t] \in Socket
    BY DEF Socket
  <2>2. 0 \in 0..2
    OBVIOUS
  <2>. QED BY <2>1, <2>2
<1>4. [s EXCEPT !.phase = "closing"] \in Socket
  BY DEF Socket
<1>. QED BY <1>1, <1>2, <1>3, <1>4

LEMMA Touched ==
  ASSUME TypeInv
  PROVE  /\ touchHeartbeat(socket) \in [Sockets -> Socket]
         /\ \A k \in Sockets : LET new == touchHeartbeat(socket)[k] IN
              /\ new.phase = socket[k].phase /\ new.revoked = socket[k].revoked
              /\ new.token = socket[k].token /\ new.hash = socket[k].hash
<1>1. socket \in [Sockets -> Socket] /\ registry \in Sockets \cup {None}
  BY DEF TypeInv, TypeOK
<1>2. CASE registry = None
  BY <1>1, <1>2 DEF touchHeartbeat
<1>3. CASE registry \in Sockets
  <2>1. touchHeartbeat(socket) = [socket EXCEPT ![registry] = [socket[registry] EXCEPT !.heard = TRUE]]
    BY <1>3, ConstantsTyped DEF touchHeartbeat
  <2>2. LET new == [socket[registry] EXCEPT !.heard = TRUE] IN
          /\ new \in Socket
          /\ new.phase = socket[registry].phase /\ new.revoked = socket[registry].revoked
          /\ new.token = socket[registry].token /\ new.hash = socket[registry].hash
    BY <1>1, <1>3 DEF Socket
  <2>. QED BY <1>1, <1>3, <2>1, <2>2
<1>. QED BY <1>1, <1>2, <1>3

\* What one step does to one socket, as far as the handshake and the registry see.
LEMMA SocketsTyped ==
  ASSUME TypeInv, [Next]_vars
  PROVE  socket' \in [Sockets -> Socket]
<1>0. /\ socket \in [Sockets -> Socket] /\ registry \in Sockets \cup {None} /\ token \in 1..2
      /\ sweep.pc # "idle" => sweep.target \in Sockets
  BY DEF TypeInv, TypeOK
<1>1. ASSUME NEW k \in Sockets, connect(k) PROVE socket' \in [Sockets -> Socket]
  <2>1. PICK t \in 1..token :
          socket' = [socket EXCEPT ![k] = [@ EXCEPT !.phase = "offered", !.peer = "open",
                                                    !.token = t, !.revoked = t < token]]
    BY <1>1 DEF connect
  <2>2. t \in 0..2 /\ (t < token) \in BOOLEAN
    BY <1>0
  <2>. QED BY <1>0, <2>1, <2>2, SocketUpdates
<1>2. ASSUME NEW k \in Sockets, findCharger(k) PROVE socket' \in [Sockets -> Socket]
  <2>1. token \in 0..2
    BY <1>0
  <2>. QED BY <1>0, <1>2, <2>1, SocketUpdates DEF findCharger
<1>3. ASSUME NEW k \in Sockets, onConnection(k) PROVE socket' \in [Sockets -> Socket]
  <2>1. CASE register(k)
    BY <1>0, <2>1, SocketUpdates DEF register
  <2>2. CASE socket' = [socket EXCEPT ![k] = Closed]
    BY <1>0, <2>2, ConstantsTyped
  <2>. QED BY <1>3, <2>1, <2>2 DEF onConnection
<1>4. ASSUME NEW k \in Sockets, ReceiveBootNotification(k) PROVE socket' \in [Sockets -> Socket]
  <2>1. socket' = [touchHeartbeat(socket) EXCEPT ![k].stage = "unanswered"]
    BY <1>4 DEF ReceiveBootNotification
  <2>2. touchHeartbeat(socket)[k] \in Socket
    BY Touched
  <2>. QED BY <2>1, <2>2, Touched DEF Socket
<1>5. ASSUME NEW k \in Sockets, handleBootNotification(k) PROVE socket' \in [Sockets -> Socket]
  <2>1. socket' = [touchHeartbeat(socket) EXCEPT ![k].stage =
                     IF socket[k].phase = "open" /\ Linked(k) THEN "booted" ELSE @]
    BY <1>5 DEF handleBootNotification
  <2>2. touchHeartbeat(socket)[k] \in Socket
    BY Touched
  <2>. QED BY <2>1, <2>2, Touched DEF Socket
<1>6. ASSUME NEW k \in Sockets, LinkDies(k) \/ Silence(k) \/ onClose(k)
      PROVE socket' \in [Sockets -> Socket]
  <2>1. CASE LinkDies(k)
    BY <1>0, <2>1 DEF LinkDies, Socket
  <2>2. CASE Silence(k)
    BY <1>0, <2>2 DEF Silence, Socket
  <2>3. CASE onClose(k)
    BY <1>0, <2>3, ConstantsTyped DEF onClose
  <2>. QED BY <1>6, <2>1, <2>2, <2>3
<1>7. CASE sweepTerminates
  BY <1>0, <1>7, ConstantsTyped DEF sweepTerminates
<1>8. CASE shutdownOcppGateway
  BY <1>0, <1>8, SocketUpdates DEF shutdownOcppGateway
<1>9. CASE socket' = touchHeartbeat(socket) \/ UNCHANGED socket
  BY <1>0, <1>9, Touched
<1>. QED
  BY <1>1, <1>2, <1>3, <1>4, <1>5, <1>6, <1>7, <1>8, <1>9
     DEF Next, Upgrade, Frames, Sweeping, ReceiveHeartbeat, handleHeartbeat, offlineWriteLands,
         regenerateChargerToken, sweepStaleConnections, sweepJudges, sweepMarksOffline,
         reconcileFinds, reconcileWipes, captureConnection, sendCall, onCommand, handleResponse, callTimesOut, vars

LEMMA CallsTyped ==
  ASSUME TypeInv, [Next]_vars
  PROVE  calls' \in [Calls -> [state : {"none", "captured", "pending", "answered", "rejected"},
                               via : Sockets \cup {None}, answer : Sockets \cup {None}]]
<1>0. /\ calls \in [Calls -> [state : {"none", "captured", "pending", "answered", "rejected"},
                              via : Sockets \cup {None}, answer : Sockets \cup {None}]]
      /\ registry \in Sockets \cup {None}
  BY DEF TypeInv, TypeOK
<1>1. ASSUME NEW c \in Calls, captureConnection(c) \/ sendCall(c) \/ onCommand(c) \/ handleResponse(c) \/ callTimesOut(c)
      PROVE  calls' \in [Calls -> [state : {"none", "captured", "pending", "answered", "rejected"},
                                   via : Sockets \cup {None}, answer : Sockets \cup {None}]]
  <2>0. CASE captureConnection(c)
    BY <1>0, <2>0 DEF captureConnection
  <2>1. CASE sendCall(c)
    BY <1>0, <2>1 DEF sendCall
  <2>2. CASE onCommand(c)
    BY <1>0, <2>2 DEF onCommand
  <2>3. CASE handleResponse(c)
    BY <1>0, <2>3 DEF handleResponse
  <2>4. CASE callTimesOut(c)
    BY <1>0, <2>4 DEF callTimesOut
  <2>. QED BY <1>1, <2>0, <2>1, <2>2, <2>3, <2>4
<1>2. CASE shutdownOcppGateway
  BY <1>0, <1>2 DEF shutdownOcppGateway, cancelPending
<1>3. CASE UNCHANGED calls
  BY <1>0, <1>3
<1>. QED
  BY <1>1, <1>2, <1>3
     DEF Next, Upgrade, Frames, Sweeping, connect, findCharger, onConnection, onFrame,
         ReceiveBootNotification, ReceiveHeartbeat, handleBootNotification, handleHeartbeat,
         LinkDies, Silence, onClose, offlineWriteLands, regenerateChargerToken,
         sweepStaleConnections, sweepJudges, sweepMarksOffline, sweepTerminates,
         reconcileFinds, reconcileWipes, vars

\* Everything but the sockets and the calls.
LEMMA RestTyped ==
  ASSUME TypeInv, [Next]_vars
  PROVE  /\ proc' \in {"up", "stopping"} /\ registry' \in Sockets \cup {None}
         /\ isOnline' \in BOOLEAN /\ token' \in 1..2
         /\ frame' \in [Sockets -> {"none", "boot", "beat"}] /\ offWrite' \subseteq Sockets
         /\ sweep' \in [pc : {"idle", "listed", "offline", "remove"}, target : Sockets \cup {None}]
         /\ reconcile' \in {"find", "wipe", "done"}
         /\ sweep'.pc # "idle" => sweep'.target \in Sockets
<1>0. /\ proc \in {"up", "stopping"} /\ registry \in Sockets \cup {None}
      /\ isOnline \in BOOLEAN /\ token \in 1..2
      /\ frame \in [Sockets -> {"none", "boot", "beat"}] /\ offWrite \subseteq Sockets
      /\ sweep \in [pc : {"idle", "listed", "offline", "remove"}, target : Sockets \cup {None}]
      /\ reconcile \in {"find", "wipe", "done"}
      /\ sweep.pc # "idle" => sweep.target \in Sockets
  BY DEF TypeInv, TypeOK
<1>. DEFINE Goal == /\ proc' \in {"up", "stopping"} /\ registry' \in Sockets \cup {None}
                    /\ isOnline' \in BOOLEAN /\ token' \in 1..2
                    /\ frame' \in [Sockets -> {"none", "boot", "beat"}]
                    /\ offWrite' \subseteq Sockets
                    /\ sweep' \in [pc : {"idle", "listed", "offline", "remove"},
                                   target : Sockets \cup {None}]
                    /\ reconcile' \in {"find", "wipe", "done"}
                    /\ sweep'.pc # "idle" => sweep'.target \in Sockets
<1>1. ASSUME NEW k \in Sockets,
             connect(k) \/ findCharger(k) \/ onConnection(k) \/ LinkDies(k) \/ Silence(k)
      PROVE  Goal
  BY <1>0, <1>1 DEF connect, findCharger, onConnection, register, LinkDies, Silence
<1>2. ASSUME NEW k \in Sockets, Frames(k)
      PROVE  Goal
  BY <1>0, <1>2 DEF onFrame, ReceiveBootNotification, ReceiveHeartbeat, Frames,
     handleBootNotification, handleHeartbeat
<1>3. ASSUME NEW k \in Sockets, onClose(k) \/ offlineWriteLands(k)
      PROVE  Goal
  BY <1>0, <1>3 DEF onClose, removed, Holds, offlineWriteLands
<1>4. CASE Sweeping
  <2>1. CASE sweepStaleConnections
    BY <1>0, <2>1 DEF sweepStaleConnections
  <2>2. CASE sweepJudges
    BY <1>0, <2>2 DEF sweepJudges
  <2>3. CASE sweepMarksOffline
    BY <1>0, <2>3 DEF sweepMarksOffline
  <2>4. CASE sweepTerminates
    BY <1>0, <2>4 DEF sweepTerminates, removed, Holds
  <2>. QED BY <1>4, <2>1, <2>2, <2>3, <2>4 DEF Sweeping
<1>5. CASE regenerateChargerToken \/ reconcileFinds \/ reconcileWipes \/ shutdownOcppGateway
  <2>1. CASE regenerateChargerToken
    BY <1>0, <2>1 DEF regenerateChargerToken
  <2>2. CASE reconcileFinds \/ reconcileWipes
    BY <1>0, <2>2 DEF reconcileFinds, reconcileWipes
  <2>3. CASE shutdownOcppGateway
    BY <1>0, <2>3 DEF shutdownOcppGateway
  <2>. QED BY <1>5, <2>1, <2>2, <2>3
<1>6. ASSUME NEW c \in Calls, captureConnection(c) \/ sendCall(c) \/ onCommand(c) \/ handleResponse(c) \/ callTimesOut(c)
      PROVE  Goal
  BY <1>0, <1>6 DEF captureConnection, sendCall, onCommand, handleResponse, callTimesOut
<1>7. CASE UNCHANGED vars
  BY <1>0, <1>7 DEF vars
<1>. QED
  BY <1>1, <1>2, <1>3, <1>4, <1>5, <1>6, <1>7 DEF Next, Upgrade

LEMMA InitTyped == Init => TypeInv
BY ConstantsTyped DEF Init, TypeInv, TypeOK, NoCall, Sockets, None

LEMMA NextTyped == TypeInv /\ [Next]_vars => TypeInv'
BY SocketsTyped, CallsTyped, RestTyped DEF TypeInv, TypeOK

\* Every variable keeps its type: a sweep that has listed a connection has one in
\* hand when it judges and ends it (gateway.ts:313).
THEOREM TypeCorrect == Spec => []TypeOK
<1>1. TypeInv => TypeOK
  BY DEF TypeInv
<1>. QED
  BY <1>1, InitTyped, NextTyped, PTL DEF Spec

-----------------------------------------------------------------------------
(* The registry and the open sockets *)

\* The registry names exactly the socket the gateway holds open, if any.
OpenIffRegistered ==
  \A k \in Sockets : socket[k].phase = "open" <=> registry = k

\* A step that leaves phases and the registry alone.
LEMMA PhasesKept ==
  ASSUME OpenIffRegistered, UNCHANGED registry,
         \A k \in Sockets : socket'[k].phase = socket[k].phase
  PROVE  OpenIffRegistered'
BY DEF OpenIffRegistered

\* One socket, not open before, changes and is not open after.
LEMMA OthersKept ==
  ASSUME OpenIffRegistered, NEW k \in Sockets, socket[k].phase # "open",
         socket'[k].phase # "open", UNCHANGED registry,
         \A j \in Sockets \ {k} : socket'[j] = socket[j]
  PROVE  OpenIffRegistered'
BY DEF OpenIffRegistered

\* A socket is closed and leaves the registry if it was there.
LEMMA OneClosed ==
  ASSUME TypeInv, OpenIffRegistered, NEW k \in Sockets, registry' = removed(k),
         socket' = [socket EXCEPT ![k] = Closed]
  PROVE  OpenIffRegistered'
<1>1. /\ socket'[k].phase # "open"
      /\ \A j \in Sockets \ {k} : socket'[j] = socket[j]
  BY ConstantsTyped DEF TypeInv, TypeOK
<1>. QED
  BY <1>1, ConstantsTyped DEF OpenIffRegistered, removed, Holds

LEMMA RegistryStep ==
  ASSUME TypeInv, OpenIffRegistered, [Next]_vars
  PROVE  OpenIffRegistered'
<1>0. /\ socket \in [Sockets -> Socket] /\ registry \in Sockets \cup {None}
      /\ sweep.pc # "idle" => sweep.target \in Sockets
  BY DEF TypeInv, TypeOK
<1>1. ASSUME NEW k \in Sockets, connect(k) \/ findCharger(k)
      PROVE  OpenIffRegistered'
  BY <1>0, <1>1, OthersKept DEF connect, findCharger, Socket
<1>2. ASSUME NEW k \in Sockets, onConnection(k)
      PROVE  OpenIffRegistered'
  <2>1. CASE register(k)
    BY <1>0, <1>2, <2>1, ConstantsTyped DEF register, onConnection, OpenIffRegistered, Socket
  <2>2. CASE socket' = [socket EXCEPT ![k] = Closed] /\ UNCHANGED registry
    BY <1>0, <1>2, <2>2, OthersKept, ConstantsTyped DEF onConnection
  <2>. QED BY <1>2, <2>1, <2>2 DEF onConnection
<1>3. ASSUME NEW k \in Sockets, ReceiveBootNotification(k) \/ handleBootNotification(k)
      PROVE  OpenIffRegistered'
  <2>1. \A j \in Sockets : socket'[j].phase = touchHeartbeat(socket)[j].phase
    BY <1>3, Touched DEF ReceiveBootNotification, handleBootNotification, Socket
  <2>. QED
    BY <1>3, <2>1, PhasesKept, Touched DEF ReceiveBootNotification, handleBootNotification, onFrame
<1>4. ASSUME NEW k \in Sockets, LinkDies(k) \/ Silence(k)
      PROVE  OpenIffRegistered'
  BY <1>0, <1>4, PhasesKept DEF LinkDies, Silence, Socket
<1>5. ASSUME NEW k \in Sockets, onClose(k)
      PROVE  OpenIffRegistered'
  BY <1>5, OneClosed DEF onClose
<1>6. CASE sweepTerminates
  BY <1>0, <1>6, OneClosed DEF sweepTerminates
<1>7. CASE shutdownOcppGateway
  BY <1>0, <1>7, ConstantsTyped DEF shutdownOcppGateway, OpenIffRegistered, Socket
<1>8. ASSUME UNCHANGED registry, socket' = touchHeartbeat(socket) \/ UNCHANGED socket
      PROVE  OpenIffRegistered'
  BY <1>8, PhasesKept, Touched
<1>. QED
  BY <1>1, <1>2, <1>3, <1>4, <1>5, <1>6, <1>7, <1>8
     DEF Next, Upgrade, Frames, Sweeping, onFrame, ReceiveHeartbeat, handleHeartbeat,
         offlineWriteLands, regenerateChargerToken, sweepStaleConnections, sweepJudges,
         sweepMarksOffline, reconcileFinds, reconcileWipes, captureConnection, sendCall, onCommand,
         handleResponse, callTimesOut, vars

\* A socket the gateway holds open is the one the registry would send a command
\* down, and the registry never holds one that is closing or gone: no late close
\* event, sweep or shutdown leaves them apart (gateway.ts:469, registry.ts).
THEOREM RegistryAgrees == Spec => [](OpenIsRegistered /\ OpenIffRegistered)
<1>1. Init => TypeInv /\ OpenIffRegistered
  BY InitTyped, ConstantsTyped DEF Init, OpenIffRegistered
<1>2. TypeInv /\ OpenIffRegistered /\ [Next]_vars => TypeInv' /\ OpenIffRegistered'
  BY NextTyped, RegistryStep
<1>3. OpenIffRegistered => OpenIsRegistered
  BY DEF OpenIffRegistered, OpenIsRegistered
<1>. QED
  BY <1>1, <1>2, <1>3, PTL DEF Spec

-----------------------------------------------------------------------------
(* Replaced tokens *)

\* What a socket whose token was replaced before it dialled cannot do: present the
\* token in force, or match the hash read during its handshake.
TokenInv ==
  \A k \in Sockets : LET s == socket[k] IN s.revoked =>
    /\ s.phase = "offered" => s.token < token
    /\ s.phase = "verifying" => s.token < s.hash
    /\ ~ Receiving(k)

\* A socket that stays as the handshake sees it keeps its part.
LEMMA TokenKept ==
  ASSUME TypeInv, TokenInv, token' \in {token, 2}, NEW k \in Sockets,
         socket'[k].phase = socket[k].phase, socket'[k].revoked = socket[k].revoked,
         socket'[k].token = socket[k].token, socket'[k].hash = socket[k].hash
  PROVE  LET s == socket'[k] IN s.revoked =>
           /\ s.phase = "offered" => s.token < token'
           /\ s.phase = "verifying" => s.token < s.hash
           /\ s.phase \notin {"open", "closing"}
<1>1. /\ socket[k].token \in 0..2 /\ socket[k].hash \in 0..2 /\ token \in 1..2
  BY DEF TypeInv, TypeOK, Socket
<1>2. socket[k].revoked =>
        /\ socket[k].phase = "offered" => socket[k].token < token
        /\ socket[k].phase = "verifying" => socket[k].token < socket[k].hash
        /\ socket[k].phase \notin {"open", "closing"}
  BY DEF TokenInv, Receiving
<1>3. socket[k].token < token => socket[k].token < token'
  BY <1>1
<1>. QED
  BY <1>2, <1>3

LEMMA TokenStep ==
  ASSUME TypeInv, TokenInv, OpenIffRegistered, [Next]_vars
  PROVE  TokenInv'
<1>0. /\ socket \in [Sockets -> Socket] /\ registry \in Sockets \cup {None} /\ token \in 1..2
      /\ sweep.pc # "idle" => sweep.target \in Sockets
  BY DEF TypeInv, TypeOK
<1>. DEFINE Fine(s) == s.revoked => /\ s.phase = "offered" => s.token < token'
                                    /\ s.phase = "verifying" => s.token < s.hash
                                    /\ s.phase \notin {"open", "closing"}
            Same(j) == /\ socket'[j].phase = socket[j].phase
                       /\ socket'[j].revoked = socket[j].revoked
                       /\ socket'[j].token = socket[j].token
                       /\ socket'[j].hash = socket[j].hash
<1>a. SUFFICES \A k \in Sockets : Fine(socket'[k])
  BY DEF TokenInv, Receiving
<1>b. token' \in {token, 2}
  BY DEF Next, Upgrade, Frames, Sweeping, connect, findCharger, onConnection, onFrame,
     ReceiveBootNotification, ReceiveHeartbeat, handleBootNotification, handleHeartbeat,
     LinkDies, Silence, onClose, offlineWriteLands, regenerateChargerToken,
     sweepStaleConnections, sweepJudges, sweepMarksOffline, sweepTerminates,
     reconcileFinds, reconcileWipes, captureConnection, sendCall, onCommand, handleResponse, callTimesOut,
     shutdownOcppGateway, vars
<1>c. ASSUME NEW k \in Sockets, Same(k) PROVE Fine(socket'[k])
  BY <1>b, <1>c, TokenKept
<1>1. ASSUME NEW k \in Sockets, connect(k) PROVE \A j \in Sockets : Fine(socket'[j])
  <2>1. PICK t \in 1..token :
          socket' = [socket EXCEPT ![k] = [@ EXCEPT !.phase = "offered", !.peer = "open",
                                                    !.token = t, !.revoked = t < token]]
    BY <1>1 DEF connect
  <2>2. /\ socket'[k].phase = "offered" /\ socket'[k].token = t
        /\ socket'[k].revoked = (t < token) /\ token' = token
    BY <1>0, <1>1, <2>1 DEF Socket, connect
  <2>3. \A j \in Sockets \ {k} : Same(j)
    BY <1>0, <2>1
  <2>. QED BY <1>c, <2>2, <2>3
<1>2. ASSUME NEW k \in Sockets, findCharger(k) PROVE \A j \in Sockets : Fine(socket'[j])
  <2>1. /\ socket'[k].phase = "verifying" /\ socket'[k].token = socket[k].token
        /\ socket'[k].hash = token /\ socket'[k].revoked = socket[k].revoked
    BY <1>0, <1>2 DEF findCharger, Socket
  <2>2. Fine(socket'[k])
    BY <1>2, <2>1 DEF TokenInv, findCharger
  <2>3. \A j \in Sockets \ {k} : Same(j)
    BY <1>0, <1>2 DEF findCharger
  <2>. QED BY <1>c, <2>2, <2>3
<1>3. ASSUME NEW k \in Sockets, onConnection(k) PROVE \A j \in Sockets : Fine(socket'[j])
  <2>1. CASE register(k) /\ Verified(k)
    <3>1. ~ socket[k].revoked
      <4>1. socket[k].token = socket[k].hash /\ socket[k].token \in 0..2
        BY <1>0, <2>1 DEF Verified, Socket
      <4>. QED BY <1>3, <4>1 DEF TokenInv, onConnection
    <3>2. socket'[k].revoked = socket[k].revoked
      BY <1>0, <2>1 DEF register, Socket
    <3>3. \A j \in Sockets \ {k} :
            \/ Same(j)
            \/ socket[j].phase = "open" /\ socket'[j].revoked = socket[j].revoked
      BY <1>0, <2>1 DEF register, Socket
    <3>. QED BY <1>c, <3>1, <3>2, <3>3 DEF TokenInv, Receiving
  <2>2. CASE socket' = [socket EXCEPT ![k] = Closed]
    BY <1>0, <1>c, <2>2, ConstantsTyped
  <2>. QED BY <1>3, <2>1, <2>2 DEF onConnection
<1>4. ASSUME NEW k \in Sockets, ReceiveBootNotification(k) \/ handleBootNotification(k)
      PROVE \A j \in Sockets : Fine(socket'[j])
  <2>1. \A j \in Sockets :
          LET new == touchHeartbeat(socket)[j] IN
          /\ socket'[j].phase = new.phase /\ socket'[j].revoked = new.revoked
          /\ socket'[j].token = new.token /\ socket'[j].hash = new.hash
    BY <1>4, Touched DEF ReceiveBootNotification, handleBootNotification, Socket
  <2>. QED BY <1>c, <2>1, Touched
<1>5. ASSUME NEW k \in Sockets, LinkDies(k) \/ Silence(k)
      PROVE \A j \in Sockets : Fine(socket'[j])
  <2>1. \A j \in Sockets : Same(j)
    BY <1>0, <1>5 DEF LinkDies, Silence, Socket
  <2>. QED BY <1>c, <2>1
<1>6. ASSUME NEW k \in Sockets, socket' = [socket EXCEPT ![k] = Closed]
      PROVE \A j \in Sockets : Fine(socket'[j])
  BY <1>0, <1>c, <1>6, ConstantsTyped
<1>7. CASE shutdownOcppGateway
  <2>1. \A j \in Sockets :
          Same(j) \/ (j = registry /\ socket'[j].revoked = socket[j].revoked)
    BY <1>0, <1>7 DEF shutdownOcppGateway, Socket
  <2>2. \A j \in Sockets : j = registry => ~ socket[j].revoked
    BY DEF OpenIffRegistered, TokenInv, Receiving
  <2>. QED BY <1>c, <2>1, <2>2
<1>8. ASSUME socket' = touchHeartbeat(socket) \/ UNCHANGED socket
      PROVE \A j \in Sockets : Fine(socket'[j])
  BY <1>c, <1>8, Touched
<1>. QED
  BY <1>0, <1>1, <1>2, <1>3, <1>4, <1>5, <1>6, <1>7, <1>8
     DEF Next, Upgrade, Frames, Sweeping, onFrame, ReceiveHeartbeat, handleHeartbeat, onClose,
         offlineWriteLands, regenerateChargerToken, sweepStaleConnections, sweepJudges,
         sweepMarksOffline, sweepTerminates, reconcileFinds, reconcileWipes, captureConnection, sendCall, onCommand,
         handleResponse, callTimesOut, vars

\* A charger that dials in after its token was replaced is not admitted with the old
\* one: the hash its handshake reads is already the new one (gateway.ts:141-150).  A
\* token replaced during the handshake, after that read, is outside the statement and
\* is admitted.
THEOREM RevokedRefused == Spec => []RevokedTokenNotAdmitted
<1>. DEFINE Inv == TypeInv /\ OpenIffRegistered /\ TokenInv
<1>1. Init => Inv
  <2>. SUFFICES ASSUME Init PROVE Inv
    OBVIOUS
  <2>1. \A k \in Sockets : socket[k] = Unused
    BY DEF Init
  <2>2. Unused.revoked = FALSE
    BY DEF Unused
  <2>. QED BY <2>1, <2>2, InitTyped, ConstantsTyped DEF Init, OpenIffRegistered, TokenInv
<1>2. Inv /\ [Next]_vars => Inv'
  BY NextTyped, RegistryStep, TokenStep
<1>3. Inv => RevokedTokenNotAdmitted
  BY DEF TokenInv, RevokedTokenNotAdmitted
<1>. QED
  BY <1>1, <1>2, <1>3, PTL DEF Spec

-----------------------------------------------------------------------------
(* Commands *)

LEMMA SettledStays ==
  ASSUME TypeInv, [Next]_vars, NEW c \in Calls, calls[c].state \in {"answered", "rejected"}
  PROVE  calls'[c].state = calls[c].state
<1>0. calls \in [Calls -> [state : {"none", "captured", "pending", "answered", "rejected"},
                          via : Sockets \cup {None}, answer : Sockets \cup {None}]]
  BY DEF TypeInv, TypeOK
<1>1. ASSUME NEW d \in Calls, captureConnection(d) \/ sendCall(d) \/ callTimesOut(d)
      PROVE  calls'[c].state = calls[c].state
  BY <1>0, <1>1 DEF captureConnection, sendCall, callTimesOut
<1>2. ASSUME NEW d \in Calls, onCommand(d)
      PROVE  calls'[c].state = calls[c].state
  BY <1>0, <1>2 DEF onCommand
<1>3. ASSUME NEW d \in Calls, handleResponse(d)
      PROVE  calls'[c].state = calls[c].state
  BY <1>0, <1>3 DEF handleResponse, Awaited
<1>4. CASE shutdownOcppGateway
  BY <1>0, <1>4 DEF shutdownOcppGateway, cancelPending
<1>5. CASE UNCHANGED calls
  BY <1>5
<1>. QED
  BY <1>1, <1>2, <1>3, <1>4, <1>5
     DEF Next, Upgrade, Frames, Sweeping, connect, findCharger, onConnection, onFrame,
         ReceiveBootNotification, ReceiveHeartbeat, handleBootNotification, handleHeartbeat,
         LinkDies, Silence, onClose, offlineWriteLands, regenerateChargerToken,
         sweepStaleConnections, sweepJudges, sweepMarksOffline, sweepTerminates,
         reconcileFinds, reconcileWipes, vars

\* A command is settled once: a late answer, a timer that fires after it, and the
\* shutdown leave what its handler was told (commands.ts:45).
THEOREM CallsSettledOnce == Spec => SettledOnce
<1>1. TypeInv /\ [Next]_vars =>
        \A c \in Calls :
          calls[c].state \in {"answered", "rejected"} => calls'[c].state = calls[c].state
  BY SettledStays
<1>. QED
  BY <1>1, InitTyped, NextTyped, PTL DEF Spec, SettledOnce
=============================================================================
