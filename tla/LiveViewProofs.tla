--------------------------- MODULE LiveViewProofs ----------------------------
(***************************************************************************)
(* Theorems about LiveView, for any number of changes, pages opened,       *)
(* connections lost, logins and failed requests: an event runs one         *)
(* listener, loads never go back, and a page at rest shows the stored      *)
(* session but for what it lost in one of three windows.                   *)
(***************************************************************************)
EXTENDS LiveView, TLAPS

-----------------------------------------------------------------------------
(* Types *)

TypeInv == TypeOK /\ {opens, drops, logins, failures} \subseteq Nat

LEMMA Constants ==
  /\ MaxWrites \in Nat /\ MaxOpens \in Nat /\ MaxDrops \in Nat
  /\ "none" \notin Pages
  /\ Origin \in Copy /\ Unread \notin Copy
  /\ Origin.status = 0 /\ Origin.energy = 0
BY LiveViewAssumption DEF Origin, Copy, Unread, Counter

\* What a page loses are copies, in the three windows.
LEMMA MissedTyped ==
  ASSUME missed \subseteq Missed,
         \/ missed' \subseteq missed
         \/ \E copies \in SUBSET Copy, count \in Nat : Lost(copies, count)
         \/ view.data \in Copy /\ \E copy \in Copy : Handled(copy)
  PROVE  missed' \subseteq Missed
<1>1. \A w \in {"connect", "load", "order"}, c \in Copy : [window |-> w, copy |-> c] \in Missed
  BY DEF Missed
<1>2. ASSUME NEW copies \in SUBSET Copy, NEW count \in Nat, Lost(copies, count)
      PROVE  missed' \subseteq Missed
  <2>1. missed' \subseteq missed \cup {[window |-> "connect", copy |-> c] : c \in copies}
    BY <1>2 DEF Lost
  <2>. QED BY <1>1, <2>1
<1>3. ASSUME view.data \in Copy, NEW copy \in Copy, Handled(copy) PROVE missed' \subseteq Missed
  <2>1. missed' \subseteq missed \cup {[window |-> "load", copy |-> copy],
                                       [window |-> "order", copy |-> view.data]}
    BY <1>3 DEF Handled
  <2>2. [window |-> "load", copy |-> copy] \in Missed /\ [window |-> "order", copy |-> view.data] \in Missed
    BY <1>1, <1>3
  <2>. QED BY <2>1, <2>2
<1>. QED BY <1>2, <1>3

LEMMA IssuedTyped ==
  ASSUME NEW n \in Nat, latest \in Nat, requests \subseteq [ticket : Nat, read : Copy \cup {Unread}],
         missed \subseteq Missed, Issued(n)
  PROVE  /\ latest' \in Nat /\ requests' \subseteq [ticket : Nat, read : Copy \cup {Unread}]
         /\ missed' \subseteq Missed
BY DEF Issued

LEMMA ViewTyped ==
  ASSUME view \in {Loading, Failed} \cup {Ok(copy) : copy \in Copy}
  PROVE  /\ view.data \in Copy
         /\ Shown => view = Ok(view.data)
BY Constants DEF Loading, Failed, Ok, Shown

LEMMA RowSteps ==
  ASSUME TypeInv, ChangeStatus \/ StoreReading
  PROVE  TypeInv' /\ NoOlder(row', row)
<1>0. row \in Copy /\ outbox \subseteq Frame /\ MaxWrites \in Nat
  BY Constants DEF TypeInv, TypeOK
<1>1. CASE ChangeStatus
  <2>1. /\ row' \in Copy /\ row'.status = row.status + 1 /\ row'.energy = row.energy
    BY <1>0, <1>1 DEF ChangeStatus, Copy, Counter
  <2>2. PICK e \in Counter : outbox' = outbox \cup
          {[kind |-> "status", copy |-> [status |-> row'.status, energy |-> e]]}
    BY <1>1 DEF ChangeStatus
  <2>3. [kind |-> "status", copy |-> [status |-> row'.status, energy |-> e]] \in Frame
    BY <2>1 DEF Frame, Copy
  <2>4. outbox' \subseteq Frame
    BY <1>0, <2>2, <2>3
  <2>5. UNCHANGED <<socket, query, bounds, mounted>>
    BY <1>1 DEF ChangeStatus
  <2>. QED
    BY <1>0, <2>1, <2>4, <2>5 DEF TypeInv, TypeOK, NoOlder, socket, query, bounds, mounted, Copy, Counter
<1>2. CASE StoreReading
  <2>1. /\ row' \in Copy /\ row'.status = row.status /\ row'.energy = row.energy + 1
    BY <1>0, <1>2 DEF StoreReading, Copy, Counter
  <2>2. [kind |-> "meter", copy |-> [status |-> 0, energy |-> row'.energy]] \in Frame
    BY <1>0, <2>1 DEF Frame, Copy, Counter
  <2>3. outbox' \subseteq Frame
    BY <1>0, <1>2, <2>2 DEF StoreReading
  <2>4. UNCHANGED <<socket, query, bounds, mounted>>
    BY <1>2 DEF StoreReading
  <2>. QED
    BY <1>0, <2>1, <2>3, <2>4 DEF TypeInv, TypeOK, NoOlder, socket, query, bounds, mounted, Copy, Counter
<1>. QED BY <1>1, <1>2

LEMMA LinkSteps ==
  ASSUME TypeInv, Login \/ Join \/ Drop \/ (\E event \in outbox : publish(event))
  PROVE  TypeInv'
<1>1. CASE Login
  BY <1>1, Constants DEF Login, TypeInv, TypeOK, server, query, mounted
<1>2. CASE Join
  <2>1. [kind |-> "connect", copy |-> Origin] \in Frame
    BY Constants DEF Frame
  <2>2. channel' \in Seq(Frame)
    BY <1>2, <2>1 DEF Join
  <2>. QED BY <1>2, <2>2 DEF Join, TypeInv, TypeOK, server, query, bounds, mounted
<1>3. CASE Drop
  <2>1. channel' \in Seq(Frame)
    BY <1>3 DEF Drop
  <2>2. missed' \subseteq Missed
    <3>. DEFINE copies ==
           {channel[i].copy : i \in {j \in DOMAIN channel : channel[j].kind # "connect"}}
    <3>1. \A i \in DOMAIN channel : channel[i] \in Frame
      BY DEF TypeInv, TypeOK
    <3>2. copies \in SUBSET Copy
      BY <3>1 DEF Frame
    <3>3. Lost(copies, connects + 1) /\ connects + 1 \in Nat /\ missed \subseteq Missed
      BY <1>3 DEF Drop, TypeInv, TypeOK
    <3>. HIDE DEF copies
    <3>. QED BY <3>2, <3>3, MissedTyped
  <2>. QED BY <1>3, <2>1, <2>2 DEF Drop, TypeInv, TypeOK, server, mounted
<1>4. ASSUME NEW event \in outbox, publish(event) PROVE TypeInv'
  <2>1. event \in Frame /\ channel \in Seq(Frame)
    BY DEF TypeInv, TypeOK
  <2>2. channel' \in Seq(Frame)
    <3>1. CASE link = "joined"
      BY <1>4, <2>1, <3>1 DEF publish
    <3>2. CASE link # "joined"
      BY <1>4, <2>1, <3>2 DEF publish
    <3>. QED BY <3>1, <3>2
  <2>3. missed' \subseteq Missed
    <3>1. missed \subseteq Missed /\ connects + 1 \in Nat /\ {event.copy} \in SUBSET Copy
      BY <2>1 DEF TypeInv, TypeOK, Frame
    <3>2. missed' = missed \/ Lost({event.copy}, connects + 1)
      BY <1>4 DEF publish
    <3>. QED BY <3>1, <3>2, MissedTyped
  <2>. QED BY <1>4, <2>2, <2>3 DEF publish, TypeInv, TypeOK, bounds, mounted
<1>. QED BY <1>1, <1>2, <1>3, <1>4

LEMMA RequestSteps ==
  ASSUME TypeInv, NEW r \in requests, ServerReads(r) \/ Answered(r) \/ RequestFails(r)
  PROVE  TypeInv'
<1>0. r \in [ticket : Nat, read : Copy \cup {Unread}] /\ row \in Copy
  BY DEF TypeInv, TypeOK
<1>1. CASE ServerReads(r)
  BY <1>0, <1>1 DEF ServerReads, TypeInv, TypeOK, server, socket, bounds, mounted
<1>2. CASE Answered(r)
  <2>1. r.read \in Copy
    BY <1>0, <1>2 DEF Answered, TypeInv, TypeOK
  <2>2. view' \in {Loading, Failed} \cup {Ok(copy) : copy \in Copy} /\ loaded' \in Copy
    BY <1>2, <2>1 DEF Answered, TypeInv, TypeOK
  <2>. QED BY <1>2, <2>2 DEF Answered, TypeInv, TypeOK, server, socket, bounds, mounted
<1>3. CASE RequestFails(r)
  BY <1>3 DEF RequestFails, TypeInv, TypeOK, server, socket, bounds, mounted
<1>. QED BY <1>1, <1>2, <1>3

LEMMA DeliverStep ==
  ASSUME TypeInv, Deliver
  PROVE  TypeInv'
<1>. DEFINE frame == Head(channel)
<1>1. /\ frame \in Frame /\ frame.copy \in Copy /\ channel' \in Seq(Frame)
      /\ missed \subseteq Missed /\ connects \in Nat /\ view.data \in Copy
      /\ latest \in Nat /\ requests \subseteq [ticket : Nat, read : Copy \cup {Unread}]
      /\ view \in {Loading, Failed} \cup {Ok(copy) : copy \in Copy} /\ loaded \in Copy
  <2>1. channel \in Seq(Frame) /\ channel # <<>>
    BY DEF Deliver, TypeInv, TypeOK
  <2>2. frame \in Frame /\ Tail(channel) \in Seq(Frame)
    BY <2>1
  <2>3. frame.copy \in Copy
    BY <2>2 DEF Frame
  <2>. QED BY <2>2, <2>3, ViewTyped DEF Deliver, TypeInv, TypeOK
<1>2. CASE frame.kind = "connect"
  <2>1. OnConnect
    BY <1>2 DEF Deliver
  <2>. QED BY <1>1, <2>1 DEF Deliver, OnConnect, TypeInv, TypeOK, server, query, bounds, mounted
<1>3. CASE frame.kind # "connect"
  <2>1. OnEvent(frame)
    BY <1>3 DEF Deliver
  <2>. HIDE DEF frame
  <2>2. /\ latest' \in Nat /\ requests' \subseteq [ticket : Nat, read : Copy \cup {Unread}]
        /\ view' \in {Loading, Failed} \cup {Ok(copy) : copy \in Copy} /\ loaded' \in Copy
        /\ missed' \subseteq Missed
    <3>1. CASE listeners = 0
      <4>1. /\ Lost({frame.copy}, connects) /\ {frame.copy} \in SUBSET Copy
            /\ UNCHANGED <<view, latest, requests, loaded>>
        BY <1>1, <2>1, <3>1 DEF OnEvent
      <4>2. missed' \subseteq Missed
        BY <1>1, <4>1, MissedTyped
      <4>. QED BY <1>1, <4>1, <4>2
    <3>2. CASE listeners # 0 /\ frame.kind = "status"
      <4>1. OnStatus(frame.copy)
        BY <2>1, <3>2 DEF OnEvent
      <4>2. missed' \subseteq Missed
        BY <1>1, <4>1, MissedTyped DEF OnStatus
      <4>. QED BY <1>1, <4>1, <4>2 DEF OnStatus
    <3>3. CASE listeners # 0 /\ frame.kind # "status"
      <4>0. OnMeter(frame.copy)
        BY <2>1, <3>3 DEF OnEvent
      <4>1. CASE Shown /\ page = "session"
        BY <1>1, <4>0, <4>1, IssuedTyped DEF OnMeter
      <4>2. CASE ~(Shown /\ page = "session")
        <5>1. missed' \subseteq Missed
          BY <1>1, <4>0, <4>2, MissedTyped DEF OnMeter
        <5>2. view' \in {Loading, Failed} \cup {Ok(copy) : copy \in Copy}
          <6>1. CASE ~Shown
            BY <1>1, <4>0, <4>2, <6>1 DEF OnMeter
          <6>2. CASE Shown
            <7>1. view' = Ok([view.data EXCEPT !.energy = frame.copy.energy])
              BY <1>1, <4>0, <4>2, <6>2, ViewTyped DEF OnMeter, Ok
            <7>2. [view.data EXCEPT !.energy = frame.copy.energy] \in Copy
              BY <1>1 DEF Copy
            <7>. QED BY <7>1, <7>2
          <6>. QED BY <6>1, <6>2
        <5>. QED BY <1>1, <4>0, <4>2, <5>1, <5>2 DEF OnMeter
      <4>. QED BY <4>1, <4>2
    <3>. QED BY <3>1, <3>2, <3>3
  <2>. QED BY <1>1, <2>1, <2>2
           DEF Deliver, OnEvent, TypeInv, TypeOK, server, bounds, mounted
<1>. QED BY <1>2, <1>3

LEMMA PageSteps ==
  ASSUME TypeInv, attached => listeners >= 1, Commit \/ Close \/ Logout \/ (\E p \in Pages : Open(p))
  PROVE  TypeInv'
<1>0. /\ latest \in Nat /\ connects \in Nat /\ listeners \in Nat
      /\ requests \subseteq [ticket : Nat, read : Copy \cup {Unread}]
      /\ Origin \in Copy /\ missed \subseteq Missed
  BY Constants DEF TypeInv, TypeOK
<1>1. Resyncs(connects) \in Nat /\ Attached(listeners) \in Nat
  BY <1>0 DEF Resyncs, Attached
<1>2. CASE Commit
  <2>1. /\ latest' \in Nat /\ requests' \subseteq [ticket : Nat, read : Copy \cup {Unread}]
        /\ missed' \subseteq Missed
    <3>1. CASE page # "none"
      BY <1>0, <1>1, <1>2, <3>1, IssuedTyped DEF Commit
    <3>2. CASE page = "none"
      BY <1>0, <1>2, <3>2 DEF Commit
    <3>. QED BY <3>1, <3>2
  <2>2. listeners' \in Nat /\ attached' \in BOOLEAN
    BY <1>0, <1>1, <1>2 DEF Commit, TypeInv, TypeOK
  <2>. QED BY <1>2, <2>1, <2>2 DEF Commit, TypeInv, TypeOK, server, bounds
<1>3. CASE Close
  <2>1. listeners' \in Nat
    BY <1>0, <1>3 DEF Close, CleanedUp
  <2>. QED BY <1>0, <1>3, <2>1 DEF Close, Closed, TypeInv, TypeOK, server, socket, bounds
<1>4. CASE Logout
  <2>1. channel' \in Seq(Frame)
    BY <1>4 DEF Logout
  <2>2. view' \in {Loading, Failed} \cup {Ok(copy) : copy \in Copy}
    BY <1>4 DEF Logout, Closed
  <2>3. loaded' \in Copy /\ missed' = {} /\ attached' = FALSE
    BY <1>0, <1>4 DEF Logout, Closed
  <2>4. /\ requests' = {} /\ latest' = 0 /\ page' = "none" /\ listeners' = 0
        /\ link' = "none" /\ published' = FALSE /\ uncommitted' = FALSE
        /\ UNCHANGED <<server, connects, bounds>>
    BY <1>4 DEF Logout, Closed
  <2>. QED BY <2>1, <2>2, <2>3, <2>4 DEF TypeInv, TypeOK, server, bounds
<1>5. ASSUME NEW p \in Pages, Open(p) PROVE TypeInv'
  <2>1. latest' \in Nat /\ requests' \subseteq [ticket : Nat, read : Copy \cup {Unread}]
    BY <1>0, <1>1, <1>5 DEF Open
  <2>2. listeners' \in Nat /\ opens' \in Nat /\ attached' \in BOOLEAN
    BY <1>0, <1>1, <1>5 DEF Open, TypeInv, TypeOK
  <2>. QED BY <1>0, <1>5, <2>1, <2>2 DEF Open, TypeInv, TypeOK, server, socket
<1>. QED BY <1>2, <1>3, <1>4, <1>5

\* The socket carries the listener of the page whose effect put it there, and no other.
ListenerInv ==
  /\ listeners = IF attached THEN 1 ELSE 0
  /\ page = "none" => ~attached

LEMMA ListenerStep ==
  ASSUME TypeInv, ListenerInv, [Next]_vars
  PROVE  ListenerInv'
<1>1. CASE \/ UNCHANGED vars \/ ChangeStatus \/ StoreReading \/ Login \/ Join \/ Drop \/ Deliver
           \/ \E event \in outbox : publish(event)
           \/ \E r \in requests : ServerReads(r) \/ Answered(r) \/ RequestFails(r)
  <2>1. UNCHANGED <<listeners, attached, page>>
    BY <1>1 DEF vars, mounted, ChangeStatus, StoreReading, Login, Join, Drop, Deliver, publish,
               ServerReads, Answered, RequestFails
  <2>. QED BY <2>1 DEF ListenerInv
<1>2. CASE Commit
  BY <1>2 DEF Commit, Attached, ListenerInv
<1>3. CASE Close
  BY <1>3 DEF Close, Closed, CleanedUp, ListenerInv
<1>4. CASE Logout
  BY <1>4 DEF Logout, Closed, ListenerInv
<1>5. ASSUME NEW p \in Pages, Open(p) PROVE ListenerInv'
  <2>1. listeners = 0 /\ page' # "none"
    BY <1>5, Constants DEF Open, ListenerInv
  <2>. QED BY <1>5, <2>1 DEF Open, Attached, ListenerInv, TypeInv, TypeOK
<1>. QED BY <1>1, <1>2, <1>3, <1>4, <1>5 DEF Next

LEMMA TypedAndAttached == Spec => [](TypeInv /\ ListenerInv)
<1>1. Init => TypeInv /\ ListenerInv
  <2>. SUFFICES ASSUME Init PROVE TypeInv /\ ListenerInv
    OBVIOUS
  <2>1. channel \in Seq(Frame)
    BY DEF Init
  <2>2. view \in {Loading, Failed} \cup {Ok(copy) : copy \in Copy}
    BY DEF Init
  <2>3. /\ row = Origin /\ outbox = {} /\ link = "none" /\ published = FALSE
        /\ connects = 0 /\ uncommitted = FALSE /\ listeners = 0
        /\ page = "none" /\ latest = 0 /\ requests = {}
        /\ opens = 0 /\ drops = 0 /\ logins = 0 /\ failures = 0
        /\ loaded = Origin /\ missed = {} /\ attached = FALSE
    BY DEF Init
  <2>4. {opens, drops, logins, failures} \subseteq Nat
    BY <2>3
  <2>5. /\ row \in Copy /\ loaded \in Copy
        /\ connects \in Nat /\ listeners \in Nat /\ latest \in Nat
    BY <2>3, Constants
  <2>6. TypeInv
    BY <2>1, <2>2, <2>3, <2>4, <2>5 DEF TypeInv, TypeOK
  <2>. QED BY <2>3, <2>6 DEF ListenerInv
<1>2. TypeInv /\ ListenerInv /\ [Next]_vars => TypeInv'
  <2>. SUFFICES ASSUME TypeInv, ListenerInv, [Next]_vars PROVE TypeInv'
    OBVIOUS
  <2>0. attached => listeners >= 1
    BY DEF ListenerInv
  <2>1. CASE UNCHANGED vars
    BY <2>1 DEF vars, server, socket, query, bounds, mounted, TypeInv, TypeOK
  <2>2. CASE Next
    BY <2>0, <2>2, RowSteps, LinkSteps, RequestSteps, DeliverStep, PageSteps DEF Next
  <2>. QED BY <2>1, <2>2
<1>3. TypeInv /\ ListenerInv /\ [Next]_vars => ListenerInv'
  BY ListenerStep
<1>. QED BY <1>1, <1>2, <1>3, PTL DEF Spec

LEMMA Typed == Spec => []TypeInv
BY TypedAndAttached, PTL

\* Every variable keeps its type, over any number of changes, pages, losses and logins: the
\* copies the browser holds and the frames under way are copies a row can be.
THEOREM TypeCorrect == Spec => []TypeOK
<1>1. TypeInv => TypeOK BY DEF TypeInv
<1>. QED BY <1>1, Typed, PTL

-----------------------------------------------------------------------------
(* What the proofs of the properties rest on *)

\* The requests of a page have distinct tickets; what was read is no newer than the row, and
\* what the newest request read is no older than what is shown.
LoadInv ==
  /\ \A r \in requests : r.ticket <= latest
  /\ \A r, s \in requests : r.ticket = s.ticket => r = s
  /\ \A r \in requests : r.read # Unread => NoOlder(row, r.read)
  /\ \A r \in requests : r.read # Unread /\ r.ticket = latest => NoOlder(r.read, loaded)
  /\ NoOlder(row, loaded)
  /\ page = "none" => requests = {} /\ loaded = Origin

\* Nothing pushed is ahead of the row.
PushInv ==
  /\ \A e \in outbox : e.kind # "connect" /\ NoOlder(row, e.copy)
  /\ \A i \in DOMAIN channel : NoOlder(row, channel[i].copy)

ConnectAhead == channel # <<>> /\ channel[1].kind = "connect"

\* A connection begins with its `connect`, and once that has been worked off the page listens.
LinkInv ==
  /\ link # "joined" => channel = <<>>
  /\ \A i \in DOMAIN channel : i # 1 => channel[i].kind # "connect"
  /\ link = "joined" /\ ~ConnectAhead => published
  /\ page # "none" => link # "none"
  /\ published /\ ~uncommitted /\ page # "none" => attached

\* An event that brings the newest value of a field; a meter reading says nothing of the status.
Carries(event, f) ==
  /\ event.kind # "connect" /\ event.copy[f] = row[f]
  /\ event.kind = "status" \/ f = "energy"

\* Where the newest value of a field is: lost in a window, in an event not emitted yet, on its
\* way, to be fetched after the connection that is being made, to be read, read, shown, or behind
\* a load that failed.
Carried(f) ==
  \/ \E m \in missed : m.copy[f] = row[f]
  \/ \E event \in outbox : Carries(event, f)
  \/ \E i \in DOMAIN channel : Carries(channel[i], f)
  \/ (link # "joined" \/ ConnectAhead) /\ connects >= 1
  \/ uncommitted /\ connects >= 2
  \/ Fetching
  \/ \E r \in requests : r.ticket = latest /\ r.read # Unread /\ r.read[f] = row[f]
  \/ ~Awaiting /\ (Shown => view.data[f] = row[f])

CarriedInv == page # "none" => \A f \in Fields : Carried(f)

-----------------------------------------------------------------------------
(* Loads *)

LEMMA NoOlderOrder ==
  ASSUME NEW a \in Copy, NEW b \in Copy, NEW c \in Copy
  PROVE  /\ NoOlder(a, a) /\ NoOlder(a, Origin)
         /\ NoOlder(a, b) /\ NoOlder(b, c) => NoOlder(a, c)
BY Constants DEF NoOlder, Copy, Counter, Origin

LEMMA RequestTyped ==
  ASSUME TypeInv, NEW r \in requests
  PROVE  r.ticket \in Nat /\ (r.read = Unread \/ r.read \in Copy)
BY DEF TypeInv, TypeOK

\* The row only grows; a step that leaves the requests and what is loaded keeps LoadInv.
LEMMA LoadIdle ==
  ASSUME TypeInv, TypeInv', LoadInv, NoOlder(row', row),
         UNCHANGED <<requests, latest, loaded, page>>
  PROVE  LoadInv'
<1>1. row \in Copy /\ row' \in Copy /\ loaded \in Copy
  BY DEF TypeInv, TypeOK
<1>2. NoOlder(row', loaded')
  BY <1>1, NoOlderOrder DEF LoadInv
<1>3. ASSUME NEW r \in requests, r.read # Unread PROVE NoOlder(row', r.read)
  BY <1>1, <1>3, RequestTyped, NoOlderOrder DEF LoadInv
<1>. QED BY <1>2, <1>3 DEF LoadInv

LEMMA LoadIssued ==
  ASSUME TypeInv, LoadInv, NEW n \in Nat, Issued(n), page # "none",
         UNCHANGED <<row, loaded, page>>
  PROVE  LoadInv'
<1>0. latest \in Nat /\ latest' = latest + n
  BY DEF TypeInv, TypeOK, Issued
<1>1. ASSUME NEW r \in requests'
      PROVE  \/ r \in requests /\ r.ticket \in Nat /\ r.ticket <= latest
             \/ r.read = Unread /\ r.ticket \in Nat /\ latest < r.ticket /\ r.ticket <= latest'
                /\ r = [ticket |-> r.ticket, read |-> Unread]
  BY <1>0, RequestTyped DEF Issued, LoadInv
<1>2. \A r \in requests' : r.ticket <= latest'
  BY <1>0, <1>1
<1>3. \A r, s \in requests' : r.ticket = s.ticket => r = s
  BY <1>0, <1>1 DEF LoadInv
<1>4. \A r \in requests' : r.read # Unread => r \in requests
  BY <1>1
<1>5. \A r \in requests' : r.read # Unread /\ r.ticket = latest' => r \in requests /\ r.ticket = latest
  BY <1>0, <1>1
<1>. QED BY <1>2, <1>3, <1>4, <1>5 DEF LoadInv

LEMMA LoadRequests ==
  ASSUME TypeInv, LoadInv, NEW r \in requests, ServerReads(r) \/ Answered(r) \/ RequestFails(r)
  PROVE  LoadInv' /\ NoOlder(loaded', loaded)
<1>0. row \in Copy /\ loaded \in Copy /\ (r.read = Unread \/ r.read \in Copy) /\ r.ticket \in Nat
  BY RequestTyped DEF TypeInv, TypeOK
<1>1. CASE ServerReads(r)
  <2>. DEFINE answer == [r EXCEPT !.read = row]
  <2>1. answer.ticket = r.ticket /\ answer.read = row
    BY DEF TypeInv, TypeOK
  <2>2. /\ requests' = (requests \ {r}) \cup {answer}
        /\ UNCHANGED <<row, latest, loaded, page>>
    BY <1>1 DEF ServerReads, server, mounted
  <2>. HIDE DEF answer
  <2>3. NoOlder(row, row) /\ NoOlder(row, loaded)
    BY <1>0, NoOlderOrder DEF LoadInv
  <2>. QED BY <1>0, <2>1, <2>2, <2>3, NoOlderOrder DEF LoadInv
<1>2. CASE Answered(r)
  <2>1. /\ requests' = requests \ {r} /\ UNCHANGED <<row, latest, page>>
        /\ r.read # Unread /\ page # "none"
    BY <1>2 DEF Answered, server, mounted, LoadInv
  <2>2. CASE r.ticket = latest
    <3>1. loaded' = r.read
      BY <1>2, <2>2 DEF Answered, MayWrite
    <3>2. NoOlder(row, r.read) /\ NoOlder(r.read, loaded)
      BY <2>1, <2>2 DEF LoadInv
    <3>3. \A s \in requests' : s.ticket # latest
      BY <2>1, <2>2 DEF LoadInv
    <3>. QED BY <2>1, <3>1, <3>2, <3>3 DEF LoadInv
  <2>3. CASE r.ticket # latest
    <3>1. loaded' = loaded
      BY <1>2, <2>3 DEF Answered, MayWrite
    <3>. QED BY <1>0, <2>1, <3>1, NoOlderOrder DEF LoadInv
  <2>. QED BY <2>2, <2>3
<1>3. CASE RequestFails(r)
  <2>1. requests' = requests \ {r} /\ UNCHANGED <<row, latest, loaded, page>>
    BY <1>3 DEF RequestFails, server, mounted
  <2>. QED BY <1>0, <2>1, NoOlderOrder DEF LoadInv
<1>. QED BY <1>1, <1>2, <1>3

\* A frame delivered either leaves the loads alone or makes the session page start one.
LEMMA DeliverLoads ==
  ASSUME TypeInv, Deliver
  PROVE  /\ UNCHANGED <<row, loaded, page, opens>>
         /\ UNCHANGED <<requests, latest>> \/ (Issued(1) /\ page # "none")
<1>. DEFINE frame == Head(channel)
<1>1. UNCHANGED <<row, page, opens>>
  BY DEF Deliver, server, bounds, mounted
<1>2. CASE frame.kind = "connect"
  <2>1. OnConnect
    BY <1>2 DEF Deliver
  <2>. QED BY <1>1, <2>1 DEF OnConnect, query
<1>3. CASE frame.kind # "connect"
  <2>1. OnEvent(frame)
    BY <1>3 DEF Deliver
  <2>. HIDE DEF frame
  <2>2. CASE listeners = 0
    BY <1>1, <2>1, <2>2 DEF OnEvent, query
  <2>3. CASE listeners # 0 /\ frame.kind = "status"
    BY <1>1, <2>1, <2>3 DEF OnEvent, OnStatus
  <2>4. CASE listeners # 0 /\ frame.kind # "status"
    BY <1>1, <2>1, <2>4, Constants DEF OnEvent, OnMeter, query
  <2>. QED BY <2>2, <2>3, <2>4
<1>. QED BY <1>2, <1>3

LEMMA LoadStep ==
  ASSUME TypeInv, TypeInv', LoadInv, [Next]_vars
  PROVE  LoadInv' /\ (opens' = opens /\ page' = page => NoOlder(loaded', loaded))
<1>0. /\ row \in Copy /\ row' \in Copy /\ loaded \in Copy /\ loaded' \in Copy
      /\ latest \in Nat /\ connects \in Nat
  BY DEF TypeInv, TypeOK
<1>1. NoOlder(row, row) /\ NoOlder(loaded, loaded) /\ NoOlder(row', Origin)
  BY <1>0, NoOlderOrder
<1>2. CASE UNCHANGED vars
  BY <1>1, <1>2, LoadIdle DEF vars, server, query, mounted
<1>3. CASE ChangeStatus \/ StoreReading
  <2>1. UNCHANGED <<requests, latest, loaded, page>>
    BY <1>3 DEF ChangeStatus, StoreReading, query, mounted
  <2>. QED BY <1>1, <1>3, <2>1, RowSteps, LoadIdle
<1>4. CASE Login \/ Join \/ Drop \/ \E event \in outbox : publish(event)
  <2>1. UNCHANGED <<row, requests, latest, loaded, page>>
    BY <1>4 DEF Login, Join, Drop, publish, query, server, mounted
  <2>. QED BY <1>1, <2>1, LoadIdle
<1>5. CASE \E r \in requests : ServerReads(r) \/ Answered(r) \/ RequestFails(r)
  BY <1>5, LoadRequests
<1>6. CASE Deliver
  BY <1>1, <1>6, DeliverLoads, LoadIdle, LoadIssued
<1>7. CASE Commit
  <2>1. UNCHANGED <<row, loaded, page>>
    BY <1>7 DEF Commit, server
  <2>2. CASE page # "none"
    <3>1. Resyncs(connects) \in Nat /\ Issued(Resyncs(connects))
      BY <1>7, <2>2 DEF Commit, Resyncs
    <3>. QED BY <1>1, <2>1, <2>2, <3>1, LoadIssued
  <2>3. CASE page = "none"
    BY <1>1, <1>7, <2>1, <2>3, LoadIdle DEF Commit
  <2>. QED BY <2>2, <2>3
<1>8. CASE Close \/ Logout
  <2>1. requests' = {} /\ loaded' = Origin /\ page' = "none" /\ row' = row
    BY <1>8 DEF Close, Logout, Closed, server
  <2>2. page = "none" => loaded' = loaded
    BY <2>1 DEF LoadInv
  <2>. QED BY <1>1, <2>1, <2>2 DEF LoadInv
<1>9. ASSUME NEW p \in Pages, Open(p)
      PROVE  LoadInv' /\ (opens' = opens /\ page' = page => NoOlder(loaded', loaded))
  <2>1. /\ requests' = {[ticket |-> t, read |-> Unread] : t \in 1 .. latest'}
        /\ loaded' = Origin /\ page' = p /\ row' = row /\ opens' = opens + 1
        /\ opens \in Nat /\ p # "none" /\ latest' \in Nat
    BY <1>9, Constants DEF Open, server, TypeInv, TypeOK
  <2>. QED BY <1>1, <2>1 DEF LoadInv
<1>. QED BY <1>2, <1>3, <1>4, <1>5, <1>6, <1>7, <1>8, <1>9 DEF Next

LEMMA LoadInvariant == Spec => []LoadInv
<1>1. Init => LoadInv
  <2>. SUFFICES ASSUME Init PROVE LoadInv
    OBVIOUS
  <2>1. requests = {} /\ row = Origin /\ loaded = Origin
    BY DEF Init
  <2>. QED BY <2>1, Constants, NoOlderOrder DEF LoadInv
<1>2. TypeInv /\ TypeInv' /\ LoadInv /\ [Next]_vars => LoadInv'
  BY LoadStep
<1>. QED BY <1>1, <1>2, Typed, PTL DEF Spec

\* What the loads of one page read only moves forward (useAsyncData.ts:40-43), for any number of
\* loads answered in any order, some of them failing.
THEOREM LoadsMoveForward == Spec => LoadsNeverGoBack
<1>1. TypeInv /\ TypeInv' /\ LoadInv /\ [Next]_vars
        => [opens' = opens /\ page' = page => NoOlder(loaded', loaded)]_vars
  BY LoadStep
<1>. QED BY <1>1, Typed, LoadInvariant, PTL DEF Spec, LoadsNeverGoBack

-----------------------------------------------------------------------------
(* The connection and the listener *)

LEMMA ChannelSteps ==
  ASSUME NEW q \in Seq(Frame), NEW e \in Frame
  PROVE  /\ DOMAIN Append(q, e) = 1 .. Len(q) + 1
         /\ \A i \in DOMAIN q : Append(q, e)[i] = q[i]
         /\ Append(q, e)[Len(q) + 1] = e
         /\ q # <<>> => /\ Len(q) >= 1 /\ 1 \in DOMAIN q /\ Head(q) = q[1]
                        /\ DOMAIN Tail(q) = 1 .. Len(q) - 1
                        /\ \A i \in DOMAIN Tail(q) : i + 1 \in DOMAIN q /\ Tail(q)[i] = q[i + 1]
OBVIOUS

LEMMA LinkStep ==
  ASSUME TypeInv, TypeInv', PushInv, LinkInv, [Next]_vars
  PROVE  LinkInv'
<1>0. channel \in Seq(Frame) /\ DOMAIN channel = 1 .. Len(channel)
  BY DEF TypeInv, TypeOK
<1>1. CASE \/ UNCHANGED vars \/ ChangeStatus \/ StoreReading
           \/ \E r \in requests : ServerReads(r) \/ Answered(r) \/ RequestFails(r)
  <2>1. UNCHANGED <<link, channel, published, uncommitted, page, attached>>
    BY <1>1 DEF vars, socket, mounted, ChangeStatus, StoreReading, ServerReads, Answered, RequestFails
  <2>. QED BY <2>1 DEF LinkInv, ConnectAhead
<1>2. ASSUME NEW event \in outbox, publish(event) PROVE LinkInv'
  <2>1. UNCHANGED <<link, published, uncommitted, page, attached>>
    BY <1>2 DEF publish, mounted
  <2>2. event \in Frame /\ event.kind # "connect"
    BY DEF TypeInv, TypeOK, PushInv
  <2>3. CASE link = "joined"
    <3>1. channel' = Append(channel, event)
      BY <1>2, <2>3 DEF publish
    <3>2. /\ \A i \in DOMAIN channel' :
               \/ i \in DOMAIN channel /\ channel'[i] = channel[i]
               \/ i = Len(channel) + 1 /\ channel'[i] = event
          /\ ConnectAhead' <=> ConnectAhead
      <4>1. /\ DOMAIN channel' = 1 .. Len(channel) + 1 /\ Len(channel) \in Nat
            /\ \A i \in DOMAIN channel : channel'[i] = channel[i]
            /\ channel'[Len(channel) + 1] = event
        BY <1>0, <2>2, <3>1, ChannelSteps
      <4>2. \A i \in DOMAIN channel' : i \in DOMAIN channel \/ i = Len(channel) + 1
        BY <1>0, <4>1
      <4>3. channel' # <<>>
        BY <1>0, <2>2, <3>1
      <4>4. CASE channel = <<>>
        <5>1. channel'[1] = event
          BY <4>1, <4>4
        <5>. QED BY <2>2, <4>1, <4>2, <4>4, <5>1 DEF ConnectAhead
      <4>5. CASE channel # <<>>
        <5>1. 1 \in DOMAIN channel
          BY <1>0, <4>5
        <5>2. channel'[1] = channel[1]
          BY <4>1, <5>1
        <5>3. ConnectAhead' <=> ConnectAhead
          BY <4>3, <4>5, <5>2 DEF ConnectAhead
        <5>4. \A i \in DOMAIN channel : channel'[i] = channel[i]
          BY <4>1
        <5>. QED BY <4>1, <4>2, <5>3, <5>4
      <4>. QED BY <4>4, <4>5
    <3>. QED BY <2>1, <2>2, <2>3, <3>2 DEF LinkInv
  <2>4. CASE link # "joined"
    BY <1>2, <2>1, <2>4 DEF publish, LinkInv, ConnectAhead
  <2>. QED BY <2>3, <2>4
<1>3. CASE Login \/ Join \/ Drop
  <2>1. UNCHANGED <<published, uncommitted, page, attached>>
    BY <1>3 DEF Login, Join, Drop, mounted
  <2>2. CASE Login
    BY <2>1, <2>2 DEF Login, LinkInv, ConnectAhead
  <2>3. CASE Join
    BY <2>1, <2>3 DEF Join, LinkInv, ConnectAhead
  <2>4. CASE Drop
    BY <2>1, <2>4 DEF Drop, LinkInv, ConnectAhead
  <2>. QED BY <1>3, <2>2, <2>3, <2>4
<1>4. CASE Deliver
  <2>1. /\ channel # <<>> /\ channel' = Tail(channel)
        /\ UNCHANGED <<link, attached, page>>
    BY <1>4 DEF Deliver, mounted
  <2>2. /\ Head(channel) = channel[1]
        /\ \A i \in DOMAIN channel' : channel'[i].kind # "connect"
        /\ link = "joined" /\ ~ConnectAhead'
    <3>1. /\ Head(channel) = channel[1]
          /\ \A i \in DOMAIN channel' : i \in 1 .. Len(channel) - 1 /\ channel'[i] = channel[i + 1]
      BY <1>0, <2>1, ChannelSteps
    <3>2. \A i \in DOMAIN channel' : i + 1 \in DOMAIN channel /\ i + 1 # 1
      BY <1>0, <3>1
    <3>3. \A i \in DOMAIN channel' : channel'[i].kind # "connect"
      BY <3>1, <3>2 DEF LinkInv
    <3>4. channel' # <<>> => 1 \in DOMAIN channel'
      BY DEF TypeInv, TypeOK
    <3>. QED BY <2>1, <3>1, <3>3, <3>4 DEF LinkInv, ConnectAhead
  <2>3. CASE Head(channel).kind = "connect"
    BY <1>4, <2>1, <2>2, <2>3 DEF Deliver, OnConnect, LinkInv
  <2>4. CASE Head(channel).kind # "connect"
    <3>1. ~ConnectAhead
      BY <2>2, <2>4 DEF ConnectAhead
    <3>2. UNCHANGED <<published, uncommitted>>
      BY <1>4, <2>4 DEF Deliver, OnEvent
    <3>. QED BY <2>1, <2>2, <3>1, <3>2 DEF LinkInv
  <2>. QED BY <2>3, <2>4
<1>5. CASE Commit
  <2>1. UNCHANGED <<link, channel, published, page>>
    BY <1>5 DEF Commit
  <2>2. page # "none" => attached'
    BY <1>5 DEF Commit
  <2>. QED BY <2>1, <2>2 DEF LinkInv, ConnectAhead
<1>6. CASE Close
  BY <1>6 DEF Close, Closed, socket, LinkInv, ConnectAhead
<1>7. CASE Logout
  BY <1>7 DEF Logout, Closed, LinkInv, ConnectAhead
<1>8. ASSUME NEW p \in Pages, Open(p) PROVE LinkInv'
  <2>1. attached' = published
    BY <1>8 DEF Open
  <2>2. page' # "none" /\ link # "none" /\ UNCHANGED <<link, channel, published, uncommitted>>
    BY <1>8, Constants DEF Open, socket
  <2>. QED BY <2>1, <2>2 DEF LinkInv, ConnectAhead
<1>. QED BY <1>1, <1>2, <1>3, <1>4, <1>5, <1>6, <1>7, <1>8 DEF Next

-----------------------------------------------------------------------------
(* What is pushed *)

LEMMA PushStep ==
  ASSUME TypeInv, TypeInv', LoadInv, PushInv, LinkInv, [Next]_vars
  PROVE  PushInv'
<1>0. /\ row \in Copy /\ row' \in Copy
      /\ outbox \subseteq Frame /\ \A e \in outbox : e \in Frame /\ e.copy \in Copy
      /\ channel \in Seq(Frame) /\ DOMAIN channel = 1 .. Len(channel)
      /\ \A i \in DOMAIN channel : channel[i] \in Frame /\ channel[i].copy \in Copy
  <2>1. \A e \in Frame : e.copy \in Copy
    BY DEF Frame
  <2>2. /\ row \in Copy /\ row' \in Copy
        /\ outbox \subseteq Frame /\ channel \in Seq(Frame)
    BY DEF TypeInv, TypeOK
  <2>. QED BY <2>1, <2>2
<1>1. NoOlder(row, row) /\ NoOlder(row, Origin) /\ NoOlder(row', Origin)
  BY <1>0, NoOlderOrder
<1>2. CASE ChangeStatus \/ StoreReading
  <2>1. NoOlder(row', row) /\ UNCHANGED channel
    BY <1>2, RowSteps DEF ChangeStatus, StoreReading, socket
  <2>2. \A i \in DOMAIN channel' : NoOlder(row', channel'[i].copy)
    BY <1>0, <2>1, NoOlderOrder DEF PushInv
  <2>3. \A e \in outbox : e.kind # "connect" /\ NoOlder(row', e.copy)
    BY <1>0, <2>1, NoOlderOrder DEF PushInv
  <2>4. \A e \in outbox' : e \in outbox \/ (e.kind # "connect" /\ NoOlder(row', e.copy))
    <3>1. CASE ChangeStatus
      <4>1. PICK n \in Counter :
                /\ n = row.energy \/ n + 1 = row.energy
                /\ outbox' = outbox \cup
                     {[kind |-> "status", copy |-> [status |-> row'.status, energy |-> n]]}
        BY <3>1 DEF ChangeStatus
      <4>2. row'.energy >= n /\ row'.status >= row'.status
        BY <1>0, <2>1, <4>1 DEF NoOlder, Copy, Counter
      <4>. QED BY <4>1, <4>2 DEF NoOlder
    <3>2. CASE StoreReading
      <4>1. row'.energy >= row'.energy /\ row'.status >= 0
        BY <1>0, <2>1 DEF NoOlder, Copy, Counter
      <4>. QED BY <3>2, <4>1 DEF StoreReading, NoOlder
    <3>. QED BY <1>2, <3>1, <3>2
  <2>. QED BY <2>2, <2>3, <2>4 DEF PushInv
<1>3. ASSUME NEW event \in outbox, publish(event) PROVE PushInv'
  <2>1. UNCHANGED row /\ outbox' \subseteq outbox
    BY <1>3 DEF publish
  <2>2. \A i \in DOMAIN channel' : NoOlder(row, channel'[i].copy)
    <3>1. CASE link = "joined"
      <4>1. channel' = Append(channel, event) /\ event \in Frame
        BY <1>0, <1>3, <3>1 DEF publish
      <4>2. \A i \in DOMAIN channel' : \/ i \in DOMAIN channel /\ channel'[i] = channel[i]
                                      \/ channel'[i] = event
        BY <1>0, <4>1, ChannelSteps
      <4>. QED BY <4>2 DEF PushInv
    <3>2. CASE link # "joined"
      BY <1>3, <3>2 DEF publish, PushInv
    <3>. QED BY <3>1, <3>2
  <2>. QED BY <2>1, <2>2 DEF PushInv
<1>4. CASE Login \/ Commit \/ UNCHANGED vars
  BY <1>4 DEF Login, Commit, server, socket, vars, PushInv
<1>5. CASE Join
  BY <1>1, <1>5 DEF Join, server, PushInv
<1>6. CASE Drop
  BY <1>6 DEF Drop, server, PushInv
<1>7. CASE Deliver
  <2>1. /\ channel # <<>> /\ channel' = Tail(channel) /\ UNCHANGED <<row, outbox>>
    BY <1>7 DEF Deliver, server
  <2>2. /\ Head(channel) = channel[1] /\ 1 \in DOMAIN channel
        /\ \A i \in DOMAIN channel' : i + 1 \in DOMAIN channel /\ channel'[i] = channel[i + 1]
    BY <1>0, <2>1, ChannelSteps
  <2>. QED BY <2>1, <2>2 DEF PushInv
<1>8. ASSUME NEW r \in requests, ServerReads(r) \/ Answered(r) \/ RequestFails(r) PROVE PushInv'
  <2>1. UNCHANGED <<row, outbox, channel>>
    BY <1>8 DEF ServerReads, Answered, RequestFails, server, socket
  <2>. QED BY <2>1 DEF PushInv
<1>9. CASE Close \/ Logout \/ \E p \in Pages : Open(p)
  <2>1. UNCHANGED <<row, outbox>>
    BY <1>9 DEF Close, Logout, Closed, Open, server
  <2>2. UNCHANGED channel \/ channel' = <<>>
    BY <1>9 DEF Close, Logout, Open, socket
  <2>. QED BY <1>1, <2>1, <2>2 DEF PushInv
<1>. QED BY <1>2, <1>3, <1>4, <1>5, <1>6, <1>7, <1>8, <1>9 DEF Next

-----------------------------------------------------------------------------
(* Nothing is missed *)

\* A copy that no listener sees is made good by a load to be read, or by the refetch of the next
\* connect, or is written down as missed.
LEMMA LostMeans ==
  ASSUME NEW copies, NEW count \in Nat, Lost(copies, count), page # "none"
  PROVE  /\ missed \subseteq missed'
         /\ \/ Fetching \/ count >= 2
            \/ \A c \in copies : \E m \in missed' : m.copy = c
<1>1. missed \subseteq missed'
  BY DEF Lost
<1>2. CASE ~Fetching /\ count < 2
  <2>1. ASSUME NEW c \in copies PROVE \E m \in missed' : m.copy = c
    <3>1. [window |-> "connect", copy |-> c] \in missed'
      BY <1>2 DEF Lost
    <3>. QED BY <3>1
  <2>. QED BY <1>1, <2>1
<1>. QED BY <1>1, <1>2

\* What a listener's copy leaves behind: an answer under way that lacks the copy, or a newer
\* value it put away, are written down.
LEMMA HandledMeans ==
  ASSUME NEW copy, Handled(copy)
  PROVE  /\ missed \subseteq missed'
         /\ Outdates(copy) => \E m \in missed' : m.copy = copy
         /\ Shown /\ ~Awaiting /\ ~NoOlder(view'.data, view.data)
              => \E m \in missed' : m.copy = view.data
<1>1. missed \subseteq missed'
  BY DEF Handled
<1>2. ASSUME Outdates(copy) PROVE \E m \in missed' : m.copy = copy
  <2>1. [window |-> "load", copy |-> copy] \in missed'
    BY <1>2 DEF Handled
  <2>. QED BY <2>1
<1>3. ASSUME Shown, ~Awaiting, ~NoOlder(view'.data, view.data)
      PROVE  \E m \in missed' : m.copy = view.data
  <2>1. [window |-> "order", copy |-> view.data] \in missed'
    BY <1>3 DEF Handled
  <2>. QED BY <2>1
<1>. QED BY <1>1, <1>2, <1>3

LEMMA CarriedWrites ==
  ASSUME TypeInv, ChangeStatus \/ StoreReading, NEW f \in Fields, Carried(f)
  PROVE  Carried(f)'
<1>0. row \in Copy /\ row' \in Copy
  BY RowSteps DEF TypeInv, TypeOK
<1>1. /\ UNCHANGED <<channel, link, connects, uncommitted, requests, latest, view, missed>>
      /\ outbox \subseteq outbox'
  BY DEF ChangeStatus, StoreReading, socket, query
<1>2. CASE row'[f] = row[f]
  BY <1>1, <1>2 DEF Carried, Carries, ConnectAhead, Fetching, Awaiting, Shown
<1>3. CASE row'[f] # row[f]
  <2>1. CASE ChangeStatus
    <3>1. PICK n \in Counter : outbox' = outbox \cup
            {[kind |-> "status", copy |-> [status |-> row'.status, energy |-> n]]}
      BY <2>1 DEF ChangeStatus
    <3>2. f = "status"
      BY <1>0, <1>3, <2>1 DEF ChangeStatus, Fields, Copy
    <3>. DEFINE e == [kind |-> "status", copy |-> [status |-> row'.status, energy |-> n]]
    <3>3. e \in outbox' /\ e.kind = "status" /\ e.copy[f] = row'[f]
      BY <3>1, <3>2
    <3>. HIDE DEF e
    <3>. QED BY <3>3 DEF Carried, Carries
  <2>2. CASE StoreReading
    <3>1. f = "energy"
      BY <1>0, <1>3, <2>2 DEF StoreReading, Fields, Copy
    <3>. DEFINE e == [kind |-> "meter", copy |-> [status |-> 0, energy |-> row'.energy]]
    <3>2. e \in outbox' /\ e.kind = "meter" /\ e.copy[f] = row'[f]
      BY <2>2, <3>1 DEF StoreReading
    <3>. HIDE DEF e
    <3>. QED BY <3>1, <3>2 DEF Carried, Carries
  <2>. QED BY <2>1, <2>2
<1>. QED BY <1>2, <1>3

LEMMA CarriedPublish ==
  ASSUME TypeInv, PushInv, NEW event \in outbox, publish(event), page # "none",
         NEW f \in Fields, Carried(f)
  PROVE  Carried(f)'
<1>0. event \in Frame /\ event.kind # "connect" /\ connects \in Nat
      /\ channel \in Seq(Frame) /\ DOMAIN channel = 1 .. Len(channel) /\ Len(channel) \in Nat
  BY DEF TypeInv, TypeOK, PushInv
<1>1. /\ UNCHANGED <<row, link, connects, uncommitted, requests, latest, view>>
      /\ outbox' = outbox \ {event}
  BY DEF publish
<1>2. CASE link = "joined"
  <2>1. channel' = Append(channel, event) /\ UNCHANGED missed
    BY <1>2 DEF publish
  <2>2. /\ DOMAIN channel' = 1 .. Len(channel) + 1
        /\ \A i \in DOMAIN channel : i \in DOMAIN channel' /\ channel'[i] = channel[i]
        /\ channel'[Len(channel) + 1] = event /\ Len(channel) + 1 \in DOMAIN channel'
    BY <1>0, <2>1, ChannelSteps
  <2>3. ConnectAhead => ConnectAhead'
    <3>1. ConnectAhead => 1 \in DOMAIN channel /\ channel' # <<>>
      BY <1>0, <2>1 DEF ConnectAhead
    <3>. QED BY <2>2, <3>1 DEF ConnectAhead
  <2>. QED BY <1>1, <1>2, <2>1, <2>2, <2>3
           DEF Carried, Carries, Fetching, Awaiting, Shown
<1>3. CASE link # "joined"
  <2>1. UNCHANGED channel /\ Lost({event.copy}, connects + 1) /\ connects + 1 \in Nat
    BY <1>0, <1>3 DEF publish
  <2>2. /\ missed \subseteq missed'
        /\ Fetching \/ connects + 1 >= 2 \/ \E m \in missed' : m.copy = event.copy
    BY <2>1, LostMeans
  <2>3. CASE connects >= 1
    BY <1>1, <1>3, <2>3 DEF Carried
  <2>4. CASE Fetching
    BY <1>1, <2>4 DEF Carried, Fetching
  <2>5. CASE \E m \in missed' : m.copy = event.copy
    BY <1>1, <2>1, <2>2, <2>5 DEF Carried, Carries, ConnectAhead, Fetching, Awaiting, Shown
  <2>. QED BY <1>0, <2>2, <2>3, <2>4, <2>5
<1>. QED BY <1>2, <1>3

LEMMA CarriedLink ==
  ASSUME TypeInv, LinkInv, Join \/ Drop, page # "none", NEW f \in Fields, Carried(f)
  PROVE  Carried(f)'
<1>1. /\ UNCHANGED <<row, outbox, connects, uncommitted, requests, latest, view>>
      /\ connects \in Nat
  BY DEF Join, Drop, server, query, TypeInv, TypeOK
<1>2. CASE Join
  <2>1. channel = <<>> /\ ConnectAhead' /\ UNCHANGED missed
    BY <1>2 DEF Join, LinkInv, ConnectAhead, query
  <2>. QED BY <1>1, <2>1 DEF Carried, Carries, Fetching, Awaiting, Shown
<1>3. CASE Drop
  <2>. DEFINE copies ==
         {channel[i].copy : i \in {j \in DOMAIN channel : channel[j].kind # "connect"}}
  <2>1. link' # "joined" /\ Lost(copies, connects + 1) /\ connects + 1 \in Nat
    BY <1>1, <1>3 DEF Drop
  <2>2. \A i \in DOMAIN channel : channel[i].kind # "connect" => channel[i].copy \in copies
    OBVIOUS
  <2>. HIDE DEF copies
  <2>3. /\ missed \subseteq missed'
        /\ Fetching \/ connects + 1 >= 2 \/ \A c \in copies : \E m \in missed' : m.copy = c
    BY <2>1, LostMeans
  <2>4. CASE connects >= 1
    BY <1>1, <2>1, <2>4 DEF Carried
  <2>5. CASE Fetching
    BY <1>1, <2>5 DEF Carried, Fetching
  <2>6. CASE ~(connects >= 1) /\ \A c \in copies : \E m \in missed' : m.copy = c
    <3>1. (\E i \in DOMAIN channel : Carries(channel[i], f)) => \E m \in missed' : m.copy[f] = row[f]
      BY <2>2, <2>6 DEF Carries
    <3>. QED BY <1>1, <2>3, <2>6, <3>1 DEF Carried, Carries, Fetching, Awaiting, Shown
  <2>. QED BY <1>1, <2>3, <2>4, <2>5, <2>6
<1>. QED BY <1>2, <1>3

\* A listener's event: the field is shown, or what it lost is written down.
LEMMA CarriedHandled ==
  ASSUME TypeInv, LoadInv, NEW copy \in Copy, NoOlder(row, copy), Handled(copy),
         view' = IF Shown THEN Ok(view'.data) ELSE view, view'.data \in Copy,
         NEW f \in Fields,
         Shown => view'.data[f] \in {copy[f], view.data[f]},
         NEW fresh \in BOOLEAN,
         fresh => copy[f] = row[f] /\ (Shown => view'.data[f] = copy[f]),
         UNCHANGED <<row, requests, latest>>,
         \/ fresh
         \/ \E m \in missed : m.copy[f] = row[f]
         \/ Fetching
         \/ \E r \in requests : r.ticket = latest /\ r.read # Unread /\ r.read[f] = row[f]
         \/ ~Awaiting /\ (Shown => view.data[f] = row[f])
  PROVE  Carried(f)'
<1>0. row \in Copy /\ view.data \in Copy
  BY ViewTyped DEF TypeInv, TypeOK
<1>1. /\ missed \subseteq missed'
      /\ Outdates(copy) => \E m \in missed' : m.copy = copy
      /\ Shown /\ ~Awaiting /\ ~NoOlder(view'.data, view.data)
              => \E m \in missed' : m.copy = view.data
  BY HandledMeans
<1>2. (Fetching' <=> Fetching) /\ (Awaiting' <=> Awaiting) /\ (Shown' <=> Shown)
  BY DEF Fetching, Awaiting, Shown, Ok
<1>3. CASE \E m \in missed : m.copy[f] = row[f]
  BY <1>1, <1>3 DEF Carried
<1>4. CASE Fetching
  BY <1>2, <1>4 DEF Carried
<1>5. CASE \E r \in requests : r.ticket = latest /\ r.read # Unread /\ r.read[f] = row[f]
  BY <1>5 DEF Carried
<1>6. CASE fresh /\ ~Fetching /\ Awaiting
  <2>1. PICK r \in requests : r.ticket = latest /\ r.read # Unread
    BY <1>6 DEF Fetching, Awaiting
  <2>2. CASE Outdates(copy)
    BY <1>1, <1>6, <2>2 DEF Carried
  <2>3. CASE ~Outdates(copy)
    <3>1. NoOlder(r.read, copy) /\ NoOlder(row, r.read) /\ r.read \in Copy
      BY <2>1, <2>3, RequestTyped DEF Outdates, LoadInv
    <3>2. r.read[f] = row[f]
      BY <1>0, <1>6, <3>1 DEF NoOlder, Copy, Counter, Fields
    <3>. QED BY <2>1, <3>2 DEF Carried
  <2>. QED BY <2>2, <2>3
<1>7. CASE fresh /\ ~Awaiting
  BY <1>2, <1>7 DEF Carried
<1>8. CASE ~Awaiting /\ (Shown => view.data[f] = row[f])
  <2>1. CASE ~Shown \/ view'.data[f] = row[f]
    BY <1>2, <1>8, <2>1 DEF Carried
  <2>2. CASE Shown /\ view'.data[f] # row[f]
    <3>1. view'.data[f] = copy[f]
      BY <1>8, <2>2
    <3>2. ~NoOlder(view'.data, view.data)
      BY <1>0, <1>8, <2>2, <3>1 DEF NoOlder, Copy, Counter, Fields
    <3>. QED BY <1>1, <1>8, <2>2, <3>2 DEF Carried
  <2>. QED BY <2>1, <2>2
<1>. QED BY <1>3, <1>4, <1>5, <1>6, <1>7, <1>8

LEMMA CarriedDeliver ==
  ASSUME TypeInv, LoadInv, PushInv, LinkInv, ListenerInv, Deliver, page # "none",
         NEW f \in Fields, Carried(f)
  PROVE  Carried(f)'
<1>. DEFINE frame == Head(channel)
<1>0. /\ connects \in Nat /\ latest \in Nat /\ row \in Copy /\ view.data \in Copy
      /\ channel \in Seq(Frame) /\ DOMAIN channel = 1 .. Len(channel) /\ Len(channel) \in Nat
  BY ViewTyped DEF TypeInv, TypeOK
<1>1. /\ channel # <<>> /\ channel' = Tail(channel)
      /\ UNCHANGED <<row, outbox, link, listeners>>
  BY DEF Deliver, server, mounted
<1>2. /\ frame = channel[1] /\ 1 \in DOMAIN channel
      /\ \A i \in DOMAIN channel : i = 1 \/ (i - 1 \in DOMAIN channel' /\ channel'[i - 1] = channel[i])
  <2>1. /\ frame = channel[1] /\ 1 \in DOMAIN channel
        /\ DOMAIN channel' = 1 .. Len(channel) - 1
        /\ \A i \in DOMAIN channel' : channel'[i] = channel[i + 1]
    BY <1>0, <1>1, ChannelSteps
  <2>. QED BY <1>0, <2>1
<1>3. frame \in Frame /\ frame.copy \in Copy /\ link = "joined"
  <2>1. frame \in Frame
    BY <1>0, <1>1
  <2>. QED BY <1>1, <2>1 DEF Frame, LinkInv
<1>4. (\E i \in DOMAIN channel : Carries(channel[i], f))
        => Carries(frame, f) \/ (\E j \in DOMAIN channel' : Carries(channel[j], f)')
  BY <1>1, <1>2 DEF Carries
<1>5. ConnectAhead <=> frame.kind = "connect"
  BY <1>1, <1>2 DEF ConnectAhead
<1>6. NoOlder(row, frame.copy)
  BY <1>2 DEF PushInv
<1>. HIDE DEF frame
<1>7. CASE frame.kind = "connect"
  <2>1. OnConnect
    BY <1>7 DEF Deliver, frame
  <2>2. /\ connects' = connects + 1 /\ uncommitted' = TRUE
        /\ UNCHANGED <<requests, latest, view, missed>>
    BY <2>1 DEF OnConnect, query
  <2>3. ~Carries(frame, f)
    BY <1>7 DEF Carries
  <2>4. CASE connects >= 1
    BY <1>0, <2>2, <2>4 DEF Carried
  <2>5. CASE ~(connects >= 1)
    <3>1. ~(uncommitted /\ connects >= 2)
      BY <1>0, <2>5
    <3>. QED BY <1>1, <1>4, <2>2, <2>3, <2>5, <3>1 DEF Carried, Carries, Fetching, Awaiting, Shown
  <2>. QED BY <2>4, <2>5
<1>8. CASE frame.kind # "connect"
  <2>1. OnEvent(frame)
    BY <1>8 DEF Deliver, frame
  <2>2. UNCHANGED <<published, connects, uncommitted>>
    BY <2>1 DEF OnEvent
  <2>3. CASE listeners = 0
    <3>1. Lost({frame.copy}, connects) /\ UNCHANGED <<view, latest, requests>>
      BY <2>1, <2>3 DEF OnEvent
    <3>2. uncommitted
      BY <1>3, <1>5, <1>8, <2>3 DEF LinkInv, ListenerInv
    <3>3. /\ missed \subseteq missed'
          /\ Fetching \/ connects >= 2 \/ \E m \in missed' : m.copy = frame.copy
      BY <1>0, <3>1, LostMeans
    <3>4. CASE connects >= 2
      BY <2>2, <3>2, <3>4 DEF Carried
    <3>5. CASE Fetching
      BY <3>1, <3>5 DEF Carried, Fetching
    <3>6. CASE \E m \in missed' : m.copy = frame.copy
      <4>1. Carries(frame, f) => \E m \in missed' : m.copy[f] = row'[f]
        BY <1>1, <3>6 DEF Carries
      <4>. QED BY <1>1, <1>3, <1>4, <1>5, <1>8, <2>2, <3>1, <3>3, <4>1
               DEF Carried, Carries, Fetching, Awaiting, Shown
    <3>. QED BY <3>3, <3>4, <3>5, <3>6
  <2>4. CASE listeners # 0
    <3>1. CASE Shown /\ page = "session" /\ frame.kind = "meter"
      <4>1. Issued(1)
        BY <2>1, <2>4, <3>1 DEF OnEvent, OnMeter
      <4>2. [ticket |-> latest', read |-> Unread] \in requests'
        BY <1>0, <4>1 DEF Issued
      <4>. QED BY <4>2 DEF Carried, Fetching
    <3>2. CASE ~(Shown /\ page = "session" /\ frame.kind = "meter")
      <4>0. frame.kind \in {"status", "meter"}
        BY <1>3, <1>8 DEF Frame
      <4>1. Handled(frame.copy) /\ UNCHANGED <<latest, requests>>
        BY <2>1, <2>4, <3>2, <4>0 DEF OnEvent, OnStatus, OnMeter
      <4>2. /\ ~Shown => view' = view
            /\ Shown /\ frame.kind = "status" => view' = Ok(frame.copy)
            /\ Shown /\ frame.kind = "meter"
                 => view' = Ok([view.data EXCEPT !.energy = frame.copy.energy])
        BY <2>1, <2>4, <3>2, <4>0, ViewTyped DEF OnEvent, OnStatus, OnMeter, Ok, TypeInv, TypeOK
      <4>3. [view.data EXCEPT !.energy = frame.copy.energy] \in Copy
        BY <1>0, <1>3 DEF Copy
      <4>4. /\ view' = (IF Shown THEN Ok(view'.data) ELSE view) /\ view'.data \in Copy
            /\ Shown => view'.data[f] \in {frame.copy[f], view.data[f]}
            /\ Carries(frame, f) => frame.copy[f] = row[f] /\ (Shown => view'.data[f] = frame.copy[f])
        BY <1>0, <1>3, <4>0, <4>2, <4>3 DEF Ok, Fields, Carries, Copy
      <4>5. CASE \/ \E event \in outbox : Carries(event, f)
                 \/ \E j \in DOMAIN channel' : Carries(channel[j], f)'
                 \/ uncommitted /\ connects >= 2
        BY <1>1, <2>2, <4>5 DEF Carried, Carries
      <4>6. CASE \/ Carries(frame, f)
                 \/ \E m \in missed : m.copy[f] = row[f]
                 \/ Fetching
                 \/ \E r \in requests : r.ticket = latest /\ r.read # Unread /\ r.read[f] = row[f]
                 \/ ~Awaiting /\ (Shown => view.data[f] = row[f])
        <5>. DEFINE fresh == Carries(frame, f)
        <5>1. fresh \in BOOLEAN
          BY DEF Carries
        <5>2. fresh => frame.copy[f] = row[f] /\ (Shown => view'.data[f] = frame.copy[f])
          BY <4>4
        <5>3. \/ fresh
              \/ \E m \in missed : m.copy[f] = row[f]
              \/ Fetching
              \/ \E r \in requests : r.ticket = latest /\ r.read # Unread /\ r.read[f] = row[f]
              \/ ~Awaiting /\ (Shown => view.data[f] = row[f])
          BY <4>6
        <5>. HIDE DEF fresh
        <5>. QED BY <1>1, <1>3, <1>6, <4>1, <4>4, <5>1, <5>2, <5>3, CarriedHandled
      <4>. QED BY <1>3, <1>4, <1>5, <1>8, <4>5, <4>6 DEF Carried
    <3>. QED BY <3>1, <3>2
  <2>. QED BY <2>3, <2>4
<1>. QED BY <1>7, <1>8

LEMMA CarriedPage ==
  ASSUME TypeInv, Commit, page # "none", NEW f \in Fields, Carried(f)
  PROVE  Carried(f)'
<1>0. /\ connects \in Nat /\ latest \in Nat
      /\ UNCHANGED <<row, outbox, link, channel, connects, view>>
  BY DEF TypeInv, TypeOK, Commit, server
<1>1. Issued(Resyncs(connects))
  BY DEF Commit
<1>2. CASE connects >= 2
  <2>1. [ticket |-> latest', read |-> Unread] \in requests'
    BY <1>0, <1>1, <1>2 DEF Issued, Resyncs
  <2>. QED BY <2>1 DEF Carried, Fetching
<1>3. CASE ~(connects >= 2)
  <2>1. UNCHANGED <<requests, latest, missed>>
    BY <1>0, <1>1, <1>3 DEF Issued, Resyncs
  <2>. QED BY <1>0, <1>3, <2>1 DEF Carried, Carries, ConnectAhead, Fetching, Awaiting, Shown
<1>. QED BY <1>2, <1>3

LEMMA CarriedRequests ==
  ASSUME TypeInv, LoadInv, NEW r \in requests,
         ServerReads(r) \/ Answered(r) \/ RequestFails(r), NEW f \in Fields, Carried(f)
  PROVE  Carried(f)'
<1>0. /\ row \in Copy /\ (r.read = Unread \/ r.read \in Copy)
      /\ UNCHANGED <<row, outbox, link, channel, connects, uncommitted, latest, missed>>
  BY RequestTyped DEF TypeInv, TypeOK, ServerReads, Answered, RequestFails, server, socket
<1>1. CASE ServerReads(r)
  <2>. DEFINE answer == [r EXCEPT !.read = row]
  <2>1. answer.ticket = r.ticket /\ answer.read = row /\ answer.read # Unread
    BY <1>0, Constants DEF TypeInv, TypeOK
  <2>2. requests' = (requests \ {r}) \cup {answer} /\ UNCHANGED view
    BY <1>1 DEF ServerReads
  <2>. HIDE DEF answer
  <2>3. CASE r.ticket = latest
    BY <1>0, <2>1, <2>2, <2>3 DEF Carried
  <2>4. CASE r.ticket # latest
    <3>1. \A s \in requests : s.ticket = latest => s \in requests'
      BY <2>2, <2>4
    <3>2. \A s \in requests' : s.ticket = latest => s \in requests
      BY <2>1, <2>2, <2>4
    <3>. QED BY <1>0, <2>2, <3>1, <3>2 DEF Carried, Carries, ConnectAhead, Fetching, Awaiting, Shown
  <2>. QED BY <2>3, <2>4
<1>2. CASE r.ticket # latest /\ (Answered(r) \/ RequestFails(r))
  <2>1. requests' = requests \ {r} /\ UNCHANGED view
    BY <1>2 DEF Answered, RequestFails, MayWrite
  <2>2. \A s \in requests : s.ticket = latest => s \in requests'
    BY <1>2, <2>1
  <2>. QED BY <1>0, <2>1, <2>2 DEF Carried, Carries, ConnectAhead, Fetching, Awaiting, Shown
<1>3. CASE r.ticket = latest /\ (Answered(r) \/ RequestFails(r))
  <2>1. requests' = requests \ {r} /\ \A s \in requests : s.ticket = latest => s = r
    BY <1>3 DEF Answered, RequestFails, LoadInv
  <2>2. ~Awaiting'
    BY <1>0, <2>1 DEF Awaiting
  <2>3. CASE RequestFails(r)
    <3>1. ~Shown'
      BY <1>3, <2>3 DEF RequestFails, MayWrite, Shown, Failed
    <3>. QED BY <2>2, <3>1 DEF Carried
  <2>4. CASE Answered(r)
    <3>1. view' = Ok(r.read) /\ r.read # Unread
      BY <1>3, <2>4 DEF Answered, MayWrite
    <3>2. view'.data = r.read
      BY <3>1 DEF Ok
    <3>3. ~Fetching /\ Awaiting
      BY <1>3, <2>1, <3>1 DEF Fetching, Awaiting
    <3>4. CASE r.read[f] = row[f]
      BY <1>0, <2>2, <3>2, <3>4 DEF Carried
    <3>5. CASE r.read[f] # row[f]
      <4>1. ~\E s \in requests : s.ticket = latest /\ s.read # Unread /\ s.read[f] = row[f]
        BY <2>1, <3>5
      <4>. QED BY <1>0, <3>3, <4>1 DEF Carried, Carries, ConnectAhead
    <3>. QED BY <3>4, <3>5
  <2>. QED BY <1>3, <2>3, <2>4
<1>. QED BY <1>1, <1>2, <1>3

LEMMA CarriedStep ==
  ASSUME TypeInv, LoadInv, PushInv, LinkInv, ListenerInv, CarriedInv, [Next]_vars
  PROVE  CarriedInv'
<1>. SUFFICES ASSUME page' # "none", NEW f \in Fields PROVE Carried(f)'
  BY DEF CarriedInv
<1>0. page # "none" => Carried(f)
  BY DEF CarriedInv
<1>1. CASE UNCHANGED vars
  BY <1>0, <1>1 DEF vars, server, socket, query, mounted, Carried, Carries, ConnectAhead,
                    Fetching, Awaiting, Shown
<1>2. CASE ChangeStatus \/ StoreReading
  <2>1. UNCHANGED page
    BY <1>2 DEF ChangeStatus, StoreReading, mounted
  <2>. QED BY <1>0, <1>2, <2>1, CarriedWrites
<1>3. ASSUME NEW event \in outbox, publish(event) PROVE Carried(f)'
  BY <1>0, <1>3, CarriedPublish DEF publish, mounted
<1>4. CASE Login
  BY <1>4 DEF Login, mounted, LinkInv
<1>5. CASE Join \/ Drop
  <2>1. page' = page
    BY <1>5 DEF Join, Drop, mounted
  <2>. QED BY <1>0, <1>5, <2>1, CarriedLink
<1>6. CASE Deliver
  <2>1. page' = page
    BY <1>6 DEF Deliver, mounted
  <2>. QED BY <1>0, <1>6, <2>1, CarriedDeliver
<1>7. CASE Commit
  <2>1. UNCHANGED page
    BY <1>7 DEF Commit
  <2>. QED BY <1>0, <1>7, <2>1, CarriedPage
<1>8. CASE Close \/ Logout
  BY <1>8 DEF Close, Logout, Closed
<1>9. ASSUME NEW p \in Pages, Open(p) PROVE Carried(f)'
  <2>1. latest' \in Nat /\ latest' >= 1
    BY <1>9 DEF Open, Resyncs
  <2>2. [ticket |-> latest', read |-> Unread] \in requests'
    BY <1>9, <2>1 DEF Open
  <2>. QED BY <2>2 DEF Carried, Fetching
<1>10. ASSUME NEW r \in requests, ServerReads(r) \/ Answered(r) \/ RequestFails(r)
       PROVE  Carried(f)'
  <2>1. UNCHANGED page
    BY <1>10 DEF ServerReads, Answered, RequestFails, mounted
  <2>. QED BY <1>0, <1>10, <2>1, CarriedRequests
<1>. QED BY <1>1, <1>2, <1>3, <1>4, <1>5, <1>6, <1>7, <1>8, <1>9, <1>10 DEF Next

LEMMA PushInvariant == Spec => [](PushInv /\ LinkInv /\ CarriedInv)
<1>1. Init => PushInv /\ LinkInv /\ CarriedInv
  <2>. SUFFICES ASSUME Init PROVE PushInv /\ LinkInv /\ CarriedInv
    OBVIOUS
  <2>1. outbox = {} /\ channel = <<>> /\ link = "none" /\ page = "none"
    BY DEF Init
  <2>. QED BY <2>1 DEF PushInv, LinkInv, CarriedInv
<1>2. TypeInv /\ TypeInv' /\ LoadInv /\ PushInv /\ LinkInv /\ [Next]_vars => PushInv'
  BY PushStep
<1>3. TypeInv /\ TypeInv' /\ PushInv /\ LinkInv /\ [Next]_vars => LinkInv'
  BY LinkStep
<1>4. TypeInv /\ ListenerInv /\ LoadInv /\ PushInv /\ LinkInv /\ CarriedInv /\ [Next]_vars
        => CarriedInv'
  BY CarriedStep
<1>. QED BY <1>1, <1>2, <1>3, <1>4, TypedAndAttached, LoadInvariant, PTL DEF Spec

\* An event runs a page's handler once, and none of a page that is gone, however often pages
\* and connections come and go (useSocketEvent.ts:13-15).
THEOREM ListensOnce == Spec => []OneListener
<1>1. ListenerInv => OneListener
  BY DEF ListenerInv, OneListener
<1>. QED BY <1>1, TypedAndAttached, PTL

\* What a connected page at rest shows is the stored session (SocketContext.tsx:29-40): events
\* lost with a connection are fetched after the next one.  A field can differ only if its very
\* value was lost, since the page's newest load was read, before the tab's first connect was
\* worked off, while an answer already read was under way, or to an older copy pushed later.
THEOREM PageAtRestIsCurrent == Spec => []NothingMissed
<1>1. TypeInv /\ CarriedInv => NothingMissed
  <2>. SUFFICES ASSUME TypeInv, CarriedInv, Quiet, NEW f \in Fields
                PROVE  view.data[f] = row[f] \/ \E m \in missed : m.copy[f] = row[f]
    BY DEF NothingMissed
  <2>1. Carried(f)
    BY DEF CarriedInv, Quiet
  <2>. QED BY <2>1 DEF Carried, Quiet, ConnectAhead, Fetching
<1>. QED BY <1>1, Typed, PushInvariant, PTL
=============================================================================
