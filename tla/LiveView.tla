------------------------------- MODULE LiveView -------------------------------
(***************************************************************************)
(* One browser watching one charging session: the socket the whole         *)
(* application shares (context/SocketContext.tsx), a page that loads its   *)
(* data over REST and follows pushed events (hooks/useAsyncData.ts,        *)
(* hooks/useSocketEvent.ts, app/sessions/[sessionId]/page.tsx,             *)
(* app/monitor/page.tsx) and the server that writes the session and then   *)
(* emits it (realtime/publisher.ts).                                       *)
(*                                                                         *)
(* The session row is a pair of counters: how often its status and how     *)
(* often its energy changed.  Everything the browser holds is such a pair, *)
(* so "older" and "newer" are comparisons of numbers.  A request is read   *)
(* by the server and answered in separate steps; requests overtake each    *)
(* other, frames on the socket do not, and frames sent to a browser that   *)
(* is not connected are lost.  A render follows its state at once: that a  *)
(* handler may still see the state before an answer applied a moment ago   *)
(* only widens the window in which the page is loading.                    *)
(***************************************************************************)
EXTENDS Naturals, Sequences

CONSTANTS
    Pages,          \* the pages the user opens: a subset of {"session", "monitor"}
    MaxWrites,      \* bound: changes of the session row
    MaxOpens,       \* bound: pages opened
    MaxDrops,       \* bound: network losses
    MaxLogins,      \* bound: logins
    MaxFailures     \* bound: REST requests that fail

ASSUME LiveViewAssumption ==
    /\ Pages \subseteq {"session", "monitor"}
    /\ {MaxWrites, MaxOpens, MaxDrops, MaxLogins, MaxFailures} \subseteq Nat

VARIABLES
    row,        \* the stored session
    outbox,     \* events of saved changes not emitted yet (one per handler)
    link,       \* the socket of the logged-in user: "none", "connecting", "joined"
    channel,    \* frames on their way to the browser
    published,  \* the context's `socket` is set
    connects,   \* reconnectCount
    uncommitted,\* a `connect` whose effects React has not run yet
    listeners,  \* listeners of pages on the socket
    page,       \* the page that is open, or "none"
    attached,   \* the page's listener effect has run with a socket, and has a cleanup
    view,       \* useAsyncData's state: loading, error, or ok with the session shown
    latest,     \* useAsyncData's newest ticket
    requests,   \* REST requests in flight
    opens, drops, logins, failures,      \* counters of the bounds
    loaded,     \* history: the row as the last applied load read it
    missed      \* history: copies the page lost since its newest load, and in which window

server  == <<row, outbox>>
socket  == <<link, channel, published, connects, uncommitted>>
query   == <<view, latest, requests, loaded, missed>>
mounted == <<page, attached, listeners>>
bounds  == <<opens, drops, logins, failures>>
vars    == <<server, socket, query, bounds, mounted>>

Counter == 0 .. MaxWrites
Copy    == [status : Counter, energy : Counter]
Origin  == [status |-> 0, energy |-> 0]
Frame   == [kind : {"connect", "status", "meter"}, copy : Copy]
Unread  == [status |-> MaxWrites + 1, energy |-> MaxWrites + 1]

Fields  == {"status", "energy"}
Missed  == [window : {"connect", "load", "order"}, copy : Copy]
NoOlder(a, b) == a.status >= b.status /\ a.energy >= b.energy

Loading == [status |-> "loading", data |-> Origin]
Failed  == [status |-> "error", data |-> Origin]
Ok(copy) == [status |-> "ok", data |-> copy]
Shown   == view.status = "ok"

TypeOK ==
    /\ row \in Copy
    /\ outbox \subseteq Frame
    /\ link \in {"none", "connecting", "joined"}
    /\ channel \in Seq(Frame)
    /\ published \in BOOLEAN /\ uncommitted \in BOOLEAN /\ attached \in BOOLEAN
    /\ connects \in Nat /\ listeners \in Nat /\ latest \in Nat
    /\ page \in Pages \cup {"none"}
    /\ view \in {Loading, Failed} \cup {Ok(copy) : copy \in Copy}
    /\ requests \subseteq [ticket : Nat, read : Copy \cup {Unread}]
    /\ loaded \in Copy /\ missed \subseteq Missed

Init ==
    /\ row = Origin /\ outbox = {}
    /\ link = "none" /\ channel = <<>> /\ published = FALSE
    /\ connects = 0 /\ uncommitted = FALSE /\ listeners = 0
    /\ page = "none" /\ attached = FALSE
    /\ view = Loading /\ latest = 0 /\ requests = {} /\ loaded = Origin /\ missed = {}
    /\ opens = 0 /\ drops = 0 /\ logins = 0 /\ failures = 0

(***************************************************************************)
(* What the page loses.  A load that the server has not read yet makes     *)
(* good whatever happens before it is read; for the rest there are three   *)
(* windows.                                                                *)
(***************************************************************************)
Awaiting == \E r \in requests : r.ticket = latest
Fetching == \E r \in requests : r.ticket = latest /\ r.read = Unread

\* "connect": no listener sees these copies, and the effects that the next connect runs, the
\* count-th of the tab, load nothing because it is the first (sessions/[sessionId]/page.tsx:570).
Lost(copies, count) ==
    missed' = missed \cup
        {[window |-> "connect", copy |-> c] :
            c \in IF page # "none" /\ ~Fetching /\ count < 2 THEN copies ELSE {}}

\* "load": the page's load was read before the change and is answered after it.
Outdates(copy) == \E r \in requests : r.ticket = latest /\ r.read # Unread /\ ~NoOlder(r.read, copy)

\* A listener handled a copy, and no load follows.  "order": it put older data over newer.
Handled(copy) ==
    missed' = missed
        \cup {[window |-> "load", copy |-> c] : c \in {d \in {copy} : Outdates(d)}}
        \cup {[window |-> "order", copy |-> c] :
                 c \in {d \in {view.data} : Shown /\ ~Awaiting /\ ~NoOlder(view'.data, d)}}

(***************************************************************************)
(* The server.  A handler saves the row and emits afterwards; between the  *)
(* two another handler may save and emit.  A status event carries the      *)
(* handler's own copy, whose energy may have been read before the last     *)
(* meter reading was stored.                                               *)
(***************************************************************************)
ChangeStatus ==
    /\ row.status + row.energy < MaxWrites
    /\ row' = [row EXCEPT !.status = @ + 1]
    /\ \E e \in {n \in Counter : n = row.energy \/ n + 1 = row.energy} :
          outbox' = outbox \cup
              {[kind |-> "status", copy |-> [status |-> row'.status, energy |-> e]]}
    /\ UNCHANGED <<socket, query, bounds, mounted>>

StoreReading ==
    /\ row.status + row.energy < MaxWrites
    /\ row' = [row EXCEPT !.energy = @ + 1]
    /\ outbox' = outbox \cup
           {[kind |-> "meter", copy |-> [status |-> 0, energy |-> row'.energy]]}
    /\ UNCHANGED <<socket, query, bounds, mounted>>

publish(event) ==
    /\ event \in outbox
    /\ outbox' = outbox \ {event}
    /\ IF link = "joined"
          THEN channel' = Append(channel, event) /\ UNCHANGED missed
          ELSE UNCHANGED channel /\ Lost({event.copy}, connects + 1)
    /\ UNCHANGED <<row, link, published, connects, uncommitted, view, latest, requests,
                   loaded, bounds, mounted>>

(***************************************************************************)
(* The one socket.  It opens with the login and closes with the logout;    *)
(* `connect` reaches the browser as a frame ahead of every event.          *)
(***************************************************************************)
Login ==
    /\ link = "none" /\ logins < MaxLogins
    /\ link' = "connecting"
    /\ logins' = logins + 1
    /\ UNCHANGED <<server, channel, published, connects, uncommitted, query,
                   opens, drops, failures, mounted>>

Join ==
    /\ link = "connecting"
    /\ link' = "joined"
    /\ channel' = <<[kind |-> "connect", copy |-> Origin]>>
    /\ UNCHANGED <<server, published, connects, uncommitted, query, bounds, mounted>>

\* The network fails: frames on their way are gone, the socket object stays and retries.
Drop ==
    /\ link = "joined" /\ drops < MaxDrops
    /\ link' = "connecting"
    /\ channel' = <<>>
    /\ drops' = drops + 1
    /\ Lost({channel[i].copy : i \in {j \in DOMAIN channel : channel[j].kind # "connect"}},
            connects + 1)
    /\ UNCHANGED <<server, published, connects, uncommitted, view, latest, requests, loaded,
                   opens, logins, failures, mounted>>

(***************************************************************************)
(* useAsyncData.  Every load takes a ticket; only the newest may write.    *)
(* setData writes without one.                                             *)
(***************************************************************************)
Issued(n) ==
    /\ latest' = latest + n
    /\ requests' = requests \cup {[ticket |-> t, read |-> Unread] : t \in latest + 1 .. latest + n}
    /\ missed' = IF n = 0 THEN missed ELSE {}

MayWrite_any(ticket) == TRUE
MayWrite(ticket) == ticket = latest

ServerReads(r) ==
    /\ r \in requests /\ r.read = Unread
    /\ requests' = (requests \ {r}) \cup {[r EXCEPT !.read = row]}
    /\ UNCHANGED <<server, socket, view, latest, loaded, missed, bounds, mounted>>

Answered(r) ==
    /\ r \in requests /\ r.read # Unread
    /\ requests' = requests \ {r}
    /\ IF MayWrite(r.ticket)
          THEN view' = Ok(r.read) /\ loaded' = r.read
          ELSE UNCHANGED <<view, loaded>>
    /\ UNCHANGED <<server, socket, latest, missed, bounds, mounted>>

RequestFails(r) ==
    /\ r \in requests /\ failures < MaxFailures
    /\ failures' = failures + 1
    /\ requests' = requests \ {r}
    /\ view' = IF MayWrite(r.ticket) THEN Failed ELSE view
    /\ UNCHANGED <<server, socket, latest, loaded, missed, opens, drops, logins, mounted>>

(***************************************************************************)
(* useSocketEvent and the pages' handlers.                                 *)
(***************************************************************************)
\* The listeners on the socket after an effect's cleanup took its own off, and after the effect
\* has put one on.
CleanedUp_never(n) == n
CleanedUp(n) == IF attached THEN n - 1 ELSE n
Attached(n) == n + 1

\* The loads a page starts when its effects run with this many connects behind it.
Resyncs_never(count) == 0
Resyncs(count) == IF count > 1 THEN 1 ELSE 0

\* The `connect` callback: publishes the socket and bumps the counter.
OnConnect ==
    /\ published' = TRUE
    /\ connects' = connects + 1
    /\ uncommitted' = TRUE
    /\ UNCHANGED query

\* session:statusChanged merges the pushed copy into a page that has loaded.
OnStatus(copy) ==
    /\ view' = IF Shown THEN Ok(copy) ELSE view
    /\ Handled(copy)
    /\ UNCHANGED <<latest, requests, loaded>>

\* session:meterUpdate: the session page refetches, the monitor amends the energy; neither does
\* anything while nothing is loaded.
OnMeter(copy) ==
    IF Shown /\ page = "session" THEN Issued(1) /\ UNCHANGED <<view, loaded>>
    ELSE /\ view' = IF Shown THEN [view EXCEPT !.data.energy = copy.energy] ELSE view
         /\ Handled(copy)
         /\ UNCHANGED <<latest, requests, loaded>>

OnEvent(frame) ==
    /\ UNCHANGED <<published, connects, uncommitted>>
    /\ IF listeners = 0
          THEN Lost({frame.copy}, connects) /\ UNCHANGED <<view, latest, requests, loaded>>
          ELSE IF frame.kind = "status" THEN OnStatus(frame.copy) ELSE OnMeter(frame.copy)

Deliver ==
    /\ channel # <<>>
    /\ channel' = Tail(channel)
    /\ IF Head(channel).kind = "connect" THEN OnConnect ELSE OnEvent(Head(channel))
    /\ UNCHANGED <<server, link, bounds, mounted>>

\* React runs the effects of the render a `connect` caused: the listener's, if the socket it
\* depends on is new to the page, and the refetch.
Commit ==
    /\ uncommitted
    /\ uncommitted' = FALSE
    /\ IF page # "none" /\ ~attached
          THEN attached' = TRUE /\ listeners' = Attached(listeners)
          ELSE UNCHANGED <<attached, listeners>>
    /\ IF page # "none" THEN Issued(Resyncs(connects)) ELSE UNCHANGED <<latest, requests, missed>>
    /\ UNCHANGED <<server, link, channel, published, connects, view, loaded, bounds, page>>

\* Mounting runs the page's effects: the load, the listener if there is a socket, and the refetch
\* if the counter is past the first connect.
Open(p) ==
    /\ link # "none" /\ page = "none" /\ ~uncommitted /\ opens < MaxOpens
    /\ opens' = opens + 1
    /\ page' = p
    /\ view' = Loading
    /\ latest' = 1 + Resyncs(connects)
    /\ requests' = {[ticket |-> t, read |-> Unread] : t \in 1 .. latest'}
    /\ attached' = published
    /\ listeners' = IF published THEN Attached(listeners) ELSE listeners
    /\ loaded' = Origin /\ missed' = {}
    /\ UNCHANGED <<server, socket, drops, logins, failures>>

\* The component is gone: its state, and its answers with it.
Closed ==
    /\ page' = "none" /\ attached' = FALSE
    /\ view' = Loading /\ latest' = 0 /\ requests' = {}
    /\ loaded' = Origin /\ missed' = {}

Close ==
    /\ page # "none" /\ ~uncommitted
    /\ Closed
    /\ listeners' = CleanedUp(listeners)
    /\ UNCHANGED <<server, socket, bounds>>

Logout ==
    /\ link # "none"
    /\ link' = "none" /\ channel' = <<>> /\ published' = FALSE /\ uncommitted' = FALSE
    /\ Closed
    /\ listeners' = 0           \* next.removeAllListeners()
    /\ UNCHANGED <<server, connects, bounds>>

Next ==
    \/ ChangeStatus \/ StoreReading
    \/ \E event \in outbox : publish(event)
    \/ Login \/ Join \/ Drop \/ Deliver \/ Commit \/ Close \/ Logout
    \/ \E r \in requests : ServerReads(r) \/ Answered(r) \/ RequestFails(r)
    \/ \E p \in Pages : Open(p)

Spec == Init /\ [][Next]_vars

(***************************************************************************)
(* Properties                                                              *)
(***************************************************************************)
\* However often pages are opened and closed and the socket is lost, replaced or reconnected, an
\* event runs a page's handler once: the socket carries one listener of the page that is open
\* and none of those that are gone (useSocketEvent.ts:13-15).
OneListener == listeners <= (IF page = "none" THEN 0 ELSE 1)

\* A load never replaces what a later-started load brought: within one page, what applied loads
\* read only moves forward, whatever the order of the answers (useAsyncData.ts:40-43).
LoadsNeverGoBack == [][opens' = opens /\ page' = page => NoOlder(loaded', loaded)]_vars

\* Nothing is under way and nothing failed.
Quiet ==
    /\ page # "none" /\ Shown /\ requests = {}
    /\ link = "joined" /\ channel = <<>> /\ outbox = {} /\ ~uncommitted

\* Over any number of lost connections, logins and navigations, with no event ever replayed, a
\* connected page at rest shows the stored status and energy (SocketContext.tsx:29-40), unless
\* the very value it lacks was lost, after its newest load was read, in one of three windows:
\* "connect", before the tab's first connect was worked off, which refetches nothing; "load",
\* while an answer already read was under way, which overwrites what the push brought, or finds
\* the push ignored because nothing was loaded; "order", when an older copy was pushed after a
\* newer one.
NothingMissed == Quiet =>
    \A f \in Fields : view.data[f] = row[f] \/ \E m \in missed : m.copy[f] = row[f]

\* A connect never leaves a page behind: what a page at rest lacks was not lost in the "connect"
\* window.  The pages' comments claim it of the first connect too (app/monitor/page.tsx:181-186,
\* app/sessions/[sessionId]/page.tsx:564-568); the code does not keep it (README, section 4), so
\* no run lists this.
ConnectRestoresTruth == Quiet =>
    \A f \in Fields : view.data[f] = row[f]
        \/ \E m \in missed : m.window # "connect" /\ m.copy[f] = row[f]

===============================================================================
