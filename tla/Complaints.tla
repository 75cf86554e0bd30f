----------------------------- MODULE Complaints -----------------------------
(***************************************************************************)
(* Support tickets: filing, the staff's transitions, assignment, the       *)
(* driver's confirmation and reopening, the follow-up of a closed ticket   *)
(* and the hourly sweep that closes what nobody answered, together with    *)
(* the notifications they trigger.                                         *)
(*                                                                         *)
(* Sources: backend/src/services/complaint.service.ts,                     *)
(* constants/complaint.ts, models/complaint.model.ts,                      *)
(* routes/complaint.routes.ts, validators/complaint.validator.ts.          *)
(*                                                                         *)
(* A handler reads a ticket, decides on that copy, and saves it.  The      *)
(* ticket may change in between: `save` then writes the fields the handler *)
(* changed, pushes its history entry, and looks at nothing else.  So every *)
(* handler is two actions, one that reads and decides and `save`.          *)
(*                                                                         *)
(* Left out: subject, description and note texts, list queries, and the    *)
(* labels and the live session context that reads attach.  Of a text only  *)
(* its being there and its fitting a notification are kept.                *)
(*                                                                         *)
(* Bounds: the tickets (Complaints), the handlers at work at once (Slots), *)
(* the categories and priorities tried (Categories, Priorities) and the    *)
(* number of requests ever made (MaxRequests).                             *)
(***************************************************************************)
EXTENDS Notifications, Sequences

CONSTANTS
  Complaints,    \* ticket ids
  Slots,         \* requests handled at the same time
  Categories,    \* the categories drivers choose from
  Priorities,    \* the priorities staff choose from
  Texts,         \* the texts staff and drivers write: a subset of {"short", "long"}
  MaxRequests,
  Stored         \* what the collection may hold at the start, where a ticket was
                 \* moved once at most and its driver is just being told

ASSUME ComplaintsAssumption ==
  /\ MaxRequests \in Nat
  /\ Texts \subseteq {"short", "long"}

VARIABLES
  complaints,   \* the stored tickets
  request,      \* the handler in each slot, between its read and its save
  requests,     \* how many requests have been made
  due,          \* the copies the sweep has read and not yet saved
  overdue       \* tickets resolved longer ago than AUTO_CLOSE_AFTER_MS

complaintVars == <<complaints, request, requests, due, overdue>>
vars == <<complaintVars, notificationVars>>

-----------------------------------------------------------------------------
(* constants/complaint.ts *)

COMPLAINT_CATEGORIES == {"charger_issue", "session_issue", "payment_issue",
                         "station_issue", "account_issue", "other"}
COMPLAINT_STATUSES == {"open", "in_progress", "resolved", "closed"}
OPERATOR_RESOLVABLE_CATEGORIES == COMPLAINT_CATEGORIES \ {"payment_issue", "account_issue"}

ALLOWED_TRANSITIONS ==
  [open |-> {"in_progress", "closed"}, in_progress |-> {"open", "resolved", "closed"},
   resolved |-> {"open", "closed"}, closed |-> {}]

isAdminOnly(from, to) ==
  to = "closed" \/ (from = "resolved" /\ to = "open")

DEFAULT_PRIORITY_BY_CATEGORY(cat) ==
  CASE cat = "charger_issue" -> "high" [] cat = "other" -> "low" [] OTHER -> "medium"

-----------------------------------------------------------------------------
(* models/complaint.model.ts *)

Nobody == "nobody"
NoCompany == "none"
NoComplaint == "none"

\* resolvedAt is a date: of two resolutions the later is another date, which
\* the length of the history then tells as well; 0 is null.  `none` is a
\* document that does not exist yet.  Of an entry's note the text of a resolution
\* is kept; `n` is a history variable, the entry's place on the handler's copy.
Entry == [from : COMPLAINT_STATUSES, to : COMPLAINT_STATUSES, by : Users \cup {Nobody},
          note : {"none"} \cup Texts, n : Nat]
Complaint ==
  [status : COMPLAINT_STATUSES \cup {"none"}, owner : Drivers \cup {Nobody},
   company : Companies \cup {NoCompany}, category : COMPLAINT_CATEGORIES,
   priority : {"low", "medium", "high"}, resolution : {"none"} \cup Texts,
   resolvedAt : Nat, reopenCount : Nat, history : Seq(Entry),
   followUpOf : Complaints \cup {NoComplaint}, assignedTo : Users \cup {Nobody}]
Absent ==
  [status |-> "none", owner |-> Nobody, company |-> NoCompany, category |-> "other",
   priority |-> "low", resolution |-> "none", resolvedAt |-> 0, reopenCount |-> 0,
   history |-> <<>>, followUpOf |-> NoComplaint, assignedTo |-> Nobody]

Exists(c) == complaints[c].status # "none"
Last(s) == s[Len(s)]

\* A ticket as the handlers leave it, if there is one.
Consistent(t) ==
  \/ t = Absent
  \/ /\ t.status # "none" /\ t.owner \in Drivers
     /\ t.status = IF t.history = <<>> THEN "open" ELSE Last(t.history).to
     /\ t.resolvedAt <= Len(t.history)
     /\ t.status = "resolved" => t.resolvedAt # 0 /\ t.resolution # "none"

\* The validators' enumerations, and what earlier runs of the same handlers left.
ASSUME StoredAssumption ==
  /\ Categories \subseteq COMPLAINT_CATEGORIES
  /\ Priorities \subseteq {"low", "medium", "high"}
  /\ Stored \subseteq [Complaints -> Complaint]
  /\ \A stored \in Stored : \A c \in Complaints : Consistent(stored[c])

\* mongoose writes a field only where the copy was changed, and pushes what
\* was appended to an array: the rest of the stored ticket stays.
Keep(stored, old, new) == IF new = old THEN stored ELSE new
Pushed_whole(stored, old, new) == IF new = old THEN stored ELSE new
Pushed(stored, old, new) == stored \o SubSeq(new, Len(old) + 1, Len(new))
Merged(stored, old, new) ==
  [f \in DOMAIN stored |->
     IF f = "history" THEN Pushed(stored[f], old[f], new[f])
     ELSE Keep(stored[f], old[f], new[f])]

Idle == [kind |-> "idle", c |-> NoComplaint, old |-> Absent, new |-> Absent, tasks |-> {}]

-----------------------------------------------------------------------------
(* Who sees a ticket: applyReadScope *)

applyReadScope(u, t) ==
  \/ u \in SuperAdmins
  \/ u \in Drivers /\ t.owner = u
  \/ u \in Staff /\ t.company = CompanyOf[u]

\* One more of the requests that are ever made.
Request == requests < MaxRequests /\ requests' = requests + 1

\* assertComplaintInScope, in a free slot.
Read(p, u, c) ==
  /\ request[p].kind = "idle"
  /\ Exists(c)
  /\ applyReadScope(u, complaints[c])

\* The handler has decided: it will save `new` over the copy it read.
Decide(p, c, new, tasks) ==
  /\ new # complaints[c]
  /\ Request
  /\ request' = [request EXCEPT ![p] =
       [kind |-> "save", c |-> c, old |-> complaints[c], new |-> new, tasks |-> tasks]]
  /\ UNCHANGED <<complaints, due, overdue, notificationVars>>

-----------------------------------------------------------------------------
(* applyTransition and the events it tells *)

applyTransition_inPlace(t, to, by) ==
  [t EXCEPT !.status = to,
            !.resolvedAt = IF to = "resolved" THEN 1 ELSE IF to = "open" THEN 0 ELSE @]

applyTransition(t, to, by) ==
  [t EXCEPT !.status = to,
            !.resolvedAt = IF to = "resolved" THEN Len(t.history) + 1
                           ELSE IF t.status = "resolved" /\ to = "open" THEN 0 ELSE @,
            !.reopenCount = IF t.status = "resolved" /\ to = "open" THEN @ + 1 ELSE @,
            !.history = Append(@, [from |-> t.status, to |-> to, by |-> by,
                                   note |-> IF to = "resolved" THEN t.resolution ELSE "none",
                                   n |-> Len(@) + 1])]

\* The keys carry the length of the history as the handler knows it, so that
\* the second "resolved" of a reopened ticket is an event of its own.
Key(c, what) == [ref |-> c, what |-> what, n |-> 0]
KeyWithLength(c, what, t) == [ref |-> c, what |-> what, n |-> Len(t.history)]

complaintUpdated_statusOnly(c, t) ==
  {NotifyUser(t.owner, Key(c, t.status), t.status = "resolved" => t.resolution # "long")}
\* The message to the driver quotes the resolution of a resolved ticket.
complaintUpdated(c, t) ==
  {NotifyUser(t.owner, KeyWithLength(c, t.status, t),
              t.status = "resolved" => t.resolution # "long")}

complaintCreated(c, t) ==
  IF t.company = NoCompany THEN {}
  ELSE {NotifyCompany(t.company, Key(c, "created"), TRUE)}

complaintReopened(c, t, reason) ==
  IF t.company = NoCompany THEN {}
  ELSE {NotifyCompany(t.company, KeyWithLength(c, "reopened", t), reason # "long")}

-----------------------------------------------------------------------------
(* The handlers: read and decide *)

initialPriority(cat, sessionFailed, isFollowUp) ==
  IF isFollowUp \/ (cat = "session_issue" /\ sessionFailed) THEN "high"
  ELSE DEFAULT_PRIORITY_BY_CATEGORY(cat)

Filed(u, co, cat, priority, original) ==
  [Absent EXCEPT !.status = "open", !.owner = u, !.company = co, !.category = cat,
                 !.priority = priority, !.followUpOf = original]

\* The company of a new ticket is never sent: it is that of its anchor, a session
\* of the driver's own or a charger, and without an anchor there is none.
resolveAnchor == Companies \cup {NoCompany}

createComplaint(u, c) ==
  /\ ~Exists(c) /\ \A p \in Slots : request[p].c # c
  /\ Request
  /\ \E co \in resolveAnchor, cat \in Categories, failed \in BOOLEAN :
       LET t == Filed(u, co, cat, initialPriority(cat, failed /\ co # NoCompany, FALSE),
                      NoComplaint)
       IN /\ complaints' = [complaints EXCEPT ![c] = t]
          /\ notifying' = notifying \cup complaintCreated(c, t)
  /\ UNCHANGED <<request, due, overdue, inbox>>

\* A follow-up inherits the anchor of a ticket read as closed.
FollowUpAllowed(t) == t.status = "closed"

createFollowUp(p, u, c, original) ==
  /\ u \in Drivers
  /\ Read(p, u, original)
  /\ FollowUpAllowed(complaints[original])
  /\ ~Exists(c) /\ \A q \in Slots : request[q].c # c
  /\ Request
  /\ \E cat \in Categories :
       LET t == Filed(u, complaints[original].company, cat,
                      initialPriority(cat, FALSE, TRUE), original)
       IN request' = [request EXCEPT ![p] =
            [kind |-> "create", c |-> c, old |-> Absent, new |-> t,
             tasks |-> complaintCreated(c, t)]]
  /\ UNCHANGED <<complaints, due, overdue, notificationVars>>

\* PATCH /complaints/:id, staff only: a resolution text or a priority.  A note
\* is appended beside the fields kept here.
updateComplaint(p, u, c) ==
  /\ u \notin Drivers
  /\ Read(p, u, c)
  /\ complaints[c].status # "closed"
  /\ \/ \E text \in Texts : Decide(p, c, [complaints[c] EXCEPT !.resolution = text], {})
     \/ \E pr \in Priorities :
          Decide(p, c, [complaints[c] EXCEPT !.priority = pr], {})

\* The gates of setComplaintStatus, in order: the table, the operator's two
\* limits, and the text a conclusion needs.
Permitted_anyCategory(u, t, to) ==
  /\ to \in ALLOWED_TRANSITIONS[t.status]
  /\ u \in Operators => ~isAdminOnly(t.status, to)
Permitted(u, t, to) ==
  /\ to \in ALLOWED_TRANSITIONS[t.status]
  /\ u \in Operators =>
       /\ ~isAdminOnly(t.status, to)
       /\ to = "resolved" => t.category \in OPERATOR_RESOLVABLE_CATEGORIES

Explained_noText(t, to, text) == TRUE
Explained(t, to, text) ==
  /\ to = "resolved" => text # "none" \/ t.resolution # "none"
  /\ to = "closed" /\ t.status # "resolved" => text # "none"

setComplaintStatus(p, u, c) ==
  /\ u \notin Drivers
  /\ Read(p, u, c)
  /\ \E to \in COMPLAINT_STATUSES, text \in {"none"} \cup Texts :
       LET t == complaints[c]
           concludes == to = "resolved" \/ (to = "closed" /\ t.status # "resolved")
           moved == applyTransition(
                      [t EXCEPT !.resolution = IF concludes /\ text # "none" THEN text ELSE @],
                      to, u)
           new == [moved EXCEPT !.assignedTo =
                     IF to = "in_progress" /\ @ = Nobody THEN u ELSE @]
       IN /\ Permitted(u, t, to)
          /\ Explained(t, to, text)
          /\ Decide(p, c, new, complaintUpdated(c, new))

\* An operator takes a ticket or releases their own; anybody else of the staff
\* gives it to somebody who can see it.
MayAssign(u, t, a) ==
  /\ t.status # "closed"
  /\ u \in Operators => a = u \/ (a = Nobody /\ t.assignedTo = u)
  /\ a # Nobody => applyReadScope(a, t)

assignComplaint(p, u, c) ==
  /\ u \notin Drivers
  /\ Read(p, u, c)
  /\ \E a \in Staff \cup SuperAdmins \cup {Nobody} :
       /\ MayAssign(u, complaints[c], a)
       /\ Decide(p, c, [complaints[c] EXCEPT !.assignedTo = a], {})

\* Only the driver's answer to a resolution is theirs to give.
MayAnswer(t) == t.status = "resolved"

confirmComplaintResolved(p, u, c) ==
  /\ u \in Drivers
  /\ Read(p, u, c)
  /\ MayAnswer(complaints[c])
  /\ Decide(p, c, applyTransition(complaints[c], "closed", u), {})

reopenComplaint(p, u, c) ==
  /\ u \in Drivers
  /\ Read(p, u, c)
  /\ MayAnswer(complaints[c])
  /\ \E reason \in Texts :
       LET t == applyTransition(complaints[c], "open", u)
       IN Decide(p, c, t, complaintReopened(c, t, reason))

-----------------------------------------------------------------------------
(* save *)

\* resolvedAt: a fresh resolution starts the seven days again, a reopening ends them.
Aged(c, old, new) ==
  IF new.status # old.status /\ new.status \in {"resolved", "open"}
  THEN overdue \ {c} ELSE overdue

save(p) ==
  LET r == request[p]
  IN /\ r.kind # "idle"
     /\ complaints' = [complaints EXCEPT ![r.c] =
          IF r.kind = "create" THEN r.new ELSE Merged(@, r.old, r.new)]
     /\ overdue' = Aged(r.c, r.old, r.new)
     /\ notifying' = notifying \cup r.tasks
     /\ request' = [request EXCEPT ![p] = Idle]
     /\ UNCHANGED <<requests, due, inbox>>

-----------------------------------------------------------------------------
(* sweepResolvedComplaints, under singleFlight *)

\* Seven days pass without an answer.
SevenDaysPass(c) ==
  /\ complaints[c].status = "resolved"
  /\ c \notin overdue
  /\ overdue' = overdue \cup {c}
  /\ UNCHANGED <<complaints, request, requests, due, notificationVars>>

Due_withCompany(c) == /\ complaints[c].status = "resolved" /\ c \in overdue
                      /\ complaints[c].company # NoCompany
Due(c) == complaints[c].status = "resolved" /\ c \in overdue

sweepResolvedComplaints ==
  /\ due = [c \in Complaints |-> Absent]
  /\ \E c \in Complaints : Due(c)
  /\ due' = [c \in Complaints |-> IF Due(c) THEN complaints[c] ELSE Absent]
  /\ UNCHANGED <<complaints, request, requests, overdue, notificationVars>>

\* Each copy is closed and saved in turn, whatever became of its ticket.
sweepSaves(c) ==
  /\ due[c] # Absent
  /\ LET new == applyTransition(due[c], "closed", Nobody)
     IN /\ complaints' = [complaints EXCEPT ![c] = Merged(@, due[c], new)]
        /\ notifying' = notifying \cup complaintUpdated(c, new)
  /\ due' = [due EXCEPT ![c] = Absent]
  /\ UNCHANGED <<request, requests, overdue, inbox>>

-----------------------------------------------------------------------------
Init ==
  /\ complaints \in Stored
  /\ request = [p \in Slots |-> Idle] /\ requests = 0
  /\ due = [c \in Complaints |-> Absent]
  /\ overdue = {}
  /\ inbox = {}
  /\ notifying = UNION {complaintUpdated(c, complaints[c]) :
                          c \in {c \in Complaints : complaints[c].history # <<>>}}

DriverStep(u, c) ==
  \/ createComplaint(u, c)
  \/ \E p \in Slots : \/ \E original \in Complaints : createFollowUp(p, u, c, original)
                      \/ confirmComplaintResolved(p, u, c) \/ reopenComplaint(p, u, c)

StaffStep(p, u, c) ==
  updateComplaint(p, u, c) \/ setComplaintStatus(p, u, c) \/ assignComplaint(p, u, c)

Next ==
  \/ \E c \in Complaints : \/ \E u \in Drivers : DriverStep(u, c)
                           \/ \E p \in Slots, u \in Staff \cup SuperAdmins : StaffStep(p, u, c)
                           \/ SevenDaysPass(c) \/ sweepSaves(c)
  \/ \E p \in Slots : save(p)
  \/ sweepResolvedComplaints
  \/ Deliver /\ UNCHANGED complaintVars
  \/ Reading /\ UNCHANGED complaintVars

Spec == Init /\ [][Next]_vars

\* A handler that has read its ticket saves it, time passes, the sweep runs
\* every hour to its end and a trigger is carried out.  Nobody is obliged to
\* send a request.
Fairness ==
  /\ \A p \in Slots : WF_vars(save(p))
  /\ \A c \in Complaints : WF_vars(SevenDaysPass(c)) /\ WF_vars(sweepSaves(c))
  /\ WF_vars(sweepResolvedComplaints)
  /\ WF_vars(Deliver /\ UNCHANGED complaintVars)

FairSpec == Spec /\ Fairness

-----------------------------------------------------------------------------
TypeOK ==
  /\ complaints \in [Complaints -> Complaint]
  /\ \A p \in Slots : /\ request[p].kind \in {"idle", "save", "create"}
                      /\ request[p].c \in Complaints \cup {NoComplaint}
                      /\ request[p].old \in Complaint /\ request[p].new \in Complaint
  /\ due \in [Complaints -> Complaint]
  /\ overdue \subseteq Complaints
  /\ \A n \in inbox : n.user \in Users /\ n.isRead \in BOOLEAN

\* The history is the whole story: its last entry names the status the ticket
\* has, however handlers and the sweep overlapped.
StatusIsLastEntry ==
  \A c \in Complaints :
    Exists(c) => complaints[c].status =
      IF complaints[c].history = <<>> THEN "open" ELSE Last(complaints[c].history).to

\* A ticket that reads resolved says since when and with what conclusion:
\* without the date the sweep would never find it (complaint.service.ts:816).
ResolvedIsExplained ==
  \A c \in Complaints :
    complaints[c].status = "resolved" =>
      complaints[c].resolvedAt # 0 /\ complaints[c].resolution # "none"

\* No recorded move is ever lost or rewritten, not even by a save of a copy
\* that is older than it.
HistoryIsAppendOnly ==
  [][\A c \in Complaints :
       /\ Len(complaints[c].history) <= Len(complaints'[c].history)
       /\ SubSeq(complaints'[c].history, 1, Len(complaints[c].history))
            = complaints[c].history]_vars

\* "Without it `resolved` becomes a permanent limbo" (complaint.service.ts:811):
\* whatever staff and driver do, no ticket stays resolved for ever.
ResolvedIsNotLimbo ==
  \A c \in Complaints : []<>(complaints[c].status # "resolved")

\* What a move is told under: its status and the place it has on its handler's copy.
EventOf(c, e) == [ref |-> c, what |-> e.to, n |-> e.n]

\* A resolution is quoted in the message, which then may not fit the column.
Fits(e) == e.to = "resolved" => e.note # "long"

\* The driver hears of every move that was not their own, platform-level
\* tickets and the sweep's closings included: once the ticket is saved the
\* row of that very event exists or its trigger is under way, so a second
\* `resolved` is not lost behind the first (notification.service.ts:363-366).
\* Not told is a resolution whose text is too long for a notification: the
\* insert is refused and the refusal swallowed.  Two moves of which each was
\* decided before the other was saved may be one event: SecondResolvedIsTold.
EveryMoveIsTold ==
  \A c \in Complaints : \A i \in 1..Len(complaints[c].history) :
    LET e == complaints[c].history[i]
        event == EventOf(c, e)
    IN e.by \notin Drivers /\ Fits(e) =>
         \/ Told(complaints[c].owner, event)
         \/ \E t \in notifying : t.key = event /\ t.fits

\* "a reopened complaint can reach the same status twice - keyed on status
\* alone, the second `resolved` would be swallowed as a duplicate and the
\* driver never told" (notification.service.ts:364-366): what the position in
\* the key is for is that two resolutions with a reopening between them are
\* two events.  The code does not keep it (README, section 4): no run lists this.
SecondResolvedIsTold ==
  \A c \in Complaints : \A i, j \in 1..Len(complaints[c].history) :
    LET h == complaints[c].history
    IN /\ i < j /\ h[i].to = "resolved" /\ h[j].to = "resolved"
       /\ \E k \in i + 1 .. j - 1 : h[k].to = "open"
       => EventOf(c, h[i]) # EventOf(c, h[j])

=============================================================================
