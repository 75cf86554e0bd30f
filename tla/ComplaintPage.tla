---------------------------- MODULE ComplaintPage -----------------------------
(***************************************************************************)
(* What the ticket page offers.  The page does not ask the server what a   *)
(* user may do with a ticket: it carries a second copy of the rules, and   *)
(* shows a control when its copy says so.                                  *)
(*                                                                         *)
(* Sources: frontend/src/app/complaints/[complaintId]/page.tsx and         *)
(* app/complaints/new/page.tsx.  What a control sends when it is pressed   *)
(* is the request the actions of Complaints handle.                        *)
(***************************************************************************)
EXTENDS Complaints

\* "Mirrors ALLOWED_TRANSITIONS on the server."
NEXT_STATUSES ==
  [open |-> {"in_progress", "closed"}, in_progress |-> {"open", "resolved", "closed"},
   resolved |-> {"open", "closed"}, closed |-> {}]

\* "Mirrors the server's operator rules."
OPERATOR_RESOLVABLE == {"charger_issue", "session_issue", "station_issue", "other"}

AdminOnlyOnPage(from, to, cat) ==
  \/ to = "closed"
  \/ from = "resolved" /\ to = "open"
  \/ to = "resolved" /\ cat \notin OPERATOR_RESOLVABLE

isAdmin(u) == u \in Admins \cup SuperAdmins

\* StaffControls: one button for every move left by the role.
MovesOffered(u, t) ==
  {to \in NEXT_STATUSES[t.status] : isAdmin(u) \/ ~AdminOnlyOnPage(t.status, to, t.category)}

\* The draft of the reply goes only with a move that concludes the ticket.
ReplySent(t, to, draft) ==
  IF to \in {"resolved", "closed"} /\ t.status # "resolved" THEN draft ELSE "none"

\* Assignment: take it, release it, or hand it to the staff of its company.
AssigneesOffered(u, t) ==
  IF t.status = "closed" THEN {}
  ELSE ({u} \ {t.assignedTo})
         \cup {a \in {Nobody} : t.assignedTo # Nobody /\ (t.assignedTo = u \/ isAdmin(u))}
         \cup {a \in Staff \ {t.assignedTo} : isAdmin(u) /\ CompanyOf[a] = t.company}

\* DriverControls: answer a resolution, or file a follow-up of a closed ticket.
DriverOffered(t) ==
  CASE t.status = "resolved" -> {"answer"}
    [] t.status = "closed"   -> {"followUp"}
    [] OTHER                 -> {}

DriverMay(t) ==
  {x \in {"answer", "followUp"} : IF x = "answer" THEN MayAnswer(t) ELSE FollowUpAllowed(t)}

-----------------------------------------------------------------------------
\* The page's copy of the rules and the server's agree on every ticket they can
\* meet, whatever its category: staff and drivers are shown exactly the moves the
\* server accepts from them, a conclusion takes its text along, and nobody is
\* offered as an assignee whom the server refuses.
OffersAccepted ==
  \A c \in Complaints, u \in Users, cat \in COMPLAINT_CATEGORIES :
    LET t == [complaints[c] EXCEPT !.category = cat]
    IN Exists(c) /\ applyReadScope(u, t) =>
         IF u \in Drivers THEN DriverOffered(t) = DriverMay(t)
         ELSE /\ MovesOffered(u, t) = {to \in COMPLAINT_STATUSES : Permitted(u, t, to)}
              /\ \A to \in MovesOffered(u, t), draft \in Texts :
                   Explained(t, to, ReplySent(t, to, draft))
              /\ \A a \in AssigneesOffered(u, t) : MayAssign(u, t, a)
=============================================================================
