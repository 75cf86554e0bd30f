---------------------------- MODULE Notifications ----------------------------
(***************************************************************************)
(* In-app notifications: the one place a row is created, the fan-out to a  *)
(* company's staff, the unique index that makes a repeated event harmless, *)
(* and the two ways of marking rows read.                                  *)
(*                                                                         *)
(* Sources: backend/src/services/notification.service.ts,                  *)
(* models/notification.model.ts, constants/notification.ts.                *)
(*                                                                         *)
(* A trigger is `void notify.x(...)`: the caller does not wait.  It is a   *)
(* task here, which looks up its recipients and then inserts one row per   *)
(* recipient, each insert in a step of its own.  Titles and wording are    *)
(* left out; whether the message fits the column is kept, because the      *)
(* model refuses one that does not and the refusal is swallowed.           *)
(*                                                                         *)
(* A task lives in memory.  That the process ends between the business     *)
(* write and the insert is outside this module.                            *)
(***************************************************************************)
EXTENDS Naturals, FiniteSets

CONSTANTS
  Drivers, Operators, Admins,   \* users by role; an operator or admin has a company
  SuperAdmins,                  \* platform staff, without a company
  Companies,
  CompanyOf,                    \* the company of every operator and admin
  Readers                       \* the users who open their inbox

Staff == Operators \cup Admins
Users == Drivers \cup Staff \cup SuperAdmins

ASSUME RolesAssumption ==
  /\ Drivers \cap (Staff \cup SuperAdmins) = {}
  /\ Operators \cap Admins = {} /\ Staff \cap SuperAdmins = {}
  /\ CompanyOf \in [Staff -> Companies]
  /\ Readers \subseteq Users

VARIABLES
  inbox,      \* the notification rows
  notifying   \* the triggers under way

notificationVars == <<inbox, notifying>>

\* A row is [user, key, isRead]; the key is what dedupeKeys spells as a string.
Told(u, key) == \E n \in inbox : n.user = u /\ n.key = key

-----------------------------------------------------------------------------
\* A trigger: whom it addresses, once that is known, and whether its message
\* is at most 500 characters.
NotifyUser(u, key, fits) ==
  [key |-> key, step |-> "create", to |-> {u}, company |-> "none", fits |-> fits]
NotifyCompany(co, key, fits) ==
  [key |-> key, step |-> "find", to |-> {}, company |-> co, fits |-> fits]

\* notifyCompanyStaff reads the staff of the company, whatever their number.
findStaff(t) ==
  /\ t.step = "find"
  /\ LET to == {u \in Staff : CompanyOf[u] = t.company}
     IN notifying' = (notifying \ {t}) \cup
                       (IF to = {} THEN {} ELSE {[t EXCEPT !.step = "create", !.to = to]})
  /\ UNCHANGED inbox

\* One insert.  The unique index on user and key refuses a repeat, the schema
\* refuses a message that is too long, and either refusal is swallowed.
Inserted_unindexed(u, t) ==
  IF ~t.fits THEN inbox
  ELSE inbox \cup {[user |-> u, key |-> t.key, isRead |-> FALSE]}
Inserted(u, t) ==
  IF ~t.fits \/ Told(u, t.key) THEN inbox
  ELSE inbox \cup {[user |-> u, key |-> t.key, isRead |-> FALSE]}

createNotification(t) ==
  /\ t.step = "create"
  /\ \E u \in t.to :
       /\ inbox' = Inserted(u, t)
       /\ notifying' = (notifying \ {t}) \cup
                         (IF t.to = {u} THEN {} ELSE {[t EXCEPT !.to = @ \ {u}]})

\* The copy read before the save differs from the row at most in isRead, and
\* the save writes TRUE: reading and saving are one step.
markAsRead(u) ==
  /\ \E n \in inbox : /\ n.user = u /\ ~n.isRead
                      /\ inbox' = (inbox \ {n}) \cup {[n EXCEPT !.isRead = TRUE]}
  /\ UNCHANGED notifying

markAllAsRead(u) ==
  /\ \E n \in inbox : n.user = u /\ ~n.isRead
  /\ inbox' = {IF n.user = u THEN [n EXCEPT !.isRead = TRUE] ELSE n : n \in inbox}
  /\ UNCHANGED notifying

-----------------------------------------------------------------------------
Deliver == \E t \in notifying : findStaff(t) \/ createNotification(t)

Reading == \E u \in Readers : markAsRead(u) \/ markAllAsRead(u)

\* One event makes at most one row per reader.
OncePerEvent ==
  \A n, m \in inbox : n.user = m.user /\ n.key = m.key => n = m
=============================================================================
