-------------------------- MODULE ComplaintsProofs ---------------------------
(***************************************************************************)
(* Theorems about Complaints, Notifications and ComplaintPage, for any     *)
(* number of tickets, users, handlers at work and requests: no recorded    *)
(* move is lost, the status is the last move, a resolution is explained,   *)
(* the driver hears of every move a notification has room for, and the     *)
(* page offers what the server accepts.                                    *)
(***************************************************************************)
EXTENDS ComplaintPage, SequenceTheorems, TLAPS

-----------------------------------------------------------------------------
(* Types *)

TaskKey == [ref : Complaints, what : COMPLAINT_STATUSES \cup {"created", "reopened"}, n : Nat]
Task == [key : TaskKey, step : {"find", "create"}, to : SUBSET Users,
         company : Companies \cup {"none"}, fits : BOOLEAN]
Row == [user : Users, key : TaskKey, isRead : BOOLEAN]
Handler == [kind : {"idle", "save", "create"}, c : Complaints \cup {NoComplaint},
            old : Complaint, new : Complaint, tasks : SUBSET Task]

TypeInv ==
  /\ complaints \in [Complaints -> Complaint]
  /\ request \in [Slots -> Handler] /\ requests \in Nat
  /\ due \in [Complaints -> Complaint] /\ overdue \subseteq Complaints
  /\ inbox \subseteq Row /\ notifying \subseteq Task

LEMMA AbsentTyped == Absent \in Complaint /\ Absent.status = "none" /\ Absent.history = <<>>
                     /\ Absent.resolution = "none" /\ Absent.resolvedAt = 0
<1>1. <<>> \in Seq(Entry)
  OBVIOUS
<1>. QED BY <1>1 DEF Absent, Complaint, COMPLAINT_CATEGORIES, Nobody, NoCompany, NoComplaint

-----------------------------------------------------------------------------
(* Saving a copy over the stored ticket *)

\* The entry a move of the copy `old` to `new` records.
Move(old, new, by) ==
  [from |-> old.status, to |-> new.status, by |-> by,
   note |-> IF new.status = "resolved" THEN new.resolution ELSE "none",
   n |-> Len(old.history) + 1]

\* The last entry of a copy is that of the move that made it.
Recorded(new) ==
  /\ Last(new.history).to = new.status
  /\ Last(new.history).n = Len(new.history)
  /\ new.status = "resolved" => Last(new.history).note = new.resolution

\* What a handler does to its copy: it leaves the history, the status and the date as they
\* were, or it moves the ticket and records that one move.
Change(old, new) ==
  /\ new.owner = old.owner
  /\ new.resolution = "none" => old.resolution = "none"
  /\ \/ new.history = old.history /\ new.status = old.status /\ new.resolvedAt = old.resolvedAt
     \/ \E by \in Users \cup {Nobody} :
          /\ new.status # old.status
          /\ {old.status, new.status} \subseteq COMPLAINT_STATUSES
          /\ new.history = Append(old.history, Move(old, new, by))
          /\ IF new.status = "resolved"
             THEN new.resolvedAt = Len(old.history) + 1 /\ new.resolution # "none"
             ELSE new.resolvedAt \in {0, old.resolvedAt}

LEMMA PushedNothing ==
  ASSUME NEW s \in Seq(Entry), NEW h \in Seq(Entry)
  PROVE  Pushed(s, h, h) = s
<1>1. SubSeq(h, Len(h) + 1, Len(h)) = <<>>
  BY SubSeqEmpty, LenProperties
<1>. QED BY <1>1, ConcatEmptySeq DEF Pushed

LEMMA PushedOne ==
  ASSUME NEW s \in Seq(Entry), NEW h \in Seq(Entry), NEW e \in Entry
  PROVE  /\ Pushed(s, h, Append(h, e)) \in Seq(Entry)
         /\ Len(Pushed(s, h, Append(h, e))) = Len(s) + 1
         /\ \A i \in 1 .. Len(s) : Pushed(s, h, Append(h, e))[i] = s[i]
         /\ Pushed(s, h, Append(h, e))[Len(s) + 1] = e
         /\ SubSeq(Pushed(s, h, Append(h, e)), 1, Len(s)) = s
<1>. DEFINE new == Append(h, e)
            one == SubSeq(new, Len(h) + 1, Len(new))
            all == s \o one
<1>1. /\ new \in Seq(Entry) /\ Len(h) \in Nat /\ Len(s) \in Nat /\ Len(new) = Len(h) + 1
      /\ new[Len(h) + 1] = e
  BY AppendProperties, LenProperties
<1>2. one \in Seq(Entry) /\ Len(one) = 1 /\ one[1] = e
  <2>. HIDE DEF new
  <2>1. \A i \in Len(h) + 1 .. Len(new) : new[i] \in Entry
    BY <1>1, ElementOfSeq
  <2>. QED BY <1>1, <2>1, SubSeqProperties
<1>. HIDE DEF one, new
<1>3. /\ all \in Seq(Entry) /\ Len(all) = Len(s) + 1
      /\ \A i \in 1 .. Len(s) + 1 : all[i] = IF i <= Len(s) THEN s[i] ELSE one[i - Len(s)]
  <2>1. /\ all \in Seq(Entry) /\ Len(all) = Len(s) + Len(one)
        /\ \A i \in 1 .. Len(s) + Len(one) :
             all[i] = IF i <= Len(s) THEN s[i] ELSE one[i - Len(s)]
    BY <1>2, ConcatProperties, Zenon
  <2>. HIDE DEF all
  <2>. QED BY <1>2, <2>1
<1>. HIDE DEF all
<1>4. (\A i \in 1 .. Len(s) : all[i] = s[i]) /\ all[Len(s) + 1] = e
  <2>1. \A i \in 1 .. Len(s) : all[i] = s[i]
    BY <1>1, <1>3
  <2>2. /\ Len(s) + 1 \in 1 .. Len(s) + 1 /\ ~(Len(s) + 1 <= Len(s))
        /\ (Len(s) + 1) - Len(s) = 1
    BY <1>1
  <2>3. all[Len(s) + 1] = one[(Len(s) + 1) - Len(s)]
    BY <1>3, <2>2
  <2>. QED BY <1>2, <2>1, <2>2, <2>3
<1>5. SubSeq(all, 1, Len(s)) = s
  <2>1. \A i \in 1 .. Len(s) : all[i] \in Entry
    BY <1>4, ElementOfSeq
  <2>2. /\ SubSeq(all, 1, Len(s)) \in Seq(Entry)
        /\ Len(SubSeq(all, 1, Len(s))) = Len(s)
        /\ \A i \in 1 .. Len(s) : SubSeq(all, 1, Len(s))[i] = all[i]
    BY <1>1, <2>1, SubSeqProperties
  <2>. QED BY <1>4, <2>2, SeqEqual
<1>. QED BY <1>3, <1>4, <1>5 DEF Pushed, all, one, new

LEMMA MergedFields ==
  ASSUME NEW stored \in Complaint, NEW old \in Complaint, NEW new \in Complaint,
         Pushed(stored.history, old.history, new.history) \in Seq(Entry)
  PROVE  LET m == Merged(stored, old, new)
         IN /\ m \in Complaint
            /\ m.status = Keep(stored.status, old.status, new.status)
            /\ m.owner = Keep(stored.owner, old.owner, new.owner)
            /\ m.resolution = Keep(stored.resolution, old.resolution, new.resolution)
            /\ m.resolvedAt = Keep(stored.resolvedAt, old.resolvedAt, new.resolvedAt)
            /\ m.history = Pushed(stored.history, old.history, new.history)
<1>. DEFINE m == Merged(stored, old, new)
<1>1. DOMAIN stored = {"status", "owner", "company", "category", "priority", "resolution",
                       "resolvedAt", "reopenCount", "history", "followUpOf", "assignedTo"}
  BY DEF Complaint
<1>2. m = [f \in DOMAIN stored |-> IF f = "history" THEN Pushed(stored[f], old[f], new[f])
                                  ELSE Keep(stored[f], old[f], new[f])]
  BY DEF Merged
<1>3. /\ m.status = Keep(stored.status, old.status, new.status)
      /\ m.owner = Keep(stored.owner, old.owner, new.owner)
      /\ m.company = Keep(stored.company, old.company, new.company)
      /\ m.category = Keep(stored.category, old.category, new.category)
      /\ m.priority = Keep(stored.priority, old.priority, new.priority)
      /\ m.resolution = Keep(stored.resolution, old.resolution, new.resolution)
      /\ m.resolvedAt = Keep(stored.resolvedAt, old.resolvedAt, new.resolvedAt)
      /\ m.reopenCount = Keep(stored.reopenCount, old.reopenCount, new.reopenCount)
      /\ m.history = Pushed(stored.history, old.history, new.history)
      /\ m.followUpOf = Keep(stored.followUpOf, old.followUpOf, new.followUpOf)
      /\ m.assignedTo = Keep(stored.assignedTo, old.assignedTo, new.assignedTo)
  BY <1>1, <1>2
<1>4. m = [status |-> m.status, owner |-> m.owner, company |-> m.company,
           category |-> m.category, priority |-> m.priority, resolution |-> m.resolution,
           resolvedAt |-> m.resolvedAt, reopenCount |-> m.reopenCount, history |-> m.history,
           followUpOf |-> m.followUpOf, assignedTo |-> m.assignedTo]
  BY <1>1, <1>2
<1>. HIDE DEF m
<1>5. m \in Complaint
  BY <1>3, <1>4 DEF Complaint, Keep
<1>. QED BY <1>3, <1>5 DEF m

\* Saving a changed copy over a ticket that may have moved on: the ticket stays consistent,
\* keeps its owner, its conclusion and every recorded move, and gains the copy's at most.
LEMMA SaveTicket ==
  ASSUME NEW stored \in Complaint, NEW old \in Complaint, NEW new \in Complaint,
         Consistent(stored), stored.status # "none", Consistent(old), old.status # "none",
         Change(old, new), Len(old.history) <= Len(stored.history),
         old.resolution # "none" => stored.resolution # "none"
  PROVE  LET m == Merged(stored, old, new)
         IN /\ m \in Complaint /\ Consistent(m)
            /\ m.status # "none" /\ m.owner = stored.owner
            /\ stored.resolution # "none" => m.resolution # "none"
            /\ SubSeq(m.history, 1, Len(stored.history)) = stored.history
            /\ \/ new.history = old.history /\ m.history = stored.history
               \/ /\ Len(m.history) = Len(stored.history) + 1
                  /\ \A i \in 1 .. Len(stored.history) : m.history[i] = stored.history[i]
                  /\ m.history[Len(stored.history) + 1] = Last(new.history)
                  /\ Recorded(new) /\ new.status \in COMPLAINT_STATUSES
                  /\ Len(new.history) = Len(old.history) + 1
<1>. DEFINE m == Merged(stored, old, new)
<1>0. /\ stored.history \in Seq(Entry) /\ old.history \in Seq(Entry) /\ new.history \in Seq(Entry)
      /\ Len(stored.history) \in Nat /\ Len(old.history) \in Nat
      /\ stored.resolvedAt \in Nat /\ old.resolvedAt \in Nat /\ new.resolvedAt \in Nat
      /\ stored.owner \in Drivers
      /\ stored # Absent /\ old # Absent
  BY LenProperties, AbsentTyped DEF Complaint, Consistent
<1>1. CASE new.history = old.history /\ new.status = old.status /\ new.resolvedAt = old.resolvedAt
  <2>1. Pushed(stored.history, old.history, new.history) = stored.history
    BY <1>0, <1>1, PushedNothing
  <2>2. /\ m \in Complaint /\ m.status = stored.status /\ m.owner = stored.owner
        /\ m.resolution = Keep(stored.resolution, old.resolution, new.resolution)
        /\ m.resolvedAt = stored.resolvedAt /\ m.history = stored.history
    BY <1>0, <1>1, <2>1, MergedFields DEF Keep, Change
  <2>. HIDE DEF m
  <2>3. stored.resolution # "none" => m.resolution # "none"
    BY <2>2 DEF Keep, Change
  <2>4. SubSeq(m.history, 1, Len(stored.history)) = stored.history
    BY <1>0, <2>2, SubSeqFull
  <2>5. Consistent(m)
    BY <1>0, <2>2, <2>3 DEF Consistent
  <2>. QED BY <1>1, <2>2, <2>3, <2>4, <2>5 DEF m
<1>2. CASE ~(new.history = old.history /\ new.status = old.status /\ new.resolvedAt = old.resolvedAt)
  <2>1. PICK by \in Users \cup {Nobody} :
          /\ new.status # old.status
          /\ {old.status, new.status} \subseteq COMPLAINT_STATUSES
          /\ new.history = Append(old.history, Move(old, new, by))
          /\ IF new.status = "resolved"
             THEN new.resolvedAt = Len(old.history) + 1 /\ new.resolution # "none"
             ELSE new.resolvedAt \in {0, old.resolvedAt}
    BY <1>2 DEF Change
  <2>. DEFINE e == Move(old, new, by)
  <2>2. /\ e \in Entry /\ e.to = new.status /\ e.n = Len(old.history) + 1
        /\ new.status = "resolved" => e.note = new.resolution
    <3>1. new.resolution \in {"none"} \cup Texts
      BY DEF Complaint
    <3>. QED BY <1>0, <2>1, <3>1 DEF Entry, Move
  <2>. HIDE DEF e
  <2>3. /\ new.history = Append(old.history, e) /\ Len(new.history) = Len(old.history) + 1
        /\ Last(new.history) = e /\ Recorded(new)
    <3>1. new.history = Append(old.history, e)
      BY <2>1 DEF e
    <3>2. Len(new.history) = Len(old.history) + 1 /\ Last(new.history) = e
      BY <1>0, <2>2, <3>1, AppendProperties DEF Last
    <3>. QED BY <2>2, <3>1, <3>2 DEF Recorded
  <2>4. /\ m \in Complaint /\ m.status = new.status /\ m.owner = stored.owner
        /\ m.resolution = Keep(stored.resolution, old.resolution, new.resolution)
        /\ m.resolvedAt = Keep(stored.resolvedAt, old.resolvedAt, new.resolvedAt)
        /\ m.history = Pushed(stored.history, old.history, new.history)
    <3>1. Pushed(stored.history, old.history, new.history) \in Seq(Entry)
      BY <1>0, <2>2, <2>3, PushedOne
    <3>2. /\ m \in Complaint
          /\ m.status = Keep(stored.status, old.status, new.status)
          /\ m.owner = Keep(stored.owner, old.owner, new.owner)
          /\ m.resolution = Keep(stored.resolution, old.resolution, new.resolution)
          /\ m.resolvedAt = Keep(stored.resolvedAt, old.resolvedAt, new.resolvedAt)
          /\ m.history = Pushed(stored.history, old.history, new.history)
      BY <3>1, MergedFields
    <3>. HIDE DEF m
    <3>. QED BY <2>1, <3>2 DEF Keep, Change
  <2>. HIDE DEF m
  <2>. DEFINE moves == Pushed(stored.history, old.history, Append(old.history, e))
  <2>a. /\ moves \in Seq(Entry) /\ Len(moves) = Len(stored.history) + 1
        /\ \A i \in 1 .. Len(stored.history) : moves[i] = stored.history[i]
        /\ moves[Len(stored.history) + 1] = e
        /\ SubSeq(moves, 1, Len(stored.history)) = stored.history
    <3>1. e \in Entry
      BY <2>2
    <3>. QED BY <1>0, <3>1, PushedOne, Zenon
  <2>b. m.history = moves
    BY <2>3, <2>4
  <2>. HIDE DEF moves
  <2>5. /\ Len(m.history) = Len(stored.history) + 1
        /\ \A i \in 1 .. Len(stored.history) : m.history[i] = stored.history[i]
        /\ m.history[Len(stored.history) + 1] = e
        /\ SubSeq(m.history, 1, Len(stored.history)) = stored.history
        /\ m.history \in Seq(Entry)
    BY <2>a, <2>b
  <2>6. stored.resolution # "none" => m.resolution # "none"
    BY <2>4 DEF Keep, Change
  <2>7. m.resolvedAt <= Len(m.history)
    <3>1. stored.resolvedAt <= Len(stored.history) /\ old.resolvedAt <= Len(old.history)
      BY <1>0 DEF Consistent
    <3>. QED BY <1>0, <2>1, <2>4, <2>5, <3>1 DEF Keep
  <2>8. m.status = "resolved" => m.resolvedAt # 0 /\ m.resolution # "none"
    <3>. SUFFICES ASSUME new.status = "resolved" PROVE m.resolvedAt # 0 /\ m.resolution # "none"
      BY <2>4
    <3>1. new.resolvedAt = Len(old.history) + 1 /\ new.resolution # "none"
      BY <2>1
    <3>2. old.resolvedAt <= Len(old.history)
      BY <1>0 DEF Consistent
    <3>3. m.resolvedAt = Len(old.history) + 1
      BY <1>0, <2>4, <3>1, <3>2 DEF Keep
    <3>4. m.resolution # "none"
      BY <2>4, <3>1 DEF Keep
    <3>. QED BY <1>0, <3>3, <3>4
  <2>9. Consistent(m)
    <3>1. m.history # <<>>
      BY <1>0, <2>5, EmptySeq
    <3>2. m.status = Last(m.history).to
      BY <2>2, <2>4, <2>5 DEF Last
    <3>3. m.status # "none" /\ m.owner \in Drivers
      BY <1>0, <2>1, <2>4 DEF COMPLAINT_STATUSES
    <3>. QED BY <2>7, <2>8, <3>1, <3>2, <3>3 DEF Consistent
  <2>10. m.status # "none" /\ new.status \in COMPLAINT_STATUSES
    BY <2>1, <2>4 DEF COMPLAINT_STATUSES
  <2>. QED BY <2>2, <2>3, <2>4, <2>5, <2>6, <2>9, <2>10 DEF m
<1>. QED BY <1>1, <1>2

-----------------------------------------------------------------------------
(* What the handlers decide *)

LEMMA TransitionFields ==
  ASSUME NEW t \in Complaint, t.status \in COMPLAINT_STATUSES, NEW to \in COMPLAINT_STATUSES,
         NEW by \in Users \cup {Nobody}
  PROVE  LET m == applyTransition(t, to, by)
         IN /\ m \in Complaint
            /\ m.status = to /\ m.owner = t.owner /\ m.company = t.company
            /\ m.resolution = t.resolution /\ m.assignedTo = t.assignedTo
            /\ m.resolvedAt = IF to = "resolved" THEN Len(t.history) + 1
                              ELSE IF t.status = "resolved" /\ to = "open" THEN 0 ELSE t.resolvedAt
            /\ m.history = Append(t.history, Move(t, m, by))
<1>. DEFINE m == applyTransition(t, to, by)
            date == IF to = "resolved" THEN Len(t.history) + 1
                    ELSE IF t.status = "resolved" /\ to = "open" THEN 0 ELSE t.resolvedAt
            count == IF t.status = "resolved" /\ to = "open" THEN t.reopenCount + 1
                     ELSE t.reopenCount
            e == [from |-> t.status, to |-> to, by |-> by,
                  note |-> IF to = "resolved" THEN t.resolution ELSE "none",
                  n |-> Len(t.history) + 1]
            moves == Append(t.history, e)
<1>1. t.history \in Seq(Entry) /\ Len(t.history) \in Nat /\ t.resolvedAt \in Nat
      /\ t.reopenCount \in Nat
  BY LenProperties DEF Complaint
<1>2. date \in Nat /\ count \in Nat
  BY <1>1
<1>3. moves \in Seq(Entry)
  <2>1. t.resolution \in {"none"} \cup Texts
    BY DEF Complaint
  <2>2. e \in Entry
    BY <1>1, <2>1 DEF Entry
  <2>. HIDE DEF e
  <2>. QED BY <1>1, <2>2, AppendProperties
<1>4. m = [t EXCEPT !.status = to, !.resolvedAt = date, !.reopenCount = count, !.history = moves]
  BY DEF applyTransition
<1>. HIDE DEF date, count, moves, m
<1>5. /\ m.status = to /\ m.owner = t.owner /\ m.company = t.company
      /\ m.resolution = t.resolution /\ m.assignedTo = t.assignedTo
      /\ m.resolvedAt = date /\ m.history = moves
  BY <1>4 DEF Complaint
<1>6. m \in Complaint
  <2>1. [t EXCEPT !.status = to] \in Complaint
    BY DEF Complaint
  <2>2. [t EXCEPT !.status = to, !.resolvedAt = date] \in Complaint
    BY <1>2, <2>1 DEF Complaint
  <2>3. [t EXCEPT !.status = to, !.resolvedAt = date, !.reopenCount = count] \in Complaint
    BY <1>2, <2>2 DEF Complaint
  <2>. QED BY <1>3, <1>4, <2>3 DEF Complaint
<1>7. Move(t, m, by) = e
  BY <1>5 DEF Move
<1>. QED BY <1>5, <1>6, <1>7 DEF date, moves, m

LEMMA UpdatedTasks ==
  ASSUME NEW c \in Complaints, NEW t \in Complaint, t.status \in COMPLAINT_STATUSES,
         t.owner \in Drivers
  PROVE  complaintUpdated(c, t) \subseteq Task
<1>1. Len(t.history) \in Nat
  BY LenProperties DEF Complaint
<1>2. KeyWithLength(c, t.status, t) \in TaskKey
  BY <1>1 DEF KeyWithLength, TaskKey
<1>3. (t.status = "resolved" => t.resolution # "long") \in BOOLEAN
  BY Zenon
<1>4. {t.owner} \in SUBSET Users
  BY DEF Users
<1>. HIDE DEF TaskKey
<1>. QED BY <1>2, <1>3, <1>4 DEF complaintUpdated, NotifyUser, Task

LEMMA CompanyTasks ==
  ASSUME NEW co \in Companies \cup {NoCompany}, NEW key \in TaskKey, NEW fits \in BOOLEAN
  PROVE  NotifyCompany(co, key, fits) \in Task
BY DEF NotifyCompany, Task, NoCompany

LEMMA CreatedTasks ==
  ASSUME NEW c \in Complaints, NEW t \in Complaint
  PROVE  /\ complaintCreated(c, t) \subseteq Task
         /\ \A task \in complaintCreated(c, t) : task.key.what = "created"
<1>1. Key(c, "created") \in TaskKey /\ Key(c, "created").what = "created"
  BY DEF Key, TaskKey
<1>2. t.company \in Companies \cup {NoCompany} /\ TRUE \in BOOLEAN
  BY DEF Complaint
<1>3. \A task \in complaintCreated(c, t) : task = NotifyCompany(t.company, Key(c, "created"), TRUE)
  BY DEF complaintCreated
<1>4. NotifyCompany(t.company, Key(c, "created"), TRUE) \in Task
  BY <1>1, <1>2, CompanyTasks
<1>5. NotifyCompany(t.company, Key(c, "created"), TRUE).key = Key(c, "created")
  BY DEF NotifyCompany
<1>. QED BY <1>1, <1>3, <1>4, <1>5

LEMMA ReopenedTasks ==
  ASSUME NEW c \in Complaints, NEW t \in Complaint, NEW reason
  PROVE  /\ complaintReopened(c, t, reason) \subseteq Task
         /\ \A task \in complaintReopened(c, t, reason) : task.key.what = "reopened"
<1>. DEFINE key == KeyWithLength(c, "reopened", t)
<1>1. key \in TaskKey /\ key.what = "reopened"
  <2>1. Len(t.history) \in Nat
    BY LenProperties DEF Complaint
  <2>. QED BY <2>1 DEF KeyWithLength, TaskKey
<1>. HIDE DEF key
<1>2. t.company \in Companies \cup {NoCompany} /\ (reason # "long") \in BOOLEAN
  BY Zenon DEF Complaint
<1>3. \A task \in complaintReopened(c, t, reason) : task = NotifyCompany(t.company, key, reason # "long")
  BY DEF complaintReopened, key
<1>4. NotifyCompany(t.company, key, reason # "long") \in Task
  BY <1>1, <1>2, CompanyTasks
<1>5. NotifyCompany(t.company, key, reason # "long").key = key
  BY DEF NotifyCompany
<1>. QED BY <1>1, <1>3, <1>4, <1>5

\* A ticket that was just filed.
Fresh(t) == t \in Complaint /\ t.status = "open" /\ t.history = <<>> /\ Consistent(t)

LEMMA FiledTicket ==
  ASSUME NEW u \in Drivers, NEW co \in Companies \cup {NoCompany}, NEW cat \in Categories,
         NEW priority \in {"low", "medium", "high"}, NEW original \in Complaints \cup {NoComplaint}
  PROVE  Fresh(Filed(u, co, cat, priority, original))
<1>1. cat \in COMPLAINT_CATEGORIES
  BY StoredAssumption
<1>. DEFINE t == Filed(u, co, cat, priority, original)
<1>2. /\ t.status = "open" /\ t.owner = u /\ t.history = <<>> /\ t.resolvedAt = 0
  BY DEF Filed, Absent
<1>3. t \in Complaint
  <2>1. [Absent EXCEPT !.status = "open"] \in Complaint
    BY AbsentTyped DEF Complaint, COMPLAINT_STATUSES
  <2>2. [Absent EXCEPT !.status = "open", !.owner = u] \in Complaint
    BY <2>1 DEF Complaint
  <2>3. [Absent EXCEPT !.status = "open", !.owner = u, !.company = co] \in Complaint
    BY <2>2 DEF Complaint
  <2>4. [Absent EXCEPT !.status = "open", !.owner = u, !.company = co, !.category = cat]
          \in Complaint
    BY <1>1, <2>3 DEF Complaint
  <2>5. [Absent EXCEPT !.status = "open", !.owner = u, !.company = co, !.category = cat,
                       !.priority = priority] \in Complaint
    BY <2>4 DEF Complaint
  <2>. QED BY <2>5 DEF Filed, Complaint
<1>. HIDE DEF t
<1>4. Consistent(t)
  BY <1>2, EmptySeq DEF Consistent
<1>. QED BY <1>2, <1>3, <1>4 DEF t, Fresh

-----------------------------------------------------------------------------
(* The invariant *)

\* A copy of a ticket that has only moved on since.
CopyOf(c, old) ==
  /\ Exists(c)
  /\ old.status # "none" /\ Consistent(old)
  /\ old.owner = complaints[c].owner
  /\ Len(old.history) <= Len(complaints[c].history)
  /\ old.resolution # "none" => complaints[c].resolution # "none"

\* The move of a member of staff or of the sweep comes with the trigger that tells the driver.
Announced(c, old, new, tasks) ==
  new.history # old.history /\ Last(new.history).by \notin Drivers =>
    \E t \in tasks : /\ t.key = [ref |-> c, what |-> new.status, n |-> Len(new.history)]
                     /\ (new.status = "resolved" => new.resolution # "long") => t.fits

\* A trigger about a move addresses the ticket's driver.
OfOwner(t) ==
  t.key.what \in COMPLAINT_STATUSES =>
    /\ t.step = "create"
    /\ Exists(t.key.ref) /\ t.to = {complaints[t.key.ref].owner}

Saving(r) == r.kind = "save" =>
  /\ r.c \in Complaints
  /\ CopyOf(r.c, r.old) /\ Change(r.old, r.new)
  /\ Announced(r.c, r.old, r.new, r.tasks)

Creating(r) == r.kind = "create" =>
  /\ r.c \in Complaints /\ ~Exists(r.c)
  /\ r.new.status # "none" /\ Consistent(r.new) /\ r.new.history = <<>>

TicketsInv == \A c \in Complaints : Consistent(complaints[c])
HandlersInv ==
  /\ \A p \in Slots : Saving(request[p]) /\ Creating(request[p])
  /\ \A p, q \in Slots :
       request[p].kind = "create" /\ request[q].kind = "create" /\ request[p].c = request[q].c
         => p = q
DueInv == \A c \in Complaints :
            due[c] # Absent => CopyOf(c, due[c]) /\ due[c].status = "resolved"
TasksInv ==
  /\ \A t \in notifying : OfOwner(t)
  /\ \A p \in Slots : \A t \in request[p].tasks : OfOwner(t)

Inv == TicketsInv /\ HandlersInv /\ DueInv /\ TasksInv

LEMMA IdleTyped == Idle \in Handler /\ Idle.kind = "idle" /\ Idle.tasks = {}
BY AbsentTyped DEF Idle, Handler

LEMMA TicketTyped ==
  ASSUME TypeInv, NEW c \in Complaints
  PROVE  /\ complaints[c] \in Complaint /\ due[c] \in Complaint
         /\ complaints[c].history \in Seq(Entry) /\ Len(complaints[c].history) \in Nat
         /\ due[c].history \in Seq(Entry) /\ Len(due[c].history) \in Nat
<1>1. complaints[c] \in Complaint /\ due[c] \in Complaint
  BY DEF TypeInv
<1>2. \A t \in Complaint : t.history \in Seq(Entry)
  BY DEF Complaint
<1>. QED BY <1>1, <1>2, LenProperties

LEMMA TicketExists ==
  ASSUME TypeInv, Inv, NEW c \in Complaints, Exists(c)
  PROVE  /\ complaints[c].status \in COMPLAINT_STATUSES /\ complaints[c].owner \in Drivers
         /\ CopyOf(c, complaints[c])
<1>1. complaints[c] \in Complaint /\ complaints[c] # Absent /\ Consistent(complaints[c])
  BY TicketTyped, AbsentTyped DEF Exists, Inv, TicketsInv
<1>2. complaints[c].status \in COMPLAINT_STATUSES /\ complaints[c].owner \in Drivers
  BY <1>1 DEF Consistent, Complaint, Exists
<1>. QED BY <1>1, <1>2, TicketTyped DEF CopyOf, Exists

\* What every handler that has read a ticket shares.
LEMMA DecideStep ==
  ASSUME TypeInv, Inv, NEW p \in Slots, NEW c \in Complaints, Exists(c),
         NEW new \in Complaint, NEW tasks \in SUBSET Task,
         Change(complaints[c], new), Announced(c, complaints[c], new, tasks),
         \A t \in tasks : OfOwner(t),
         Decide(p, c, new, tasks)
  PROVE  TypeInv' /\ Inv'
<1>. DEFINE h == [kind |-> "save", c |-> c, old |-> complaints[c], new |-> new, tasks |-> tasks]
<1>1. /\ request' = [request EXCEPT ![p] = h] /\ requests' = requests + 1
      /\ UNCHANGED <<complaints, due, overdue, inbox, notifying>>
  BY DEF Decide, Request, notificationVars
<1>2. h \in Handler /\ h.kind = "save" /\ h.c = c /\ h.old = complaints[c] /\ h.new = new
      /\ h.tasks = tasks
  BY TicketTyped DEF Handler
<1>3. CopyOf(c, complaints[c])
  BY TicketExists
<1>. HIDE DEF h
<1>4. TypeInv'
  BY <1>1, <1>2 DEF TypeInv
<1>5. /\ request'[p] = h /\ \A q \in Slots : q # p => request'[q] = request[q]
  BY <1>1 DEF TypeInv
<1>6. Saving(h) /\ Creating(h)
  BY <1>2, <1>3 DEF Saving, Creating
<1>7. \A q \in Slots : Saving(request'[q]) /\ Creating(request'[q])
  BY <1>5, <1>6 DEF Inv, HandlersInv
<1>8. HandlersInv'
  <2>1. \A q \in Slots : (Saving(request[q]) /\ Creating(request[q]))'
    BY <1>1, <1>7 DEF Saving, Creating, CopyOf, Exists
  <2>2. \A q, o \in Slots :
          request'[q].kind = "create" /\ request'[o].kind = "create" /\ request'[q].c = request'[o].c
            => q = o
    BY <1>2, <1>5 DEF Inv, HandlersInv
  <2>. QED BY <2>1, <2>2 DEF HandlersInv
<1>9. TicketsInv' /\ DueInv'
  BY <1>1 DEF Inv, TicketsInv, DueInv, CopyOf, Exists
<1>10. TasksInv'
  BY <1>1, <1>2, <1>5 DEF Inv, TasksInv, OfOwner, Exists
<1>. QED BY <1>4, <1>8, <1>9, <1>10 DEF Inv

-----------------------------------------------------------------------------
(* Writing a ticket *)

\* What no write undoes.
Grown ==
  \A c \in Complaints :
    Exists(c) => /\ complaints'[c].status # "none" /\ complaints'[c].owner = complaints[c].owner
                 /\ complaints[c].resolution # "none" => complaints'[c].resolution # "none"
HistoryKept ==
  \A c \in Complaints :
    /\ Len(complaints[c].history) <= Len(complaints'[c].history)
    /\ SubSeq(complaints'[c].history, 1, Len(complaints[c].history)) = complaints[c].history

\* The driver is to hear of the entry e, and does.
ForDriver(e) == e.by \notin Drivers /\ Fits(e)
Hears(c, e) ==
  \/ Told(complaints[c].owner, EventOf(c, e))
  \/ \E t \in notifying : t.key = EventOf(c, e) /\ t.fits

\* Hears, of the state a step leads to.
HearsThen(c, e) ==
  \/ \E row \in inbox' : row.user = complaints'[c].owner /\ row.key = EventOf(c, e)
  \/ \E t \in notifying' : t.key = EventOf(c, e) /\ t.fits

LEMMA GrownKeeps ==
  ASSUME TypeInv, complaints' \in [Complaints -> Complaint], Grown, HistoryKept
  PROVE  /\ \A c \in Complaints, old \in Complaint : CopyOf(c, old) => CopyOf(c, old)'
         /\ \A t \in Task : OfOwner(t) => OfOwner(t)'
<1>1. ASSUME NEW c \in Complaints, NEW old \in Complaint, CopyOf(c, old)
      PROVE  CopyOf(c, old)'
  <2>1. /\ Len(old.history) \in Nat /\ Len(complaints[c].history) \in Nat
        /\ Len(complaints'[c].history) \in Nat
    <3>1. complaints'[c] \in Complaint
      OBVIOUS
    <3>2. \A t \in Complaint : t.history \in Seq(Entry)
      BY DEF Complaint
    <3>. QED BY <3>1, <3>2, TicketTyped, LenProperties
  <2>. QED BY <1>1, <2>1 DEF CopyOf, Exists, Grown, HistoryKept
<1>2. ASSUME NEW t \in Task, OfOwner(t)
      PROVE  OfOwner(t)'
  <2>1. t.key.ref \in Complaints
    BY DEF Task, TaskKey
  <2>. QED BY <1>2, <2>1 DEF OfOwner, Exists, Grown
<1>. QED BY <1>1, <1>2

LEMMA HistoryTyped ==
  ASSUME NEW t \in Complaint
  PROVE  /\ t.history \in Seq(Entry) /\ Len(t.history) \in Nat
         /\ SubSeq(t.history, 1, Len(t.history)) = t.history
<1>1. t.history \in Seq(Entry)
  BY DEF Complaint
<1>. QED BY <1>1, LenProperties, SubSeqFull

\* A ticket that did not exist is written.
LEMMA FileStep ==
  ASSUME TypeInv, Inv, NEW c \in Complaints, ~Exists(c), NEW new \in Complaint,
         new.status # "none", Consistent(new), new.history = <<>>,
         complaints' = [complaints EXCEPT ![c] = new],
         inbox' = inbox, notifying \subseteq notifying'
  PROVE  /\ complaints' \in [Complaints -> Complaint] /\ TicketsInv' /\ Grown /\ HistoryKept
         /\ \A d \in Complaints : d # c => complaints'[d] = complaints[d]
         /\ EveryMoveIsTold => EveryMoveIsTold'
<1>1. /\ complaints' \in [Complaints -> Complaint] /\ complaints'[c] = new
      /\ \A d \in Complaints : d # c => complaints'[d] = complaints[d]
  BY DEF TypeInv
<1>2. complaints[c].history = <<>>
  BY AbsentTyped DEF Inv, TicketsInv, Consistent, Exists
<1>3. TicketsInv' /\ Grown
  BY <1>1 DEF Inv, TicketsInv, Grown, Exists
<1>4. HistoryKept
  <2>1. ASSUME NEW d \in Complaints, d # c
        PROVE  /\ Len(complaints[d].history) <= Len(complaints'[d].history)
               /\ SubSeq(complaints'[d].history, 1, Len(complaints[d].history)) = complaints[d].history
    BY <1>1, <2>1, TicketTyped, HistoryTyped
  <2>2. /\ Len(complaints[c].history) <= Len(complaints'[c].history)
        /\ SubSeq(complaints'[c].history, 1, Len(complaints[c].history)) = complaints[c].history
    <3>1. Len(<<>>) = 0 /\ SubSeq(<<>>, 1, 0) = <<>>
      BY SubSeqEmpty
    <3>2. complaints'[c].history = <<>>
      BY <1>1
    <3>. QED BY <1>2, <3>1, <3>2
  <2>. QED BY <2>1, <2>2 DEF HistoryKept
<1>5. ASSUME EveryMoveIsTold PROVE EveryMoveIsTold'
  <2>1. ASSUME NEW d \in Complaints, NEW i \in 1 .. Len(complaints'[d].history),
               ForDriver(complaints'[d].history[i])
        PROVE  HearsThen(d, complaints'[d].history[i])
    <3>1. d # c
      BY <1>1, EmptySeq
    <3>2. complaints'[d] = complaints[d]
      BY <1>1, <3>1
    <3>3. Hears(d, complaints[d].history[i])
      BY <1>5, <2>1, <3>2 DEF EveryMoveIsTold, Hears, ForDriver
    <3>. QED BY <3>2, <3>3 DEF Hears, HearsThen, Told
  <2>. QED BY <2>1 DEF EveryMoveIsTold, Hears, HearsThen, ForDriver, Told
<1>. QED BY <1>1, <1>3, <1>4, <1>5

\* A changed copy is saved over its ticket.
LEMMA StoreStep ==
  ASSUME TypeInv, Inv, NEW c \in Complaints, NEW old \in Complaint, NEW new \in Complaint,
         NEW tasks \in SUBSET Task,
         CopyOf(c, old), Change(old, new), Announced(c, old, new, tasks),
         complaints' = [complaints EXCEPT ![c] = Merged(@, old, new)],
         inbox' = inbox, notifying' = notifying \cup tasks
  PROVE  /\ complaints' \in [Complaints -> Complaint] /\ TicketsInv' /\ Grown /\ HistoryKept
         /\ \A d \in Complaints : d # c => complaints'[d] = complaints[d]
         /\ EveryMoveIsTold => EveryMoveIsTold'
<1>. DEFINE stored == complaints[c]
            m == Merged(stored, old, new)
<1>0. /\ stored \in Complaint /\ Consistent(stored) /\ stored.status # "none"
      /\ Consistent(old) /\ old.status # "none" /\ Len(old.history) <= Len(stored.history)
      /\ old.resolution # "none" => stored.resolution # "none"
  BY TicketTyped DEF Inv, TicketsInv, CopyOf, Exists
<1>1. /\ m \in Complaint /\ Consistent(m)
      /\ m.status # "none" /\ m.owner = stored.owner
      /\ stored.resolution # "none" => m.resolution # "none"
      /\ SubSeq(m.history, 1, Len(stored.history)) = stored.history
      /\ \/ new.history = old.history /\ m.history = stored.history
         \/ /\ Len(m.history) = Len(stored.history) + 1
            /\ \A i \in 1 .. Len(stored.history) : m.history[i] = stored.history[i]
            /\ m.history[Len(stored.history) + 1] = Last(new.history)
            /\ Recorded(new) /\ new.status \in COMPLAINT_STATUSES
            /\ Len(new.history) = Len(old.history) + 1
  BY <1>0, SaveTicket
<1>. HIDE DEF m
<1>2. /\ complaints' \in [Complaints -> Complaint] /\ complaints'[c] = m
      /\ \A d \in Complaints : d # c => complaints'[d] = complaints[d]
  BY <1>1 DEF TypeInv, m
<1>3. TicketsInv' /\ Grown
  BY <1>1, <1>2 DEF Inv, TicketsInv, Grown, Exists
<1>4. HistoryKept
  <2>1. ASSUME NEW d \in Complaints, d # c
        PROVE  /\ Len(complaints[d].history) <= Len(complaints'[d].history)
               /\ SubSeq(complaints'[d].history, 1, Len(complaints[d].history)) = complaints[d].history
    BY <1>2, <2>1, TicketTyped, HistoryTyped
  <2>2. Len(stored.history) <= Len(m.history)
    BY <1>0, <1>1, HistoryTyped
  <2>. QED BY <1>1, <1>2, <2>1, <2>2 DEF HistoryKept
<1>5. ASSUME EveryMoveIsTold PROVE EveryMoveIsTold'
  <2>1. ASSUME NEW d \in Complaints, NEW i \in 1 .. Len(complaints'[d].history),
               ForDriver(complaints'[d].history[i])
        PROVE  HearsThen(d, complaints'[d].history[i])
    <3>0. complaints'[d].owner = complaints[d].owner
      BY <1>1, <1>2
    <3>1. CASE i \in 1 .. Len(complaints[d].history) /\ complaints'[d].history[i] = complaints[d].history[i]
      <4>1. Hears(d, complaints[d].history[i])
        BY <1>5, <2>1, <3>1 DEF EveryMoveIsTold, Hears, ForDriver
      <4>. QED BY <3>0, <3>1, <4>1 DEF Hears, HearsThen, Told
    <3>2. CASE ~(i \in 1 .. Len(complaints[d].history) /\ complaints'[d].history[i] = complaints[d].history[i])
      <4>1. d = c
        BY <1>2, <3>2
      <4>2. /\ Len(stored.history) \in Nat /\ Len(old.history) \in Nat
        BY <1>0, HistoryTyped
      <4>3. /\ i = Len(stored.history) + 1 /\ m.history[i] = Last(new.history)
            /\ Recorded(new)
            /\ Len(new.history) = Len(old.history) + 1 /\ new.history # old.history
        BY <1>1, <1>2, <2>1, <3>2, <4>1, <4>2
      <4>4. /\ Last(new.history).by \notin Drivers
            /\ new.status = "resolved" => new.resolution # "long"
        BY <1>2, <2>1, <4>1, <4>3 DEF ForDriver, Fits, Recorded
      <4>5. PICK t \in tasks : /\ t.key = [ref |-> c, what |-> new.status, n |-> Len(new.history)]
                              /\ t.fits
        BY <4>3, <4>4 DEF Announced
      <4>6. EventOf(d, complaints'[d].history[i])
              = [ref |-> c, what |-> new.status, n |-> Len(new.history)]
        BY <1>2, <4>1, <4>3 DEF EventOf, Recorded
      <4>7. t \in notifying'
        BY <1>2
      <4>. QED BY <4>5, <4>6, <4>7 DEF HearsThen
    <3>. QED BY <3>1, <3>2
  <2>. QED BY <2>1 DEF EveryMoveIsTold, Hears, HearsThen, ForDriver, Told
<1>. QED BY <1>1, <1>2, <1>3, <1>4, <1>5

-----------------------------------------------------------------------------
(* The steps that write tickets *)

\* What a step keeps.
Kept ==
  /\ TypeInv' /\ Inv' /\ HistoryKept
  /\ EveryMoveIsTold => EveryMoveIsTold'

LEMMA CreateStep ==
  ASSUME TypeInv, Inv, NEW u \in Drivers, NEW c \in Complaints, createComplaint(u, c)
  PROVE  Kept
<1>1. PICK co \in resolveAnchor, cat \in Categories, failed \in BOOLEAN :
        LET t == Filed(u, co, cat, initialPriority(cat, failed /\ co # NoCompany, FALSE),
                       NoComplaint)
        IN /\ complaints' = [complaints EXCEPT ![c] = t]
           /\ notifying' = notifying \cup complaintCreated(c, t)
  BY DEF createComplaint
<1>. DEFINE t == Filed(u, co, cat, initialPriority(cat, failed /\ co # NoCompany, FALSE),
                       NoComplaint)
<1>2. t \in Complaint /\ t.status # "none" /\ t.history = <<>> /\ Consistent(t)
  <2>. DEFINE priority == initialPriority(cat, failed /\ co # NoCompany, FALSE)
  <2>1. cat \in COMPLAINT_CATEGORIES
    BY StoredAssumption
  <2>2. priority \in {"low", "medium", "high"}
    BY <2>1 DEF initialPriority, DEFAULT_PRIORITY_BY_CATEGORY, COMPLAINT_CATEGORIES
  <2>3. co \in Companies \cup {NoCompany} /\ NoComplaint \in Complaints \cup {NoComplaint}
    BY DEF resolveAnchor
  <2>. HIDE DEF priority
  <2>4. Fresh(Filed(u, co, cat, priority, NoComplaint))
    BY <2>2, <2>3, FiledTicket
  <2>. QED BY <2>4 DEF priority, Fresh
<1>. HIDE DEF t
<1>3. /\ complaints' = [complaints EXCEPT ![c] = t]
      /\ notifying' = notifying \cup complaintCreated(c, t)
  BY <1>1 DEF t
<1>4. /\ ~Exists(c) /\ \A p \in Slots : request[p].c # c
      /\ UNCHANGED <<request, due, overdue, inbox>> /\ requests' = requests + 1
  BY DEF createComplaint, Request
<1>5. /\ complaints' \in [Complaints -> Complaint] /\ TicketsInv' /\ Grown /\ HistoryKept
      /\ \A d \in Complaints : d # c => complaints'[d] = complaints[d]
      /\ EveryMoveIsTold => EveryMoveIsTold'
  BY <1>2, <1>3, <1>4, FileStep
<1>6. /\ complaintCreated(c, t) \subseteq Task
      /\ \A task \in complaintCreated(c, t) : task.key.what = "created"
  BY <1>2, CreatedTasks
<1>7. TypeInv'
  BY <1>3, <1>4, <1>5, <1>6 DEF TypeInv
<1>8. /\ \A d \in Complaints, old \in Complaint : CopyOf(d, old) => CopyOf(d, old)'
      /\ \A task \in Task : OfOwner(task) => OfOwner(task)'
  BY <1>5, GrownKeeps
<1>9. HandlersInv'
  <2>1. ASSUME NEW p \in Slots PROVE (Saving(request[p]) /\ Creating(request[p]))'
    <3>1. /\ Saving(request[p]) /\ Creating(request[p]) /\ request[p].c # c
          /\ request[p] \in Handler /\ request' = request
      BY <1>4 DEF Inv, HandlersInv, TypeInv
    <3>2. request[p].old \in Complaint
      BY <3>1 DEF Handler
    <3>3. Saving(request[p])'
      BY <1>8, <3>1, <3>2 DEF Saving, CopyOf, Exists, Announced
    <3>4. Creating(request[p])'
      BY <1>5, <3>1 DEF Creating, Exists
    <3>. QED BY <3>3, <3>4
  <2>. QED BY <1>4, <2>1 DEF Inv, HandlersInv
<1>10. DueInv'
  BY <1>4, <1>8, TicketTyped DEF Inv, DueInv, CopyOf, Exists
<1>11. TasksInv'
  <2>1. \A task \in notifying' : OfOwner(task)'
    BY <1>3, <1>6, <1>8 DEF Inv, TasksInv, OfOwner, COMPLAINT_STATUSES, TypeInv, Exists
  <2>2. \A p \in Slots : request[p].tasks \subseteq Task
    BY DEF TypeInv, Handler
  <2>3. \A p \in Slots : \A task \in request'[p].tasks : OfOwner(task)'
    BY <1>4, <1>8, <2>2 DEF Inv, TasksInv, OfOwner, Exists
  <2>. QED BY <2>1, <2>3 DEF TasksInv
<1>. QED BY <1>5, <1>7, <1>9, <1>10, <1>11 DEF Kept, Inv

\* A follow-up has been decided on, and will be filed.
LEMMA FollowUpStep ==
  ASSUME TypeInv, Inv, NEW p \in Slots, NEW u \in Drivers, NEW c \in Complaints,
         NEW original \in Complaints, createFollowUp(p, u, c, original)
  PROVE  TypeInv' /\ Inv' /\ UNCHANGED <<complaints, notificationVars>>
<1>1. PICK cat \in Categories :
        LET t == Filed(u, complaints[original].company, cat, initialPriority(cat, FALSE, TRUE),
                       original)
        IN request' = [request EXCEPT ![p] =
             [kind |-> "create", c |-> c, old |-> Absent, new |-> t,
              tasks |-> complaintCreated(c, t)]]
  BY DEF createFollowUp
<1>. DEFINE t == Filed(u, complaints[original].company, cat, initialPriority(cat, FALSE, TRUE),
                       original)
<1>2. t \in Complaint /\ t.status # "none" /\ t.history = <<>> /\ Consistent(t)
  <2>. DEFINE priority == initialPriority(cat, FALSE, TRUE)
  <2>1. priority \in {"low", "medium", "high"}
    BY DEF initialPriority
  <2>2. complaints[original].company \in Companies \cup {NoCompany}
    BY TicketTyped DEF Complaint
  <2>. HIDE DEF priority
  <2>3. Fresh(Filed(u, complaints[original].company, cat, priority, original))
    BY <2>1, <2>2, FiledTicket
  <2>. QED BY <2>3 DEF priority, Fresh
<1>. HIDE DEF t
<1>. DEFINE h == [kind |-> "create", c |-> c, old |-> Absent, new |-> t,
                  tasks |-> complaintCreated(c, t)]
<1>3. request' = [request EXCEPT ![p] = h]
  BY <1>1 DEF t
<1>4. /\ ~Exists(c) /\ \A q \in Slots : request[q].c # c
      /\ UNCHANGED <<complaints, due, overdue, inbox, notifying>> /\ requests' = requests + 1
  BY DEF createFollowUp, Request, notificationVars
<1>5. /\ complaintCreated(c, t) \subseteq Task
      /\ \A task \in complaintCreated(c, t) : task.key.what = "created"
  BY <1>2, CreatedTasks
<1>6. h \in Handler /\ h.kind = "create" /\ h.c = c /\ h.new = t /\ h.tasks = complaintCreated(c, t)
  BY <1>2, <1>5, AbsentTyped DEF Handler
<1>. HIDE DEF h
<1>7. TypeInv'
  BY <1>3, <1>4, <1>6 DEF TypeInv
<1>8. /\ request'[p] = h /\ \A q \in Slots : q # p => request'[q] = request[q]
  BY <1>3 DEF TypeInv
<1>9. Saving(h) /\ Creating(h)
  BY <1>2, <1>4, <1>6 DEF Saving, Creating
<1>10. HandlersInv'
  <2>1. \A q \in Slots : Saving(request'[q]) /\ Creating(request'[q])
    BY <1>8, <1>9 DEF Inv, HandlersInv
  <2>2. \A q \in Slots : (Saving(request[q]) /\ Creating(request[q]))'
    BY <1>4, <2>1 DEF Saving, Creating, CopyOf, Exists
  <2>3. \A q, o \in Slots :
          request'[q].kind = "create" /\ request'[o].kind = "create" /\ request'[q].c = request'[o].c
            => q = o
    BY <1>4, <1>6, <1>8 DEF Inv, HandlersInv
  <2>. QED BY <2>2, <2>3 DEF HandlersInv
<1>11. TicketsInv' /\ DueInv'
  BY <1>4 DEF Inv, TicketsInv, DueInv, CopyOf, Exists
<1>12. TasksInv'
  <2>1. \A task \in h.tasks : task.key.what \notin COMPLAINT_STATUSES
    BY <1>5, <1>6 DEF COMPLAINT_STATUSES
  <2>. QED BY <1>4, <1>8, <2>1 DEF Inv, TasksInv, OfOwner, Exists
<1>. QED BY <1>4, <1>7, <1>10, <1>11, <1>12 DEF Inv, notificationVars

LEMMA NoTasks ==
  ASSUME NEW c, NEW old, NEW new, new.history = old.history
  PROVE  Announced(c, old, new, {}) /\ {} \in SUBSET Task /\ \A t \in {} : OfOwner(t)
BY DEF Announced

LEMMA UpdateStep ==
  ASSUME TypeInv, Inv, NEW p \in Slots, NEW u, NEW c \in Complaints, updateComplaint(p, u, c)
  PROVE  TypeInv' /\ Inv' /\ UNCHANGED <<complaints, notificationVars>>
<1>. DEFINE t == complaints[c]
<1>1. Exists(c) /\ t \in Complaint
  BY TicketTyped DEF updateComplaint, Read
<1>2. ASSUME NEW text \in Texts, Decide(p, c, [t EXCEPT !.resolution = text], {})
      PROVE  TypeInv' /\ Inv' /\ UNCHANGED <<complaints, notificationVars>>
  <2>. DEFINE new == [t EXCEPT !.resolution = text]
  <2>1. new \in Complaint /\ new.history = t.history /\ new.status = t.status
        /\ new.resolvedAt = t.resolvedAt /\ new.owner = t.owner /\ new.resolution = text
    BY <1>1 DEF Complaint
  <2>2. text # "none"
    BY ComplaintsAssumption
  <2>. HIDE DEF new
  <2>3. Change(t, new) /\ Announced(c, t, new, {}) /\ {} \in SUBSET Task /\ \A x \in {} : OfOwner(x)
    BY <2>1, <2>2, NoTasks DEF Change
  <2>4. Decide(p, c, new, {})
    BY <1>2 DEF new
  <2>. QED BY <1>1, <2>1, <2>3, <2>4, DecideStep DEF Decide
<1>3. ASSUME NEW pr \in Priorities, Decide(p, c, [t EXCEPT !.priority = pr], {})
      PROVE  TypeInv' /\ Inv' /\ UNCHANGED <<complaints, notificationVars>>
  <2>. DEFINE new == [t EXCEPT !.priority = pr]
  <2>0. pr \in {"low", "medium", "high"}
    BY StoredAssumption
  <2>1. new \in Complaint /\ new.history = t.history /\ new.status = t.status
        /\ new.resolvedAt = t.resolvedAt /\ new.owner = t.owner /\ new.resolution = t.resolution
    BY <1>1, <2>0 DEF Complaint
  <2>. HIDE DEF new
  <2>2. Change(t, new) /\ Announced(c, t, new, {}) /\ {} \in SUBSET Task /\ \A x \in {} : OfOwner(x)
    BY <2>1, NoTasks DEF Change
  <2>3. Decide(p, c, new, {})
    BY <1>3 DEF new
  <2>. QED BY <1>1, <2>1, <2>2, <2>3, DecideStep DEF Decide
<1>. QED BY <1>2, <1>3 DEF updateComplaint

LEMMA AssignStep ==
  ASSUME TypeInv, Inv, NEW p \in Slots, NEW u, NEW c \in Complaints, assignComplaint(p, u, c)
  PROVE  TypeInv' /\ Inv' /\ UNCHANGED <<complaints, notificationVars>>
<1>. DEFINE t == complaints[c]
<1>1. Exists(c) /\ t \in Complaint
  BY TicketTyped DEF assignComplaint, Read
<1>2. PICK a \in Staff \cup SuperAdmins \cup {Nobody} :
        Decide(p, c, [t EXCEPT !.assignedTo = a], {})
  BY DEF assignComplaint
<1>. DEFINE new == [t EXCEPT !.assignedTo = a]
<1>3. new \in Complaint /\ new.history = t.history /\ new.status = t.status
      /\ new.resolvedAt = t.resolvedAt /\ new.owner = t.owner /\ new.resolution = t.resolution
  <2>1. a \in Users \cup {Nobody}
    BY DEF Users
  <2>. QED BY <1>1, <2>1 DEF Complaint
<1>. HIDE DEF new
<1>4. Change(t, new) /\ Announced(c, t, new, {}) /\ {} \in SUBSET Task /\ \A x \in {} : OfOwner(x)
  BY <1>3, NoTasks DEF Change
<1>5. Decide(p, c, new, {})
  BY <1>2 DEF new
<1>. QED BY <1>1, <1>3, <1>4, <1>5, DecideStep DEF Decide

LEMMA AnswerStep ==
  ASSUME TypeInv, Inv, NEW p \in Slots, NEW u \in Drivers, NEW c \in Complaints,
         confirmComplaintResolved(p, u, c) \/ reopenComplaint(p, u, c)
  PROVE  TypeInv' /\ Inv' /\ UNCHANGED <<complaints, notificationVars>>
<1>. DEFINE t == complaints[c]
<1>1. Exists(c) /\ t \in Complaint /\ t.status = "resolved" /\ u \in Users \cup {Nobody}
  BY TicketTyped DEF confirmComplaintResolved, reopenComplaint, Read, MayAnswer, Users
<1>2. ASSUME NEW to \in {"open", "closed"}, NEW tasks \in SUBSET Task,
             \A task \in tasks : task.key.what = "reopened",
             Decide(p, c, applyTransition(t, to, u), tasks)
      PROVE  TypeInv' /\ Inv' /\ UNCHANGED <<complaints, notificationVars>>
  <2>. DEFINE new == applyTransition(t, to, u)
              e == Move(t, new, u)
  <2>0. to \in COMPLAINT_STATUSES /\ t.status \in COMPLAINT_STATUSES
    BY <1>1 DEF COMPLAINT_STATUSES
  <2>1. /\ new \in Complaint /\ new.status = to /\ new.owner = t.owner
        /\ new.resolution = t.resolution /\ new.resolvedAt \in {0, t.resolvedAt}
        /\ new.history = Append(t.history, e)
    BY <1>1, <2>0, TransitionFields
  <2>. HIDE DEF new
  <2>2. Change(t, new)
    BY <1>1, <2>0, <2>1 DEF Change
  <2>3. Announced(c, t, new, tasks)
    <3>1. e \in Entry /\ e.by = u
      <4>1. new.resolution \in {"none"} \cup Texts /\ Len(t.history) \in Nat
        BY <1>1, <2>1, HistoryTyped DEF Complaint
      <4>. QED BY <1>1, <2>0, <2>1, <4>1 DEF Entry, Move
    <3>. HIDE DEF e
    <3>2. Last(new.history) = e
      BY <1>1, <2>1, <3>1, HistoryTyped, AppendProperties DEF Last
    <3>. QED BY <3>1, <3>2 DEF Announced
  <2>4. \A task \in tasks : OfOwner(task)
    BY <1>2 DEF OfOwner, COMPLAINT_STATUSES
  <2>5. Decide(p, c, new, tasks)
    BY <1>2 DEF new
  <2>. QED BY <1>1, <2>1, <2>2, <2>3, <2>4, <2>5, DecideStep DEF Decide
<1>3. CASE confirmComplaintResolved(p, u, c)
  BY <1>2, <1>3 DEF confirmComplaintResolved
<1>4. CASE reopenComplaint(p, u, c)
  <2>1. PICK reason \in Texts :
          Decide(p, c, applyTransition(t, "open", u),
                 complaintReopened(c, applyTransition(t, "open", u), reason))
    BY <1>4 DEF reopenComplaint
  <2>2. applyTransition(t, "open", u) \in Complaint
    BY <1>1, TransitionFields DEF COMPLAINT_STATUSES
  <2>3. /\ complaintReopened(c, applyTransition(t, "open", u), reason) \subseteq Task
        /\ \A task \in complaintReopened(c, applyTransition(t, "open", u), reason) :
              task.key.what = "reopened"
    BY <2>2, ReopenedTasks
  <2>. QED BY <1>2, <2>1, <2>3
<1>. QED BY <1>3, <1>4

\* The event of a move, as the handler that made it tells it.
LEMMA UpdatedAnnounces ==
  ASSUME TypeInv, Inv, NEW c \in Complaints, Exists(c), NEW old \in Complaint,
         NEW new \in Complaint, new.status \in COMPLAINT_STATUSES,
         new.owner = complaints[c].owner
  PROVE  /\ complaintUpdated(c, new) \in SUBSET Task
         /\ Announced(c, old, new, complaintUpdated(c, new))
         /\ \A t \in complaintUpdated(c, new) : OfOwner(t)
<1>. DEFINE fits == new.status = "resolved" => new.resolution # "long"
            key == [ref |-> c, what |-> new.status, n |-> Len(new.history)]
            task == [key |-> key, step |-> "create", to |-> {new.owner}, company |-> "none",
                     fits |-> fits]
<1>1. complaintUpdated(c, new) = {task}
  BY DEF complaintUpdated, NotifyUser, KeyWithLength
<1>2. complaintUpdated(c, new) \in SUBSET Task
  BY TicketExists, UpdatedTasks
<1>3. task.key = key /\ task.step = "create" /\ task.to = {new.owner} /\ task.fits = fits
  OBVIOUS
<1>4. key.ref = c
  OBVIOUS
<1>5. (new.status = "resolved" => new.resolution # "long") => task.fits
  BY <1>3
<1>. HIDE DEF task, fits
<1>. QED BY <1>1, <1>2, <1>3, <1>4, <1>5 DEF Announced, OfOwner

LEMMA StatusStep ==
  ASSUME TypeInv, Inv, NEW p \in Slots, NEW u \in Staff \cup SuperAdmins, NEW c \in Complaints,
         setComplaintStatus(p, u, c)
  PROVE  TypeInv' /\ Inv' /\ UNCHANGED <<complaints, notificationVars>>
<1>. DEFINE t == complaints[c]
<1>1. Exists(c) /\ t \in Complaint /\ u \in Users \cup {Nobody}
  BY TicketTyped DEF setComplaintStatus, Read, Users
<1>2. PICK to \in COMPLAINT_STATUSES, text \in {"none"} \cup Texts :
        LET concludes == to = "resolved" \/ (to = "closed" /\ t.status # "resolved")
            moved == applyTransition(
                       [t EXCEPT !.resolution = IF concludes /\ text # "none" THEN text ELSE @],
                       to, u)
            new == [moved EXCEPT !.assignedTo = IF to = "in_progress" /\ @ = Nobody THEN u ELSE @]
        IN /\ Permitted(u, t, to)
           /\ Explained(t, to, text)
           /\ Decide(p, c, new, complaintUpdated(c, new))
  BY DEF setComplaintStatus
<1>. DEFINE concludes == to = "resolved" \/ (to = "closed" /\ t.status # "resolved")
            conclusion == IF concludes /\ text # "none" THEN text ELSE t.resolution
            with == [t EXCEPT !.resolution = conclusion]
            moved == applyTransition(with, to, u)
            assignee == IF to = "in_progress" /\ moved.assignedTo = Nobody THEN u
                        ELSE moved.assignedTo
            new == [moved EXCEPT !.assignedTo = assignee]
            e == Move(with, moved, u)
<1>3. /\ Permitted(u, t, to) /\ Explained(t, to, text)
      /\ Decide(p, c, new, complaintUpdated(c, new))
  BY <1>2
<1>4. /\ t.status \in COMPLAINT_STATUSES /\ to # t.status
      /\ conclusion \in {"none"} \cup Texts
      /\ conclusion = "none" => t.resolution = "none"
      /\ to = "resolved" => conclusion # "none"
  <2>1. t.status \in COMPLAINT_STATUSES
    BY <1>1, TicketExists
  <2>2. to # t.status
    BY <1>3, <2>1 DEF Permitted, ALLOWED_TRANSITIONS, COMPLAINT_STATUSES
  <2>3. t.resolution \in {"none"} \cup Texts
    BY <1>1 DEF Complaint
  <2>. QED BY <1>3, <2>1, <2>2, <2>3 DEF Explained
<1>. HIDE DEF conclusion
<1>5. /\ with \in Complaint /\ with.status = t.status /\ with.owner = t.owner
      /\ with.resolution = conclusion /\ with.history = t.history
      /\ with.resolvedAt = t.resolvedAt
  BY <1>1, <1>4 DEF Complaint
<1>. HIDE DEF with
<1>6. /\ moved \in Complaint /\ moved.status = to /\ moved.owner = t.owner
      /\ moved.resolution = conclusion
      /\ moved.resolvedAt = IF to = "resolved" THEN Len(t.history) + 1
                            ELSE IF t.status = "resolved" /\ to = "open" THEN 0 ELSE t.resolvedAt
      /\ moved.history = Append(t.history, e)
  BY <1>1, <1>4, <1>5, TransitionFields
<1>. HIDE DEF moved
<1>7. assignee \in Users \cup {Nobody}
  BY <1>1, <1>6 DEF Complaint
<1>. HIDE DEF assignee
<1>8. /\ new \in Complaint /\ new.status = to /\ new.owner = t.owner
      /\ new.resolution = conclusion /\ new.resolvedAt = moved.resolvedAt
      /\ new.history = Append(t.history, e)
  BY <1>6, <1>7 DEF Complaint
<1>. HIDE DEF new
<1>9. Change(t, new)
  <2>1. e = Move(t, new, u)
    BY <1>5, <1>6, <1>8 DEF Move
  <2>. HIDE DEF e
  <2>. QED BY <1>1, <1>4, <1>6, <1>8, <2>1 DEF Change
<1>10. /\ complaintUpdated(c, new) \in SUBSET Task
       /\ Announced(c, t, new, complaintUpdated(c, new))
       /\ \A x \in complaintUpdated(c, new) : OfOwner(x)
  BY <1>1, <1>8, UpdatedAnnounces
<1>. QED BY <1>1, <1>3, <1>8, <1>9, <1>10, DecideStep DEF Decide

LEMMA SaveStep ==
  ASSUME TypeInv, Inv, NEW p \in Slots, save(p)
  PROVE  Kept
<1>. DEFINE r == request[p]
<1>1. /\ r \in Handler /\ r.kind \in {"save", "create"} /\ r.old \in Complaint
      /\ r.new \in Complaint /\ r.tasks \in SUBSET Task
      /\ Saving(r) /\ Creating(r)
  BY DEF TypeInv, Handler, save, Inv, HandlersInv
<1>2. /\ complaints' = [complaints EXCEPT ![r.c] =
           IF r.kind = "create" THEN r.new ELSE Merged(@, r.old, r.new)]
      /\ overdue' = Aged(r.c, r.old, r.new) /\ notifying' = notifying \cup r.tasks
      /\ request' = [request EXCEPT ![p] = Idle] /\ UNCHANGED <<requests, due, inbox>>
  BY DEF save
<1>3. r.c \in Complaints
  BY <1>1 DEF Saving, Creating
<1>. HIDE DEF r
<1>4. /\ complaints' \in [Complaints -> Complaint] /\ TicketsInv' /\ Grown /\ HistoryKept
      /\ EveryMoveIsTold => EveryMoveIsTold'
      /\ \A d \in Complaints : d # r.c => complaints'[d] = complaints[d]
  <2>1. CASE r.kind = "create"
    <3>1. /\ ~Exists(r.c) /\ r.new.status # "none" /\ Consistent(r.new) /\ r.new.history = <<>>
          /\ complaints' = [complaints EXCEPT ![r.c] = r.new] /\ notifying \subseteq notifying'
      BY <1>1, <1>2, <2>1 DEF Creating
    <3>. QED BY <1>1, <1>2, <1>3, <3>1, FileStep
  <2>2. CASE r.kind = "save"
    <3>1. /\ CopyOf(r.c, r.old) /\ Change(r.old, r.new) /\ Announced(r.c, r.old, r.new, r.tasks)
          /\ complaints' = [complaints EXCEPT ![r.c] = Merged(@, r.old, r.new)]
      BY <1>1, <1>2, <2>2 DEF Saving
    <3>. QED BY <1>1, <1>2, <1>3, <3>1, StoreStep
  <2>. QED BY <1>1, <2>1, <2>2
<1>5. overdue' \subseteq Complaints
  BY <1>2 DEF Aged, TypeInv
<1>6. TypeInv'
  BY <1>1, <1>2, <1>4, <1>5, IdleTyped DEF TypeInv
<1>7. /\ \A d \in Complaints, old \in Complaint : CopyOf(d, old) => CopyOf(d, old)'
      /\ \A t \in Task : OfOwner(t) => OfOwner(t)'
  BY <1>4, GrownKeeps
<1>8. /\ request'[p] = Idle /\ \A q \in Slots : q # p => request'[q] = request[q]
  BY <1>2 DEF TypeInv
<1>9. ASSUME NEW q \in Slots, q # p PROVE (Saving(request[q]) /\ Creating(request[q]))'
  <2>1. /\ Saving(request[q]) /\ Creating(request[q])
        /\ request[q] \in Handler /\ request'[q] = request[q]
    BY <1>8, <1>9 DEF Inv, HandlersInv, TypeInv
  <2>2. request[q].old \in Complaint
    BY <2>1 DEF Handler
  <2>3. Saving(request[q])'
    BY <1>7, <2>1, <2>2 DEF Saving, CopyOf, Exists, Announced
  <2>4. request[q].kind = "create" => request[q].c # r.c
    <3>1. CASE r.kind = "create"
      BY <1>9, <3>1 DEF Inv, HandlersInv, r
    <3>2. CASE r.kind = "save"
      BY <1>1, <2>1, <3>2 DEF Saving, Creating, CopyOf
    <3>. QED BY <1>1, <3>1, <3>2
  <2>5. Creating(request[q])'
    BY <1>4, <2>1, <2>4 DEF Creating, Exists
  <2>. QED BY <2>3, <2>5
<1>10. HandlersInv'
  <2>1. (Saving(request[p]) /\ Creating(request[p]))'
    BY <1>8, IdleTyped DEF Saving, Creating
  <2>2. \A q, o \in Slots :
          request'[q].kind = "create" /\ request'[o].kind = "create" /\ request'[q].c = request'[o].c
            => q = o
    BY <1>8, IdleTyped DEF Inv, HandlersInv
  <2>. QED BY <1>9, <2>1, <2>2 DEF HandlersInv
<1>11. DueInv'
  BY <1>2, <1>7, TicketTyped DEF Inv, DueInv, CopyOf, Exists
<1>12. TasksInv'
  <2>1. \A t \in r.tasks : OfOwner(t)
    BY DEF Inv, TasksInv, r
  <2>2. \A t \in notifying' : t \in Task /\ OfOwner(t)
    BY <1>1, <1>2, <2>1 DEF Inv, TasksInv, TypeInv
  <2>3. \A t \in notifying' : OfOwner(t)'
    BY <1>7, <2>2 DEF OfOwner, Exists
  <2>4. \A q \in Slots : request[q].tasks \subseteq Task
    BY DEF TypeInv, Handler
  <2>5. \A q \in Slots : \A t \in request'[q].tasks : t \in Task /\ OfOwner(t)
    BY <1>8, <2>4, IdleTyped DEF Inv, TasksInv
  <2>6. \A q \in Slots : \A t \in request'[q].tasks : OfOwner(t)'
    BY <1>7, <2>5 DEF OfOwner, Exists
  <2>. QED BY <2>3, <2>6 DEF TasksInv
<1>. QED BY <1>4, <1>6, <1>10, <1>11, <1>12 DEF Kept, Inv

LEMMA SweepSaveStep ==
  ASSUME TypeInv, Inv, NEW c \in Complaints, sweepSaves(c)
  PROVE  Kept
<1>. DEFINE old == due[c]
            new == applyTransition(old, "closed", Nobody)
            tasks == complaintUpdated(c, new)
            e == Move(old, new, Nobody)
<1>1. /\ old \in Complaint /\ CopyOf(c, old) /\ old.status = "resolved"
  BY TicketTyped DEF sweepSaves, Inv, DueInv
<1>2. /\ complaints' = [complaints EXCEPT ![c] = Merged(@, old, new)]
      /\ notifying' = notifying \cup tasks /\ due' = [due EXCEPT ![c] = Absent]
      /\ UNCHANGED <<request, requests, overdue, inbox>>
  BY DEF sweepSaves
<1>3. /\ new \in Complaint /\ new.status = "closed" /\ new.owner = old.owner
      /\ new.resolution = old.resolution /\ new.resolvedAt = old.resolvedAt
      /\ new.history = Append(old.history, e)
  BY <1>1, TransitionFields DEF COMPLAINT_STATUSES
<1>. HIDE DEF new
<1>4. Change(old, new)
  BY <1>1, <1>3 DEF Change, COMPLAINT_STATUSES
<1>5. tasks \in SUBSET Task /\ Announced(c, old, new, tasks) /\ \A t \in tasks : OfOwner(t)
  BY <1>1, <1>3, UpdatedAnnounces DEF CopyOf, COMPLAINT_STATUSES
<1>. HIDE DEF tasks, old
<1>6. /\ complaints' \in [Complaints -> Complaint] /\ TicketsInv' /\ Grown /\ HistoryKept
      /\ EveryMoveIsTold => EveryMoveIsTold'
      /\ \A d \in Complaints : d # c => complaints'[d] = complaints[d]
  BY <1>1, <1>2, <1>3, <1>4, <1>5, StoreStep
<1>7. TypeInv'
  BY <1>2, <1>5, <1>6, AbsentTyped DEF TypeInv
<1>8. /\ \A d \in Complaints, o \in Complaint : CopyOf(d, o) => CopyOf(d, o)'
      /\ \A t \in Task : OfOwner(t) => OfOwner(t)'
  BY <1>6, GrownKeeps
<1>9. ASSUME NEW q \in Slots PROVE (Saving(request[q]) /\ Creating(request[q]))'
  <2>1. /\ Saving(request[q]) /\ Creating(request[q])
        /\ request[q] \in Handler /\ request' = request
    BY <1>2 DEF Inv, HandlersInv, TypeInv
  <2>2. request[q].old \in Complaint
    BY <2>1 DEF Handler
  <2>3. Saving(request[q])'
    BY <1>8, <2>1, <2>2 DEF Saving, CopyOf, Exists, Announced
  <2>4. Creating(request[q])'
    BY <1>1, <1>6, <2>1 DEF Creating, Exists, CopyOf
  <2>. QED BY <2>3, <2>4
<1>10. HandlersInv'
  BY <1>2, <1>9 DEF Inv, HandlersInv
<1>11. DueInv'
  <2>1. /\ due'[c] = Absent /\ \A d \in Complaints : d # c => due'[d] = due[d]
    BY <1>2 DEF TypeInv
  <2>. QED BY <1>8, <2>1, TicketTyped DEF Inv, DueInv, CopyOf, Exists
<1>12. TasksInv'
  <2>1. \A t \in notifying' : t \in Task /\ OfOwner(t)
    BY <1>2, <1>5 DEF Inv, TasksInv, TypeInv
  <2>2. \A q \in Slots : \A t \in request'[q].tasks : t \in Task /\ OfOwner(t)
    BY <1>2 DEF Inv, TasksInv, TypeInv, Handler
  <2>. QED BY <1>8, <2>1, <2>2 DEF TasksInv, OfOwner, Exists
<1>. QED BY <1>6, <1>7, <1>10, <1>11, <1>12 DEF Kept, Inv

LEMMA SweepReadStep ==
  ASSUME TypeInv, Inv, sweepResolvedComplaints \/ \E c \in Complaints : SevenDaysPass(c)
  PROVE  TypeInv' /\ Inv' /\ UNCHANGED <<complaints, notificationVars>>
<1>1. UNCHANGED <<complaints, request, requests, inbox, notifying>>
  BY DEF sweepResolvedComplaints, SevenDaysPass, notificationVars
<1>2. CASE sweepResolvedComplaints
  <2>1. due' = [c \in Complaints |-> IF Due(c) THEN complaints[c] ELSE Absent] /\ overdue' = overdue
    BY <1>2 DEF sweepResolvedComplaints
  <2>2. due' \in [Complaints -> Complaint]
    BY <2>1, TicketTyped, AbsentTyped
  <2>3. ASSUME NEW c \in Complaints, due'[c] # Absent
        PROVE  CopyOf(c, due'[c]) /\ due'[c].status = "resolved"
    <3>1. due'[c] = complaints[c] /\ Due(c)
      BY <2>1, <2>3
    <3>2. complaints[c].status = "resolved"
      BY <3>1 DEF Due
    <3>3. Exists(c)
      BY <3>2 DEF Exists
    <3>. QED BY <3>1, <3>2, <3>3, TicketExists
  <2>4. DueInv'
    BY <1>1, <2>3 DEF DueInv, CopyOf, Exists
  <2>. QED BY <1>1, <2>1, <2>2, <2>4 DEF TypeInv, Inv, TicketsInv, HandlersInv, Saving, Creating,
           TasksInv, CopyOf, Exists, OfOwner, notificationVars
<1>3. CASE \E c \in Complaints : SevenDaysPass(c)
  <2>1. due' = due /\ overdue' \subseteq Complaints
    BY <1>3 DEF SevenDaysPass, TypeInv
  <2>. QED BY <1>1, <2>1 DEF TypeInv, Inv, TicketsInv, HandlersInv, DueInv, Saving, Creating,
           TasksInv, CopyOf, Exists, OfOwner, notificationVars
<1>. QED BY <1>2, <1>3

-----------------------------------------------------------------------------
(* Notifications *)

\* A step of a trigger: what is in the inbox stays, and a trigger that has addressed everybody
\* it was to address is gone.
LEMMA DeliverStep ==
  ASSUME TypeInv, Inv, OncePerEvent, Deliver, UNCHANGED complaintVars
  PROVE  /\ inbox' \subseteq Row /\ notifying' \subseteq Task /\ TasksInv' /\ OncePerEvent'
         /\ EveryMoveIsTold => EveryMoveIsTold'
<1>1. PICK t \in notifying : findStaff(t) \/ createNotification(t)
  BY DEF Deliver
<1>2. /\ t \in Task /\ OfOwner(t) /\ UNCHANGED <<complaints, request>>
      /\ inbox \subseteq Row /\ notifying \subseteq Task
  BY DEF TypeInv, Inv, TasksInv, complaintVars
<1>3. \A x \in Task : OfOwner(x) => OfOwner(x)'
  BY <1>2 DEF OfOwner, Exists
<1>4. CASE findStaff(t)
  <2>. DEFINE to == {u \in Staff : CompanyOf[u] = t.company}
              next == [t EXCEPT !.step = "create", !.to = to]
  <2>1. /\ t.step = "find" /\ inbox' = inbox
        /\ notifying' \subseteq (notifying \ {t}) \cup {next}
        /\ notifying \ {t} \subseteq notifying'
    BY <1>4 DEF findStaff
  <2>2. t.key.what \notin COMPLAINT_STATUSES
    BY <1>2, <2>1 DEF OfOwner
  <2>3. next \in Task /\ next.key = t.key
    <3>1. to \in SUBSET Users
      BY DEF Users
    <3>. HIDE DEF to
    <3>. QED BY <1>2, <3>1 DEF Task
  <2>. HIDE DEF next
  <2>4. notifying' \subseteq Task /\ \A x \in notifying' : OfOwner(x)'
    BY <1>2, <1>3, <2>1, <2>2, <2>3 DEF Inv, TasksInv, OfOwner
  <2>5. TasksInv'
    BY <1>2, <2>4 DEF Inv, TasksInv, OfOwner, Exists
  <2>6. ASSUME EveryMoveIsTold PROVE EveryMoveIsTold'
    <3>1. ASSUME NEW c \in Complaints, NEW i \in 1 .. Len(complaints[c].history),
                 ForDriver(complaints[c].history[i])
          PROVE  HearsThen(c, complaints[c].history[i])
      <4>1. complaints[c].history[i].to \in COMPLAINT_STATUSES
        <5>1. complaints[c].history[i] \in Entry
          BY TicketTyped, ElementOfSeq
        <5>. QED BY <5>1 DEF Entry
      <4>2. Hears(c, complaints[c].history[i])
        BY <2>6, <3>1 DEF EveryMoveIsTold, Hears, ForDriver
      <4>. QED BY <1>2, <2>1, <2>2, <4>1, <4>2 DEF Hears, HearsThen, Told, EventOf
    <3>. QED BY <1>2, <3>1 DEF EveryMoveIsTold, Hears, HearsThen, ForDriver, Told
  <2>. QED BY <1>2, <2>1, <2>4, <2>5, <2>6 DEF OncePerEvent
<1>5. CASE createNotification(t)
  <2>1. PICK u \in t.to :
          /\ inbox' = Inserted(u, t)
          /\ notifying' = (notifying \ {t}) \cup
                            (IF t.to = {u} THEN {} ELSE {[t EXCEPT !.to = @ \ {u}]})
    BY <1>5 DEF createNotification
  <2>. DEFINE rest == [t EXCEPT !.to = t.to \ {u}]
              row == [user |-> u, key |-> t.key, isRead |-> FALSE]
  <2>2. /\ notifying' \subseteq (notifying \ {t}) \cup {rest}
        /\ notifying \ {t} \subseteq notifying'
        /\ t.to = {u} => notifying' = notifying \ {t}
    BY <2>1
  <2>3. /\ rest \in Task /\ rest.key = t.key /\ rest.step = t.step
        /\ u \in Users /\ t.key \in TaskKey
    <3>1. t.to \subseteq Users /\ t.key \in TaskKey
      BY <1>2 DEF Task
    <3>. QED BY <1>2, <3>1 DEF Task
  <2>. HIDE DEF rest
  <2>4. t.key.what \in COMPLAINT_STATUSES => t.to = {u}
    BY <1>2, <2>1 DEF OfOwner
  <2>5. notifying' \subseteq Task /\ \A x \in notifying' : OfOwner(x)'
    BY <1>2, <1>3, <2>2, <2>3, <2>4 DEF Inv, TasksInv, OfOwner
  <2>6. TasksInv'
    BY <1>2, <2>5 DEF Inv, TasksInv, OfOwner, Exists
  <2>7. row \in Row /\ row.user = u /\ row.key = t.key
    BY <2>3 DEF Row
  <2>. HIDE DEF row
  <2>8. inbox \subseteq inbox' /\ inbox' \subseteq inbox \cup {row}
        /\ (Told(u, t.key) => inbox' = inbox) /\ (t.fits => Told(u, t.key) \/ row \in inbox')
    BY <2>1 DEF Inserted, row
  <2>9. inbox' \subseteq Row /\ OncePerEvent'
    BY <1>2, <2>7, <2>8 DEF OncePerEvent, Told
  <2>10. ASSUME EveryMoveIsTold PROVE EveryMoveIsTold'
    <3>1. ASSUME NEW c \in Complaints, NEW i \in 1 .. Len(complaints[c].history),
                 ForDriver(complaints[c].history[i])
          PROVE  HearsThen(c, complaints[c].history[i])
      <4>. DEFINE e == complaints[c].history[i]
      <4>1. e.to \in COMPLAINT_STATUSES
        <5>1. e \in Entry
          BY TicketTyped, ElementOfSeq
        <5>. QED BY <5>1 DEF Entry
      <4>2. Hears(c, e)
        BY <2>10, <3>1 DEF EveryMoveIsTold, Hears, ForDriver
      <4>. SUFFICES HearsThen(c, e)
        OBVIOUS
      <4>. HIDE DEF e
      <4>. DEFINE key == EventOf(c, e)
      <4>3. key.ref = c /\ key.what = e.to
        BY DEF EventOf
      <4>. HIDE DEF key
      <4>4. CASE Told(complaints[c].owner, key)
        BY <1>2, <2>8, <4>4 DEF HearsThen, Told, key
      <4>5. CASE \E x \in notifying : x.key = key /\ x.fits
        <5>1. PICK x \in notifying : x.key = key /\ x.fits
          BY <4>5
        <5>2. CASE x # t
          BY <1>2, <2>2, <5>1, <5>2 DEF HearsThen, key
        <5>3. CASE x = t
          <6>1. t.key.what = e.to /\ t.key.ref = c
            BY <4>3, <5>1, <5>3
          <6>2. u = complaints[c].owner
            BY <1>2, <2>4, <4>1, <6>1 DEF OfOwner
          <6>3. \E m \in inbox' : m.user = u /\ m.key = t.key
            BY <2>7, <2>8, <5>1, <5>3 DEF Told
          <6>. QED BY <1>2, <5>1, <5>3, <6>2, <6>3 DEF HearsThen, key
        <5>. QED BY <5>2, <5>3
      <4>. QED BY <4>2, <4>4, <4>5 DEF Hears, key
    <3>. QED BY <1>2, <3>1 DEF EveryMoveIsTold, Hears, HearsThen, ForDriver, Told
  <2>. QED BY <2>5, <2>6, <2>9, <2>10
<1>. QED BY <1>1, <1>4, <1>5

LEMMA RowsStay ==
  ASSUME EveryMoveIsTold, UNCHANGED <<complaints, notifying>>,
         \A u, key : Told(u, key) => \E m \in inbox' : m.user = u /\ m.key = key
  PROVE  EveryMoveIsTold'
<1>1. ASSUME NEW c \in Complaints, NEW i \in 1 .. Len(complaints[c].history),
             ForDriver(complaints[c].history[i])
      PROVE  HearsThen(c, complaints[c].history[i])
  <2>1. Hears(c, complaints[c].history[i])
    BY <1>1 DEF EveryMoveIsTold, Hears, ForDriver
  <2>. QED BY <2>1 DEF Hears, HearsThen
<1>. QED BY <1>1 DEF EveryMoveIsTold, Hears, HearsThen, ForDriver, Told

\* Marking rows read changes nothing but the mark.
LEMMA ReadingStep ==
  ASSUME TypeInv, Inv, OncePerEvent, Reading, UNCHANGED complaintVars
  PROVE  /\ inbox' \subseteq Row /\ notifying' = notifying /\ OncePerEvent'
         /\ EveryMoveIsTold => EveryMoveIsTold'
<1>. DEFINE Marked(n) == [n EXCEPT !.isRead = TRUE]
<1>1. \A n \in Row : Marked(n) \in Row /\ Marked(n).user = n.user /\ Marked(n).key = n.key
  BY DEF Row
<1>2. UNCHANGED <<complaints, notifying>> /\ inbox \subseteq Row
  BY DEF Reading, markAsRead, markAllAsRead, complaintVars, TypeInv
<1>3. PICK u \in Readers : markAsRead(u) \/ markAllAsRead(u)
  BY DEF Reading
<1>4. CASE markAsRead(u)
  <2>1. PICK n \in inbox : inbox' = (inbox \ {n}) \cup {Marked(n)}
    BY <1>4 DEF markAsRead
  <2>. HIDE DEF Marked
  <2>2. inbox' \subseteq Row /\ OncePerEvent'
    BY <1>1, <1>2, <2>1 DEF OncePerEvent
  <2>3. \A x, key : Told(x, key) => \E m \in inbox' : m.user = x /\ m.key = key
    BY <1>1, <1>2, <2>1 DEF Told
  <2>4. ASSUME EveryMoveIsTold PROVE EveryMoveIsTold'
    BY <1>2, <2>3, <2>4, RowsStay
  <2>. QED BY <1>2, <2>2, <2>4
<1>5. CASE markAllAsRead(u)
  <2>1. inbox' = {IF n.user = u THEN Marked(n) ELSE n : n \in inbox}
    BY <1>5 DEF markAllAsRead
  <2>. HIDE DEF Marked
  <2>2. inbox' \subseteq Row /\ OncePerEvent'
    BY <1>1, <1>2, <2>1 DEF OncePerEvent
  <2>3. \A x, key : Told(x, key) => \E m \in inbox' : m.user = x /\ m.key = key
    BY <1>1, <1>2, <2>1 DEF Told
  <2>4. ASSUME EveryMoveIsTold PROVE EveryMoveIsTold'
    BY <1>2, <2>3, <2>4, RowsStay
  <2>. QED BY <1>2, <2>2, <2>4
<1>. QED BY <1>3, <1>4, <1>5

LEMMA MessagesOnly ==
  ASSUME TypeInv, Inv, inbox' \subseteq Row, notifying' \subseteq Task, UNCHANGED complaintVars
  PROVE  /\ TypeInv' /\ (TasksInv' => Inv') /\ HistoryKept
         /\ notifying' = notifying => TasksInv'
<1>1. UNCHANGED <<complaints, request, requests, due, overdue>>
  BY DEF complaintVars
<1>2. HistoryKept
  BY <1>1, TicketTyped, HistoryTyped DEF HistoryKept
<1>. QED BY <1>1, <1>2 DEF TypeInv, Inv, TicketsInv, HandlersInv, DueInv, Saving, Creating, TasksInv,
         CopyOf, Exists, OfOwner

-----------------------------------------------------------------------------
(* The invariant holds *)

AllInv == TypeInv /\ Inv /\ OncePerEvent

LEMMA HandlerSteps ==
  ASSUME TypeInv' /\ Inv', TypeInv, OncePerEvent, UNCHANGED <<complaints, notificationVars>>
  PROVE  Kept /\ OncePerEvent'
<1>1. UNCHANGED <<complaints, inbox, notifying>>
  BY DEF notificationVars
<1>2. HistoryKept /\ OncePerEvent'
  BY <1>1, TicketTyped, HistoryTyped DEF HistoryKept, OncePerEvent
<1>3. ASSUME EveryMoveIsTold PROVE EveryMoveIsTold'
  BY <1>1, <1>3, RowsStay DEF Told
<1>. QED BY <1>2, <1>3 DEF Kept

LEMMA Step ==
  ASSUME TypeInv, Inv, OncePerEvent, [Next]_vars
  PROVE  Kept /\ OncePerEvent'
<1>1. CASE UNCHANGED vars
  <2>1. UNCHANGED <<complaints, request, requests, due, overdue, inbox, notifying>>
    BY <1>1 DEF vars, complaintVars, notificationVars
  <2>2. TypeInv' /\ Inv'
    BY <2>1 DEF TypeInv, Inv, TicketsInv, HandlersInv, DueInv, Saving, Creating, TasksInv,
         CopyOf, Exists, OfOwner
  <2>. QED BY <2>1, <2>2, HandlerSteps DEF notificationVars
<1>2. ASSUME NEW c \in Complaints, NEW u \in Drivers, DriverStep(u, c)
      PROVE  Kept /\ OncePerEvent'
  <2>1. CASE createComplaint(u, c)
    BY <2>1, CreateStep DEF OncePerEvent, createComplaint
  <2>2. ASSUME NEW p \in Slots, NEW original \in Complaints, createFollowUp(p, u, c, original)
        PROVE  Kept /\ OncePerEvent'
    BY <2>2, FollowUpStep, HandlerSteps
  <2>3. ASSUME NEW p \in Slots, confirmComplaintResolved(p, u, c) \/ reopenComplaint(p, u, c)
        PROVE  Kept /\ OncePerEvent'
    BY <2>3, AnswerStep, HandlerSteps
  <2>. QED BY <1>2, <2>1, <2>2, <2>3 DEF DriverStep
<1>3. ASSUME NEW c \in Complaints, NEW p \in Slots, NEW u \in Staff \cup SuperAdmins,
             StaffStep(p, u, c)
      PROVE  Kept /\ OncePerEvent'
  BY <1>3, UpdateStep, StatusStep, AssignStep, HandlerSteps DEF StaffStep
<1>4. ASSUME NEW c \in Complaints, SevenDaysPass(c) PROVE Kept /\ OncePerEvent'
  BY <1>4, SweepReadStep, HandlerSteps
<1>5. ASSUME NEW c \in Complaints, sweepSaves(c) PROVE Kept /\ OncePerEvent'
  BY <1>5, SweepSaveStep DEF OncePerEvent, sweepSaves
<1>6. ASSUME NEW p \in Slots, save(p) PROVE Kept /\ OncePerEvent'
  BY <1>6, SaveStep DEF OncePerEvent, save
<1>7. CASE sweepResolvedComplaints
  BY <1>7, SweepReadStep, HandlerSteps
<1>8. CASE Deliver /\ UNCHANGED complaintVars
  BY <1>8, DeliverStep, MessagesOnly DEF Kept
<1>9. CASE Reading /\ UNCHANGED complaintVars
  <2>1. notifying' \subseteq Task
    BY <1>9, ReadingStep DEF TypeInv
  <2>. QED BY <1>9, <2>1, ReadingStep, MessagesOnly DEF Kept
<1>. QED BY <1>1, <1>2, <1>3, <1>4, <1>5, <1>6, <1>7, <1>8, <1>9 DEF Next

LEMMA InitiallyTyped == Init => AllInv
<1>. SUFFICES ASSUME Init PROVE AllInv
  OBVIOUS
<1>1. /\ complaints \in [Complaints -> Complaint]
      /\ \A c \in Complaints : Consistent(complaints[c])
  BY StoredAssumption DEF Init
<1>2. /\ request = [p \in Slots |-> Idle] /\ requests = 0
      /\ due = [c \in Complaints |-> Absent] /\ overdue = {} /\ inbox = {}
      /\ notifying = UNION {complaintUpdated(c, complaints[c]) :
                              c \in {c \in Complaints : complaints[c].history # <<>>}}
  BY DEF Init
<1>3. ASSUME NEW t \in notifying PROVE t \in Task /\ OfOwner(t)
  <2>1. PICK c \in Complaints : complaints[c].history # <<>> /\ t \in complaintUpdated(c, complaints[c])
    BY <1>2
  <2>2. complaints[c] \in Complaint /\ complaints[c] # Absent
    BY <1>1, <2>1, AbsentTyped
  <2>3. complaints[c].status \in COMPLAINT_STATUSES /\ complaints[c].owner \in Drivers /\ Exists(c)
    BY <1>1, <2>2 DEF Consistent, Complaint, Exists
  <2>4. t \in Task
    BY <2>1, <2>2, <2>3, UpdatedTasks
  <2>5. t.step = "create" /\ t.to = {complaints[c].owner} /\ t.key.ref = c
    BY <2>1 DEF complaintUpdated, NotifyUser, KeyWithLength
  <2>. QED BY <2>3, <2>4, <2>5 DEF OfOwner
<1>4. TypeInv
  <2>1. request \in [Slots -> Handler]
    BY <1>2, IdleTyped
  <2>2. due \in [Complaints -> Complaint]
    BY <1>2, AbsentTyped
  <2>. QED BY <1>1, <1>2, <1>3, <2>1, <2>2 DEF TypeInv
<1>5. Inv
  <2>1. \A p \in Slots : request[p].kind = "idle" /\ request[p].tasks = {}
    BY <1>2, IdleTyped
  <2>. QED BY <1>1, <1>2, <1>3, <2>1 DEF Inv, TicketsInv, HandlersInv, DueInv, TasksInv,
           Saving, Creating
<1>. QED BY <1>2, <1>4, <1>5 DEF AllInv, OncePerEvent

LEMMA Invariant == Spec => []AllInv
<1>1. AllInv /\ [Next]_vars => AllInv'
  BY Step DEF AllInv, Kept
<1>. QED BY <1>1, InitiallyTyped, PTL DEF Spec

-----------------------------------------------------------------------------
(* The theorems *)

\* Tickets, handlers, copies and rows keep their types, whatever the overlaps: a merged ticket
\* is a ticket the schema accepts.
THEOREM TypeCorrect == Spec => []TypeOK
<1>1. TypeInv => TypeOK
  BY DEF TypeInv, TypeOK, Handler, Row
<1>. QED BY <1>1, Invariant, PTL DEF AllInv

\* The history tells the status a ticket has (complaint.service.ts: applyTransition), however
\* many saves of older copies and sweeps overlap.
THEOREM HistoryTellsStatus == Spec => []StatusIsLastEntry
<1>1. TypeInv /\ Inv => StatusIsLastEntry
  BY AbsentTyped DEF Inv, TicketsInv, Consistent, StatusIsLastEntry, Exists
<1>. QED BY <1>1, Invariant, PTL DEF AllInv

\* A resolved ticket has its date and its conclusion, so the sweep will find it
\* (complaint.service.ts:816).
THEOREM ResolutionsExplained == Spec => []ResolvedIsExplained
<1>1. TypeInv /\ Inv => ResolvedIsExplained
  BY AbsentTyped DEF Inv, TicketsInv, Consistent, ResolvedIsExplained
<1>. QED BY <1>1, Invariant, PTL DEF AllInv

\* No recorded move is lost or rewritten by any step.
THEOREM MovesAreKept == Spec => HistoryIsAppendOnly
<1>1. TypeInv /\ Inv /\ OncePerEvent /\ [Next]_vars
        => [\A c \in Complaints :
              /\ Len(complaints[c].history) <= Len(complaints'[c].history)
              /\ SubSeq(complaints'[c].history, 1, Len(complaints[c].history))
                   = complaints[c].history]_vars
  BY Step DEF Kept, HistoryKept
<1>. QED BY <1>1, Invariant, PTL DEF Spec, AllInv, HistoryIsAppendOnly

\* One event makes at most one row per reader (notification.model.ts, the unique index), however
\* often it is told and whatever is marked read meanwhile.
THEOREM RowsAreUnique == Spec => []OncePerEvent
BY Invariant, PTL DEF AllInv

\* The tickets there are at the start are as they were filed, or were taken up, released or
\* closed once: then every move of staff and sweep, a second resolution included, has a row of
\* its own event in the driver's inbox or a trigger under way to it, under overlapping handlers
\* and sweeps; all but a resolution whose text does not fit a notification.
THEOREM DriverHearsMoves ==
  ASSUME \A stored \in Stored : \A c \in Complaints :
           \/ stored[c].history = <<>>
           \/ /\ Len(stored[c].history) = 1
              /\ stored[c].history[1].n = 1 /\ stored[c].history[1].to # "resolved"
  PROVE  Spec => []EveryMoveIsTold
<1>1. Init => EveryMoveIsTold
  <2>. SUFFICES ASSUME Init, NEW c \in Complaints, NEW i \in 1 .. Len(complaints[c].history)
                PROVE  Hears(c, complaints[c].history[i])
    BY DEF EveryMoveIsTold, Hears
  <2>. DEFINE t == complaints[c]
  <2>1. TypeInv /\ Inv /\ complaints \in Stored
    BY InitiallyTyped DEF AllInv, Init
  <2>2. t.history # <<>>
    BY EmptySeq
  <2>3. i = 1 /\ Len(t.history) = 1 /\ t.history[i].n = 1 /\ t.history[i].to # "resolved"
    <3>1. Len(t.history) = 1 /\ t.history[1].n = 1 /\ t.history[1].to # "resolved"
      BY <2>1, <2>2
    <3>2. i = 1
      BY <3>1
    <3>. QED BY <3>1, <3>2
  <2>4. t \in Complaint /\ t # Absent /\ Consistent(t)
    BY <2>1, <2>2, TicketTyped, AbsentTyped DEF Inv, TicketsInv
  <2>5. t.status = t.history[i].to
    BY <2>2, <2>3, <2>4 DEF Consistent, Last
  <2>. DEFINE fits == t.status = "resolved" => t.resolution # "long"
              task == NotifyUser(t.owner, KeyWithLength(c, t.status, t), fits)
  <2>6. task \in notifying
    BY <2>2 DEF Init, complaintUpdated
  <2>7. task.key = EventOf(c, t.history[i]) /\ task.fits
    BY <2>3, <2>5 DEF NotifyUser, KeyWithLength, EventOf
  <2>. HIDE DEF task
  <2>. QED BY <2>6, <2>7 DEF Hears
<1>2. AllInv /\ EveryMoveIsTold /\ [Next]_vars => EveryMoveIsTold'
  BY Step DEF AllInv, Kept
<1>. QED BY <1>1, <1>2, Invariant, PTL DEF Spec

\* The page's copy of the rules agrees with the server's on every ticket that can come up, for
\* every role and category.
THEOREM PageAgreesWithServer == Spec => []OffersAccepted
<1>1. TypeInv /\ Inv => OffersAccepted
  <2>. SUFFICES ASSUME TypeInv, Inv, NEW c \in Complaints, NEW u \in Users,
                       NEW cat \in COMPLAINT_CATEGORIES, Exists(c),
                       applyReadScope(u, [complaints[c] EXCEPT !.category = cat])
                PROVE  LET t == [complaints[c] EXCEPT !.category = cat]
                       IN IF u \in Drivers THEN DriverOffered(t) = DriverMay(t)
                          ELSE /\ MovesOffered(u, t) = {to \in COMPLAINT_STATUSES : Permitted(u, t, to)}
                               /\ \A to \in MovesOffered(u, t), draft \in Texts :
                                    Explained(t, to, ReplySent(t, to, draft))
                               /\ \A a \in AssigneesOffered(u, t) : MayAssign(u, t, a)
    BY DEF OffersAccepted
  <2>. DEFINE t == [complaints[c] EXCEPT !.category = cat]
  <2>1. /\ t.status \in COMPLAINT_STATUSES /\ t.category \in COMPLAINT_CATEGORIES
        /\ applyReadScope(u, t)
    BY TicketTyped, TicketExists DEF Complaint
  <2>. HIDE DEF t
  <2>2. DriverOffered(t) = DriverMay(t)
    BY <2>1 DEF DriverOffered, DriverMay, MayAnswer, FollowUpAllowed, COMPLAINT_STATUSES
  <2>3. u \notin Drivers => /\ isAdmin(u) <=> u \notin Operators
                            /\ u \in Staff \cup SuperAdmins
    BY RolesAssumption DEF isAdmin, Users, Staff
  <2>4. \A to : to \in NEXT_STATUSES[t.status] <=> to \in ALLOWED_TRANSITIONS[t.status]
    BY DEF NEXT_STATUSES, ALLOWED_TRANSITIONS
  <2>5. \A to \in ALLOWED_TRANSITIONS[t.status] : to \in COMPLAINT_STATUSES /\ to # t.status
    BY <2>1 DEF ALLOWED_TRANSITIONS, COMPLAINT_STATUSES
  <2>6. \A to : AdminOnlyOnPage(t.status, to, t.category) <=>
           ~(/\ ~isAdminOnly(t.status, to)
             /\ to = "resolved" => t.category \in OPERATOR_RESOLVABLE_CATEGORIES)
    BY <2>1 DEF AdminOnlyOnPage, isAdminOnly, OPERATOR_RESOLVABLE, OPERATOR_RESOLVABLE_CATEGORIES,
                COMPLAINT_CATEGORIES
  <2>7. u \notin Drivers => MovesOffered(u, t) = {to \in COMPLAINT_STATUSES : Permitted(u, t, to)}
    BY <2>3, <2>4, <2>5, <2>6 DEF MovesOffered, Permitted
  <2>8. \A to \in MovesOffered(u, t), draft \in Texts : Explained(t, to, ReplySent(t, to, draft))
    BY <2>4, <2>5, ComplaintsAssumption DEF MovesOffered, Explained, ReplySent
  <2>9. u \notin Drivers => \A a \in AssigneesOffered(u, t) : MayAssign(u, t, a)
    BY <2>1, <2>3 DEF AssigneesOffered, MayAssign, applyReadScope
  <2>. QED BY <2>2, <2>7, <2>8, <2>9 DEF t
<1>. QED BY <1>1, Invariant, PTL DEF AllInv
=============================================================================
