--------------------------- MODULE RecoveryConsole ---------------------------
(***************************************************************************)
(* The web console's copy of an incident (useRecoveryConsole).  A mutation *)
(* sends its request, and then loads all of the incident's rows and shows  *)
(* them; the buttons are disabled while one is in flight.  Auto Replay     *)
(* runs the same mutations without looking at the buttons, and a reload    *)
(* neither disables them nor waits.  Between any two awaits of one task    *)
(* the others run, and what a task applies is what the server held when    *)
(* its load was answered.                                                  *)
(*                                                                         *)
(* The rows keep what approvals depend on: how far the agent's run is with *)
(* the demonstration's case, the one it prepares, waits for and sends, and *)
(* whether the operator has prepared the case of another connection.       *)
(***************************************************************************)
EXTENDS Naturals, Sequences

CONSTANTS
  None,
  Tasks,         \* bound: asynchronous functions in flight at once
  MaxIncidents,  \* bound: incidents created
  MaxCalls,      \* bound: functions started
  MaxFaults      \* bound: requests that fail, and reloads of the page

ASSUME NoneAssumption ==
  None \notin Nat \cup {"JV2", "OTHER", "api", "conflict", "refresh"}
ASSUME BoundsAssumption == MaxIncidents \in Nat /\ MaxCalls \in Nat /\ MaxFaults \in Nat

VARIABLES
  rows,        \* the server: what each incident's tables hold
  shown,       \* latestStateRef and the React state set with it
  binding,     \* agentWaitHistory: the case whose fingerprint is displayed
  selected,    \* a container of the other connection is selected
  stored,      \* the incident id in local storage
  loading, error,
  task,        \* the asynchronous functions in flight
  calls, faults,
  overlapped,  \* the last function to start did not start alone
  missed       \* the last failure left no trace on the screen

vars == <<rows, shown, binding, selected, stored, loading, error, task, calls,
          faults, overlapped, missed>>

Progress == {"NONE", "WAITING", "APPROVED", "SENT"}
RowRecords == [run : Progress, other : BOOLEAN]
NewRows == [run |-> "NONE", other |-> FALSE]

Operations == {"create", "resume", "prepare", "advance", "approve", "refresh"}
TaskRecords ==
  [at : {"idle", "request", "load", "bundle"}, op : Operations \cup {None}, auto : BOOLEAN,
   target : {None, "JV2", "OTHER"}, badge : {None, "JV2"}, incident : Nat \cup {None},
   copy : RowRecords \cup {None}, answer : {None, "ok", "conflict"}, again : BOOLEAN]

CasesOf(r) ==
  (IF r.run = "NONE" THEN {} ELSE {"JV2"}) \cup (IF r.other THEN {"OTHER"} ELSE {})

\* at: the await a function is suspended in; again: it adopts an incident and
\* has its refresh still to come; op is forgotten when the request is answered;
\* badge: the fingerprint on screen at the click.
Idle == [at |-> "idle", op |-> None, auto |-> FALSE, target |-> None, badge |-> None,
         incident |-> None, copy |-> None, answer |-> None, again |-> FALSE]

EmptyScreen == [incident |-> None, rows |-> NewRows]

Init ==
  /\ rows = <<>>
  /\ shown = EmptyScreen /\ binding = None
  /\ selected = FALSE /\ stored = None
  /\ loading = FALSE /\ error = None
  /\ task = [t \in Tasks |-> Idle]
  /\ calls = 0 /\ faults = 0 /\ overlapped = FALSE /\ missed = FALSE

Alone == \A t \in Tasks : task[t].at = "idle"
AutoBusy == \E t \in Tasks : task[t].auto

-----------------------------------------------------------------------------
(***************************************************************************)
(* Starting a function.  A button needs loading to be over; the Auto       *)
(* Replay loop needs only its own last function to be over.                *)
(***************************************************************************)
Begin(t, fields) ==
  /\ task[t].at = "idle"
  /\ calls < MaxCalls /\ calls' = calls + 1
  /\ task' = [task EXCEPT ![t] = fields]
  /\ overlapped' = ~Alone
  /\ UNCHANGED <<rows, shown, binding, selected, faults, missed>>

Permitted(auto) == IF auto THEN ~AutoBusy ELSE ~loading

RunMutation(t, auto, fields) ==
  /\ Permitted(auto)
  /\ Begin(t, [fields EXCEPT !.auto = auto])
  /\ loading' = TRUE /\ error' = None

Request(op) == [Idle EXCEPT !.at = "request", !.op = op, !.incident = shown.incident]

\* createCanonicalIncident, or startFreshDemo, which forgets the stored id first.
\* The loop's own start button needs loading to be over, and before an incident
\* is shown it awaits nothing between that button and its first mutation.
Create(t, auto) ==
  /\ Len(rows) < MaxIncidents /\ (auto => shown.incident = None /\ ~loading)
  /\ RunMutation(t, auto, Request("create"))
  /\ stored' \in {stored, None}

Resume(t) ==
  /\ shown.incident = None /\ stored # None
  /\ RunMutation(t, FALSE, [Idle EXCEPT !.at = "load", !.op = "resume",
                                        !.incident = stored, !.again = TRUE])
  /\ UNCHANGED stored

Dismiss ==
  /\ shown.incident = None /\ ~loading /\ stored # None
  /\ stored' = None
  /\ UNCHANGED <<rows, shown, binding, selected, loading, error, task, calls, faults, overlapped, missed>>

\* The specialist panel prepares the selected container's case, until a run is active.
Prepare(t) ==
  /\ shown.incident # None /\ selected /\ shown.rows.run = "NONE"
  /\ RunMutation(t, FALSE, Request("prepare"))
  /\ UNCHANGED stored

Advance(t, auto) ==
  /\ shown.incident # None
  /\ RunMutation(t, auto, Request("advance"))
  /\ UNCHANGED stored

\* resolveCarrierTarget: the selected container's case, or the demonstration's.
Target ==
  IF selected /\ "OTHER" \in CasesOf(shown.rows) THEN "OTHER"
  ELSE IF "JV2" \in CasesOf(shown.rows) THEN "JV2" ELSE None

Approve(t, auto) ==
  /\ shown.incident # None /\ shown.rows.run = "WAITING" /\ Target # None
  /\ RunMutation(t, auto, [Request("approve") EXCEPT !.target = Target, !.badge = binding])
  /\ UNCHANGED stored

\* The refresh buttons call refresh itself: loading does not cover it.
Refresh(t) ==
  /\ shown.incident # None
  /\ Begin(t, [Idle EXCEPT !.at = "load", !.op = "refresh", !.incident = shown.incident])
  /\ UNCHANGED <<stored, loading, error>>

Select ==
  /\ shown.incident # None
  /\ selected' = ~selected
  /\ UNCHANGED <<rows, shown, binding, stored, loading, error, task, calls, faults, overlapped, missed>>

-----------------------------------------------------------------------------
(***************************************************************************)
(* The server.                                                             *)
(***************************************************************************)
\* An approval of the other case leaves the run where it is.
Performed(r, op, target) ==
  CASE op = "prepare" -> [r EXCEPT !.other = TRUE]
    [] op = "advance" -> [r EXCEPT !.run = IF @ = "NONE" THEN "WAITING" ELSE "SENT"]
    [] op = "approve" /\ target = "JV2" -> [r EXCEPT !.run = "APPROVED"]
    [] OTHER -> r

\* An advance that must wait, or an approval that was given before.
Conflicts(r, op, target) ==
  \/ op = "advance" /\ r.run \in {"WAITING", "SENT"}
  \/ op = "approve" /\ target = "JV2" /\ r.run # "WAITING"

Loads(t, reply, op, incident) ==
  [Idle EXCEPT !.at = "load", !.op = op, !.auto = task[t].auto, !.answer = reply,
               !.incident = incident, !.again = (op = "create")]

\* Mutant: the answer to a mutation ends it.
SkipsRefresh(t, reply, adopted) ==
  IF adopted = None
  THEN task' = [task EXCEPT ![t] = Idle] /\ loading' = FALSE
  ELSE task' = [task EXCEPT ![t] = Loads(t, reply, "create", adopted)] /\ UNCHANGED loading

\* A mutation is followed by a refresh of the incident then shown; a conflict
\* too, once it is displayed.  A creation first adopts its incident.
Follows(t, reply, adopted) ==
  /\ task' = [task EXCEPT ![t] = IF adopted = None THEN Loads(t, reply, None, shown.incident)
                                                   ELSE Loads(t, reply, "create", adopted)]
  /\ UNCHANGED loading

\* The request, its answer and the code up to the next await.
Serve(t) ==
  LET i == task[t].incident  op == task[t].op  target == task[t].target
  IN  /\ task[t].at = "request"
      /\ \/ /\ op = "create"
            /\ rows' = Append(rows, NewRows)
            /\ Follows(t, "ok", Len(rows) + 1)
            /\ UNCHANGED error
         \/ /\ op # "create" /\ ~Conflicts(rows[i], op, target)
            /\ rows' = [rows EXCEPT ![i] = Performed(@, op, target)]
            /\ Follows(t, "ok", None)
            /\ UNCHANGED error
         \/ /\ op # "create" /\ Conflicts(rows[i], op, target)
            /\ error' = "conflict"
            /\ Follows(t, "conflict", None)
            /\ UNCHANGED rows
      /\ UNCHANGED <<shown, binding, selected, stored, calls, faults, overlapped, missed>>

\* The rows a load returns, once the slowest of its requests is answered.
Read(t) ==
  /\ task[t].at = "load"
  /\ task' = [task EXCEPT ![t] = [@ EXCEPT !.at = "bundle", !.copy = rows[task[t].incident]]]
  /\ UNCHANGED <<rows, shown, binding, selected, stored, loading, error, calls, faults, overlapped, missed>>

-----------------------------------------------------------------------------
(***************************************************************************)
(* The end of a function.                                                  *)
(***************************************************************************)

\* applyBundle, the histories it awaits last included.  An adopted incident is
\* then refreshed once more.
Apply(t) ==
  /\ task[t].at = "bundle"
  /\ shown' = [incident |-> task[t].incident, rows |-> task[t].copy]
  /\ binding' = IF task[t].copy.run = "NONE" THEN None ELSE "JV2"
  /\ stored' = task[t].incident
  /\ missed' = FALSE
  /\ IF task[t].again
     THEN /\ task' = [task EXCEPT ![t] = [@ EXCEPT !.at = "load", !.op = None,
                                                   !.copy = None, !.again = FALSE]]
          /\ selected' = (selected /\ task[t].op # "create")
          /\ UNCHANGED loading
     ELSE /\ task' = [task EXCEPT ![t] = Idle]
          /\ loading' = (loading /\ task[t].op = "refresh")
          /\ UNCHANGED selected
  /\ UNCHANGED <<rows, error, calls, faults, overlapped>>

\* Mutant: the controls are given back only on success.
Keeps(t) == loading' = loading

\* finally
Releases(t) == loading' = (loading /\ task[t].op = "refresh")

\* A mutation that was performed and whose answer was lost.  (A creation would
\* leave an incident that nobody knows of.)
Lost(t) ==
  LET i == task[t].incident
  IN  /\ task[t].at = "request" /\ task[t].op # "create"
      /\ ~Conflicts(rows[i], task[t].op, task[t].target)
      /\ rows' = [rows EXCEPT ![i] = Performed(@, task[t].op, task[t].target)]

\* A request is answered with an error, or not at all.  Only an ApiError of a
\* mutation is displayed; after a conflict there is nothing left to catch one.
Fail(t) ==
  /\ faults < MaxFaults /\ faults' = faults + 1
  /\ task[t].at # "idle"
  /\ \/ /\ task[t].op # "refresh" /\ task[t].answer # "conflict"
        /\ error' = "api"
        /\ UNCHANGED <<rows, missed>>
     \/ /\ Lost(t) \/ UNCHANGED rows
        /\ missed' = (missed \/ error = None)
        /\ UNCHANGED error
  /\ task' = [task EXCEPT ![t] = Idle]
  /\ Releases(t)
  /\ UNCHANGED <<shown, binding, selected, stored, calls, overlapped>>

\* The page is loaded again: only the server and the local storage remember.
Reload ==
  /\ faults < MaxFaults /\ faults' = faults + 1
  /\ UNCHANGED rows \/ \E t \in Tasks : Lost(t)
  /\ shown' = EmptyScreen /\ binding' = None /\ selected' = FALSE
  /\ loading' = FALSE /\ error' = None
  /\ task' = [t \in Tasks |-> Idle]
  /\ overlapped' = FALSE /\ missed' = FALSE
  /\ UNCHANGED <<stored, calls>>

Resumes(t) == Serve(t) \/ Read(t) \/ Apply(t)

Starts(t) ==
  \/ \E auto \in BOOLEAN : Create(t, auto) \/ Advance(t, auto) \/ Approve(t, auto)
  \/ Resume(t) \/ Prepare(t) \/ Refresh(t)

Next ==
  \/ \E t \in Tasks : Starts(t) \/ Resumes(t) \/ Fail(t)
  \/ Dismiss \/ Select \/ Reload

Spec == Init /\ [][Next]_vars

\* Every request is answered or fails.
FairSpec == Spec /\ \A t \in Tasks : WF_vars(Resumes(t) \/ Fail(t))

-----------------------------------------------------------------------------
\* Whatever is in flight asks for rows the server has: incidents are never deleted.
TypeOK ==
  /\ rows \in Seq(RowRecords) /\ task \in [Tasks -> TaskRecords]
  /\ shown \in [incident : DOMAIN rows \cup {None}, rows : RowRecords]
  /\ binding \in {None, "JV2"} /\ selected \in BOOLEAN
  /\ stored \in DOMAIN rows \cup {None}
  /\ loading \in BOOLEAN /\ error \in {None, "api", "conflict"}
  /\ \A t \in Tasks :
       /\ task[t].at \in {"load", "bundle"} \/ (task[t].at = "request" /\ task[t].op # "create")
            => task[t].incident \in DOMAIN rows
       /\ task[t].at = "request" /\ task[t].op # "create" => shown.incident # None
       /\ task[t].at = "bundle" => task[t].copy \in RowRecords
  /\ overlapped \in BOOLEAN /\ missed \in BOOLEAN

\* When nothing is in flight, the screen tells the truth about the incident it
\* shows, and a reload of the page would come back to that incident; unless it
\* displays an error, functions overlapped, or a failure was not displayed.
ShowsWhatItDid ==
  Alone /\ error = None /\ ~missed /\ ~overlapped /\ shown.incident # None
    => shown.rows = rows[shown.incident] /\ stored = shown.incident

\* However requests fail and functions overlap, the buttons come back.
ControlsComeBack == loading ~> ~loading

\* The operator authorises what the screen names: the approval sent is the one
\* whose fingerprint is displayed ("fingerprint taken from the persisted
\* binding", "the exact expected payload fingerprint": phase 7 design).
ApprovesWhatIsShown ==
  \A t \in Tasks : task[t].op = "approve" /\ task[t].badge # None
                     => task[t].target = task[t].badge
=============================================================================
