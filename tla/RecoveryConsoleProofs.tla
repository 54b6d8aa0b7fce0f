------------------------ MODULE RecoveryConsoleProofs ------------------------
(***************************************************************************)
(* For any number of functions in flight, incidents, calls and failures:   *)
(* the console's type invariant; that a function which ran alone leaves    *)
(* the screen in step with the server or says that it failed; that a       *)
(* mutation in flight owns the disabled buttons; and that every function   *)
(* runs down.                                                              *)
(*                                                                         *)
(* What a function applies is a copy taken one await earlier.  While no    *)
(* two functions overlap nothing can change the server in between, so the  *)
(* copy is current: CopyIsCurrent and InFlightAlone carry that fact.  The  *)
(* other two hold under any overlap and need neither.                      *)
(***************************************************************************)
EXTENDS RecoveryConsole, TLAPS

InFlightAlone ==
  ~overlapped => \A t, u \in Tasks : task[t].at # "idle" /\ task[u].at # "idle" => t = u

CopyIsCurrent ==
  ~overlapped => \A t \in Tasks :
    task[t].at = "bundle" => task[t].copy = rows[task[t].incident]

IInv == TypeOK /\ InFlightAlone /\ CopyIsCurrent /\ ShowsWhatItDid

-----------------------------------------------------------------------------
LEMMA IdleIsTask == Idle \in TaskRecords /\ Idle.at = "idle"
BY DEF Idle, TaskRecords

LEMMA EmptyScreenIsTyped == EmptyScreen.incident = None /\ EmptyScreen.rows \in RowRecords
BY DEF EmptyScreen, NewRows, RowRecords, Progress

LEMMA InitEstablishes == Init => IInv
<1> SUFFICES ASSUME Init PROVE IInv
  OBVIOUS
<1>1. TypeOK
  <2>1. rows \in Seq(RowRecords)
    BY DEF Init
  <2>2. shown \in [incident : DOMAIN rows \cup {None}, rows : RowRecords]
    BY DEF Init, EmptyScreen, NewRows, RowRecords, Progress
  <2>3. \A t \in Tasks : task[t] = Idle
    BY DEF Init
  <2>4. task \in [Tasks -> TaskRecords]
    BY IdleIsTask DEF Init
  <2> QED
    BY <2>1, <2>2, <2>3, <2>4, IdleIsTask DEF Init, TypeOK
<1>2. InFlightAlone /\ CopyIsCurrent
  BY IdleIsTask DEF Init, InFlightAlone, CopyIsCurrent
<1>3. ShowsWhatItDid
  BY DEF Init, ShowsWhatItDid, EmptyScreen
<1> QED
  BY <1>1, <1>2, <1>3 DEF IInv

\* A function that starts: whatever it asks for exists, and it is not alone
\* unless nothing was in flight.
LEMMA BeginKeeps ==
  ASSUME IInv, NEW t \in Tasks, NEW f \in TaskRecords, Begin(t, f),
         f.at \in {"request", "load"},
         f.at = "load" \/ f.op # "create" => f.incident \in DOMAIN rows,
         f.at = "request" /\ f.op # "create" => shown.incident # None,
         stored' \in DOMAIN rows \cup {None}, loading' \in BOOLEAN,
         error' \in {None, "api", "conflict"}
  PROVE  IInv'
<1>1. /\ task' = [task EXCEPT ![t] = f] /\ overlapped' = ~Alone /\ task[t].at = "idle"
      /\ UNCHANGED <<rows, shown, binding, selected, faults, missed>>
  BY DEF Begin
<1>2. TypeOK'
  BY <1>1 DEF IInv, TypeOK
<1>3. InFlightAlone'
  BY <1>1 DEF IInv, TypeOK, InFlightAlone, Alone
<1>4. CopyIsCurrent'
  BY <1>1 DEF IInv, TypeOK, CopyIsCurrent, Alone
<1>5. ~Alone'
  BY <1>1 DEF IInv, TypeOK, Alone
<1>6. ShowsWhatItDid'
  BY <1>5 DEF ShowsWhatItDid
<1> QED
  BY <1>2, <1>3, <1>4, <1>6 DEF IInv

LEMMA MutationKeeps ==
  ASSUME IInv, NEW t \in Tasks, NEW auto \in BOOLEAN, NEW f \in TaskRecords,
         RunMutation(t, auto, f), f.at \in {"request", "load"},
         f.at = "load" \/ f.op # "create" => f.incident \in DOMAIN rows,
         f.at = "request" /\ f.op # "create" => shown.incident # None,
         stored' \in DOMAIN rows \cup {None}
  PROVE  IInv'
<1> DEFINE g == [f EXCEPT !.auto = auto]
<1>1. g \in TaskRecords /\ g.at = f.at /\ g.op = f.op /\ g.incident = f.incident
  BY DEF TaskRecords
<1>2. Begin(t, g) /\ loading' = TRUE /\ error' = None
  BY DEF RunMutation
<1> HIDE DEF g
<1> QED
  BY <1>1, <1>2, BeginKeeps

LEMMA RequestIsTask ==
  ASSUME TypeOK, NEW op \in Operations
  PROVE  /\ Request(op) \in TaskRecords /\ Request(op).at = "request"
         /\ Request(op).op = op /\ Request(op).incident = shown.incident
<1>1. shown.incident \in Nat \cup {None}
  BY DEF TypeOK
<1> QED
  BY <1>1 DEF Request, Idle, TaskRecords

LEMMA StartsKeeps ==
  ASSUME IInv, NEW t \in Tasks, Starts(t)
  PROVE  IInv'
<1> USE DEF Operations
<1>1. /\ stored \in DOMAIN rows \cup {None} /\ shown.incident \in DOMAIN rows \cup {None}
      /\ DOMAIN rows \subseteq Nat /\ TypeOK
  BY DEF IInv, TypeOK
<1>r. \A op \in Operations : /\ Request(op) \in TaskRecords /\ Request(op).at = "request"
                             /\ Request(op).op = op /\ Request(op).incident = shown.incident
  BY <1>1, RequestIsTask
<1>2. ASSUME NEW auto \in BOOLEAN, Create(t, auto) PROVE IInv'
  <2>1. RunMutation(t, auto, Request("create")) /\ stored' \in {stored, None}
    BY <1>2 DEF Create
  <2>2. Request("create") \in TaskRecords /\ Request("create").at = "request"
          /\ Request("create").op = "create"
    BY <1>r
  <2> QED
    BY <1>1, <2>1, <2>2, MutationKeeps
<1>3. ASSUME NEW auto \in BOOLEAN, Advance(t, auto) PROVE IInv'
  <2>1. RunMutation(t, auto, Request("advance")) /\ stored' = stored /\ shown.incident # None
    BY <1>3 DEF Advance
  <2>2. Request("advance") \in TaskRecords /\ Request("advance").at = "request"
          /\ Request("advance").incident = shown.incident
    BY <1>r
  <2> QED
    BY <1>1, <2>1, <2>2, MutationKeeps
<1>4. ASSUME NEW auto \in BOOLEAN, Approve(t, auto) PROVE IInv'
  <2> DEFINE f == [Request("approve") EXCEPT !.target = Target, !.badge = binding]
  <2>1. Target \in {None, "JV2", "OTHER"} /\ binding \in {None, "JV2"}
    BY DEF IInv, TypeOK, Target
  <2>2. f \in TaskRecords /\ f.at = "request" /\ f.incident = shown.incident
    <3>1. Request("approve") \in TaskRecords /\ Request("approve").at = "request"
            /\ Request("approve").incident = shown.incident
      BY <1>r
    <3> QED
      BY <2>1, <3>1 DEF TaskRecords
  <2>3. shown.incident \in DOMAIN rows /\ shown.incident # None
    BY <1>1, <1>4 DEF Approve
  <2>4. RunMutation(t, auto, f) /\ stored' = stored
    BY <1>4 DEF Approve
  <2> HIDE DEF f
  <2> QED
    BY <1>1, <2>2, <2>3, <2>4, MutationKeeps
<1>5. CASE Resume(t)
  <2> DEFINE f == [Idle EXCEPT !.at = "load", !.op = "resume", !.incident = stored, !.again = TRUE]
  <2>1. f \in TaskRecords /\ f.at = "load" /\ f.incident = stored
    BY <1>1 DEF Idle, TaskRecords
  <2>2. RunMutation(t, FALSE, f) /\ stored' = stored /\ stored # None
    BY <1>5 DEF Resume
  <2> HIDE DEF f
  <2> QED
    BY <1>1, <2>1, <2>2, MutationKeeps
<1>6. CASE Prepare(t)
  <2>1. RunMutation(t, FALSE, Request("prepare")) /\ stored' = stored /\ shown.incident # None
    BY <1>6 DEF Prepare
  <2>2. Request("prepare") \in TaskRecords /\ Request("prepare").at = "request"
          /\ Request("prepare").incident = shown.incident
    BY <1>r
  <2> QED
    BY <1>1, <2>1, <2>2, MutationKeeps
<1>7. CASE Refresh(t)
  <2> DEFINE f == [Idle EXCEPT !.at = "load", !.op = "refresh", !.incident = shown.incident]
  <2>1. f \in TaskRecords /\ f.at = "load" /\ f.incident = shown.incident
    BY <1>1 DEF Idle, TaskRecords
  <2>2. Begin(t, f) /\ UNCHANGED <<stored, loading, error>> /\ shown.incident # None
    BY <1>7 DEF Refresh
  <2> HIDE DEF f
  <2>3. loading \in BOOLEAN /\ error \in {None, "api", "conflict"}
    BY DEF IInv, TypeOK
  <2> QED
    BY <1>1, <2>1, <2>2, <2>3, BeginKeeps
<1> QED
  BY <1>2, <1>3, <1>4, <1>5, <1>6, <1>7 DEF Starts
-----------------------------------------------------------------------------
\* A step of one function in flight that leaves it in flight, or ends it.
LEMMA OneStaysAlone ==
  ASSUME IInv, NEW t \in Tasks, task[t].at # "idle", NEW f \in TaskRecords,
         task' = [task EXCEPT ![t] = f], overlapped' = overlapped
  PROVE  InFlightAlone'
BY DEF IInv, TypeOK, InFlightAlone

\* While it is the only one, the server changes under nobody's copy.
LEMMA ServerMoves ==
  ASSUME IInv, NEW t \in Tasks, task[t].at # "idle", NEW f \in TaskRecords,
         task' = [task EXCEPT ![t] = f], overlapped' = overlapped,
         f.at = "bundle" => f.copy = rows'[f.incident]
  PROVE  CopyIsCurrent'
<1> SUFFICES ASSUME ~overlapped, NEW u \in Tasks, task'[u].at = "bundle"
             PROVE  task'[u].copy = rows'[task'[u].incident]
  BY DEF CopyIsCurrent
<1>1. CASE u = t
  BY <1>1 DEF IInv, TypeOK
<1>2. CASE u # t
  BY <1>2 DEF IInv, TypeOK, InFlightAlone
<1> QED
  BY <1>1, <1>2

LEMMA PerformedIsTyped ==
  ASSUME NEW r \in RowRecords, NEW op, NEW target
  PROVE  Performed(r, op, target) \in RowRecords
BY DEF Performed, RowRecords, Progress

LEMMA LoadsIsTask ==
  ASSUME TypeOK, NEW t \in Tasks, NEW reply \in {"ok", "conflict"},
         NEW op \in Operations \cup {None}, NEW i \in Nat
  PROVE  /\ Loads(t, reply, op, i) \in TaskRecords /\ Loads(t, reply, op, i).at = "load"
         /\ Loads(t, reply, op, i).incident = i
<1>1. task[t].auto \in BOOLEAN
  BY DEF TypeOK, TaskRecords
<1> QED
  BY <1>1 DEF Loads, Idle, TaskRecords

\* The rows only grow and keep their type.
LEMMA LoadKeeps ==
  ASSUME IInv, NEW t \in Tasks, task[t].at # "idle", NEW f \in TaskRecords, f.at = "load",
         f.incident \in DOMAIN rows', task' = [task EXCEPT ![t] = f],
         rows' \in Seq(RowRecords), DOMAIN rows \subseteq DOMAIN rows',
         error' \in {None, "api", "conflict"},
         UNCHANGED <<shown, binding, selected, stored, loading, overlapped, missed>>
  PROVE  IInv'
<1>1. TypeOK'
  BY DEF IInv, TypeOK
<1>2. InFlightAlone' /\ CopyIsCurrent'
  BY OneStaysAlone, ServerMoves
<1>3. ~Alone'
  BY DEF IInv, TypeOK, Alone
<1>4. ShowsWhatItDid'
  BY <1>3 DEF ShowsWhatItDid
<1> QED
  BY <1>1, <1>2, <1>4 DEF IInv

LEMMA ServeKeeps ==
  ASSUME IInv, NEW t \in Tasks, Serve(t)
  PROVE  IInv'
<1> DEFINE i == task[t].incident
           op == task[t].op
           target == task[t].target
<1>1. /\ TypeOK /\ task[t].at = "request" /\ task[t] \in TaskRecords
      /\ UNCHANGED <<shown, binding, selected, stored, overlapped, missed>>
      /\ error \in {None, "api", "conflict"} /\ rows \in Seq(RowRecords)
  BY DEF IInv, TypeOK, Serve
<1>2. CASE op = "create" /\ rows' = Append(rows, NewRows)
            /\ Follows(t, "ok", Len(rows) + 1) /\ UNCHANGED error
  <2> DEFINE f == Loads(t, "ok", "create", Len(rows) + 1)
  <2>1. Len(rows) + 1 \in Nat /\ Len(rows) + 1 # None
    BY <1>1, NoneAssumption
  <2>2. task' = [task EXCEPT ![t] = f] /\ UNCHANGED loading
    BY <1>2, <2>1 DEF Follows
  <2>3. f \in TaskRecords /\ f.at = "load" /\ f.incident = Len(rows) + 1
    BY <1>1, <2>1, LoadsIsTask DEF Operations
  <2>4. NewRows \in RowRecords
    BY DEF NewRows, RowRecords, Progress
  <2>5. rows' \in Seq(RowRecords) /\ Len(rows') = Len(rows) + 1
    BY <1>1, <1>2, <2>4
  <2>6. DOMAIN rows \subseteq DOMAIN rows' /\ Len(rows) + 1 \in DOMAIN rows'
    BY <1>1, <2>5
  <2> HIDE DEF f
  <2> QED
    BY <1>1, <1>2, <2>2, <2>3, <2>5, <2>6, LoadKeeps
<1>3. CASE op # "create" /\ rows' = [rows EXCEPT ![i] = Performed(@, op, target)]
            /\ Follows(t, "ok", None) /\ UNCHANGED error
  <2> DEFINE f == Loads(t, "ok", None, shown.incident)
  <2>1. shown.incident \in DOMAIN rows /\ i \in DOMAIN rows /\ DOMAIN rows \subseteq Nat
    BY <1>1, <1>3 DEF TypeOK
  <2>2. task' = [task EXCEPT ![t] = f] /\ UNCHANGED loading
    BY <1>3 DEF Follows
  <2>3. f \in TaskRecords /\ f.at = "load" /\ f.incident = shown.incident
    <3>1. None \in Operations \cup {None} /\ shown.incident \in Nat
      BY <2>1
    <3> QED
      BY <1>1, <3>1, LoadsIsTask
  <2>4. rows' \in Seq(RowRecords) /\ DOMAIN rows' = DOMAIN rows
    BY <1>1, <1>3, <2>1, PerformedIsTyped
  <2> HIDE DEF f
  <2> QED
    BY <1>1, <1>3, <2>1, <2>2, <2>3, <2>4, LoadKeeps
<1>4. CASE op # "create" /\ error' = "conflict"
            /\ Follows(t, "conflict", None) /\ UNCHANGED rows
  <2> DEFINE f == Loads(t, "conflict", None, shown.incident)
  <2>1. shown.incident \in DOMAIN rows /\ DOMAIN rows \subseteq Nat
    BY <1>1, <1>4 DEF TypeOK
  <2>2. task' = [task EXCEPT ![t] = f] /\ UNCHANGED loading
    BY <1>4 DEF Follows
  <2>3. f \in TaskRecords /\ f.at = "load" /\ f.incident = shown.incident
    <3>1. None \in Operations \cup {None} /\ shown.incident \in Nat
      BY <2>1
    <3> QED
      BY <1>1, <3>1, LoadsIsTask
  <2> HIDE DEF f
  <2> QED
    BY <1>1, <1>4, <2>1, <2>2, <2>3, LoadKeeps
<1> QED
  BY <1>2, <1>3, <1>4 DEF Serve

LEMMA ReadKeeps ==
  ASSUME IInv, NEW t \in Tasks, Read(t)
  PROVE  IInv'
<1> DEFINE f == [task[t] EXCEPT !.at = "bundle", !.copy = rows[task[t].incident]]
<1>1. /\ task[t].at = "load" /\ task[t].incident \in DOMAIN rows /\ task[t] \in TaskRecords
      /\ rows \in Seq(RowRecords)
      /\ UNCHANGED <<rows, shown, binding, selected, stored, loading, error, overlapped, missed>>
  BY DEF IInv, TypeOK, Read
<1>2. /\ f \in TaskRecords /\ f.at = "bundle" /\ f.copy = rows[f.incident]
      /\ f.incident \in DOMAIN rows /\ f.copy \in RowRecords
  <2>1. rows[task[t].incident] \in RowRecords
    BY <1>1
  <2> QED
    BY <1>1, <2>1 DEF TaskRecords
<1>3. task' = [task EXCEPT ![t] = f]
  BY DEF Read
<1> HIDE DEF f
<1>4. TypeOK'
  BY <1>1, <1>2, <1>3 DEF IInv, TypeOK
<1>5. InFlightAlone' /\ CopyIsCurrent'
  BY <1>1, <1>2, <1>3, OneStaysAlone, ServerMoves
<1>6. ShowsWhatItDid'
  BY <1>1, <1>2, <1>3 DEF IInv, TypeOK, ShowsWhatItDid, Alone
<1> QED
  BY <1>4, <1>5, <1>6 DEF IInv

LEMMA ApplyKeeps ==
  ASSUME IInv, NEW t \in Tasks, Apply(t)
  PROVE  IInv'
<1> DEFINE g == [task[t] EXCEPT !.at = "load", !.op = None, !.copy = None, !.again = FALSE]
           f == IF task[t].again THEN g ELSE Idle
<1>1. /\ task[t].at = "bundle" /\ task[t].incident \in DOMAIN rows /\ task[t] \in TaskRecords
      /\ task[t].copy \in RowRecords
      /\ UNCHANGED <<rows, error, overlapped>> /\ missed' = FALSE
      /\ shown' = [incident |-> task[t].incident, rows |-> task[t].copy]
      /\ stored' = task[t].incident /\ binding' \in {None, "JV2"}
  BY DEF IInv, TypeOK, Apply
<1>2. g \in TaskRecords /\ g.at = "load" /\ g.incident = task[t].incident
  BY <1>1 DEF TaskRecords
<1>3. /\ f \in TaskRecords /\ f.at \in {"idle", "load"}
      /\ f.at = "load" => f.incident \in DOMAIN rows
  BY <1>1, <1>2, IdleIsTask
<1>4. task' = [task EXCEPT ![t] = f]
  BY DEF Apply
<1>5. loading' \in BOOLEAN /\ selected' \in BOOLEAN
  BY DEF IInv, TypeOK, Apply
<1> HIDE DEF f
<1>6. TypeOK'
  <2>1. shown' \in [incident : DOMAIN rows \cup {None}, rows : RowRecords]
    BY <1>1
  <2>2. task' \in [Tasks -> TaskRecords]
    BY <1>3, <1>4 DEF IInv, TypeOK
  <2>3. ASSUME NEW u \in Tasks
        PROVE  /\ task'[u].at \in {"load", "bundle"} \/ (task'[u].at = "request" /\ task'[u].op # "create")
                    => task'[u].incident \in DOMAIN rows
               /\ task'[u].at = "request" /\ task'[u].op # "create" => shown'.incident # None
               /\ task'[u].at = "bundle" => task'[u].copy \in RowRecords
    <3>1. CASE u = t
      BY <1>3, <1>4, <3>1 DEF IInv, TypeOK
    <3>2. CASE u # t
      <4>1. task'[u] = task[u]
        BY <1>4, <3>2 DEF IInv, TypeOK
      <4>2. shown'.incident # None
        BY <1>1, NoneAssumption DEF IInv, TypeOK
      <4> QED
        BY <4>1, <4>2 DEF IInv, TypeOK
    <3> QED
      BY <3>1, <3>2
  <2> QED
    BY <1>1, <1>5, <2>1, <2>2, <2>3 DEF IInv, TypeOK
<1>7. InFlightAlone' /\ CopyIsCurrent'
  BY <1>1, <1>3, <1>4, OneStaysAlone, ServerMoves
<1>8. ShowsWhatItDid'
  BY <1>1 DEF IInv, CopyIsCurrent, ShowsWhatItDid
<1> QED
  BY <1>6, <1>7, <1>8 DEF IInv

LEMMA LostIsTyped ==
  ASSUME TypeOK, NEW t \in Tasks, Lost(t)
  PROVE  /\ rows' \in Seq(RowRecords) /\ DOMAIN rows' = DOMAIN rows
         /\ task[t].at = "request"
<1> DEFINE i == task[t].incident
<1>1. /\ i \in DOMAIN rows /\ task[t].at = "request"
      /\ rows' = [rows EXCEPT ![i] = Performed(@, task[t].op, task[t].target)]
  BY DEF TypeOK, Lost
<1> QED
  BY <1>1, PerformedIsTyped DEF TypeOK

LEMMA FailKeeps ==
  ASSUME IInv, NEW t \in Tasks, Fail(t)
  PROVE  IInv'
<1>1. /\ task[t].at # "idle" /\ task' = [task EXCEPT ![t] = Idle] /\ TypeOK
      /\ UNCHANGED <<shown, binding, selected, stored, overlapped>>
      /\ \/ error' = "api"
         \/ error' = error /\ missed' = (missed \/ error = None)
  BY DEF IInv, Fail
<1>2. rows' \in Seq(RowRecords) /\ DOMAIN rows' = DOMAIN rows
  <2>1. rows' = rows \/ Lost(t)
    BY DEF Fail
  <2> QED
    BY <1>1, <2>1, LostIsTyped DEF TypeOK
<1>3. loading' \in BOOLEAN /\ missed' \in BOOLEAN
  BY DEF IInv, TypeOK, Fail, Releases
<1>4. TypeOK'
  <2>1. error' \in {None, "api", "conflict"}
    BY <1>1 DEF TypeOK
  <2>2. task' \in [Tasks -> TaskRecords]
    BY <1>1, IdleIsTask DEF TypeOK
  <2>3. \A u \in Tasks : task'[u] = task[u] \/ task'[u].at = "idle"
    BY <1>1, IdleIsTask DEF TypeOK
  <2> QED
    BY <1>1, <1>2, <1>3, <2>1, <2>2, <2>3 DEF TypeOK
<1>5. InFlightAlone' /\ CopyIsCurrent'
  BY <1>1, IdleIsTask, OneStaysAlone, ServerMoves
<1>6. ShowsWhatItDid'
  <2>1. error' # None \/ missed'
    BY <1>1, NoneAssumption DEF TypeOK
  <2> QED
    BY <2>1 DEF ShowsWhatItDid
<1> QED
  BY <1>4, <1>5, <1>6 DEF IInv

LEMMA ReloadKeeps ==
  ASSUME IInv, Reload
  PROVE  IInv'
<1>1. /\ task' = [t \in Tasks |-> Idle] /\ shown' = EmptyScreen /\ stored' = stored
      /\ binding' = None /\ selected' = FALSE /\ loading' = FALSE /\ error' = None
      /\ overlapped' = FALSE /\ missed' = FALSE
      /\ rows' = rows \/ \E t \in Tasks : Lost(t)
  BY DEF Reload
<1>2. rows' \in Seq(RowRecords) /\ DOMAIN rows' = DOMAIN rows
  BY <1>1, LostIsTyped DEF IInv, TypeOK
<1>3. EmptyScreen \in [incident : DOMAIN rows \cup {None}, rows : RowRecords]
  BY DEF EmptyScreen, NewRows, RowRecords, Progress
<1>4. TypeOK'
  BY <1>1, <1>2, <1>3, IdleIsTask DEF IInv, TypeOK
<1>5. InFlightAlone' /\ CopyIsCurrent'
  BY <1>1, IdleIsTask DEF InFlightAlone, CopyIsCurrent
<1>6. ShowsWhatItDid'
  BY <1>1, EmptyScreenIsTyped DEF ShowsWhatItDid
<1> QED
  BY <1>4, <1>5, <1>6 DEF IInv

LEMMA StepKeeps == IInv /\ [Next]_vars => IInv'
<1> SUFFICES ASSUME IInv, [Next]_vars PROVE IInv'
  OBVIOUS
<1>1. ASSUME NEW t \in Tasks, Starts(t) PROVE IInv'
  BY <1>1, StartsKeeps
<1>2. ASSUME NEW t \in Tasks, Resumes(t) PROVE IInv'
  BY <1>2, ServeKeeps, ReadKeeps, ApplyKeeps DEF Resumes
<1>3. ASSUME NEW t \in Tasks, Fail(t) PROVE IInv'
  BY <1>3, FailKeeps
<1>4. CASE Dismiss
  BY <1>4 DEF Dismiss, IInv, TypeOK, InFlightAlone, CopyIsCurrent, ShowsWhatItDid, Alone
<1>5. CASE Select
  BY <1>5 DEF Select, IInv, TypeOK, InFlightAlone, CopyIsCurrent, ShowsWhatItDid, Alone
<1>6. CASE Reload
  BY <1>6, ReloadKeeps
<1>7. CASE UNCHANGED vars
  BY <1>7 DEF vars, IInv, TypeOK, InFlightAlone, CopyIsCurrent, ShowsWhatItDid, Alone
<1> QED
  BY <1>1, <1>2, <1>3, <1>4, <1>5, <1>6, <1>7 DEF Next

-----------------------------------------------------------------------------
LEMMA Invariance == Spec => []IInv
BY InitEstablishes, StepKeeps, PTL DEF Spec

\* Whatever overlaps, is lost or is reloaded, the console's state keeps its
\* types: every request in flight is about an incident the server has, and
\* what the page remembers can be resumed.
THEOREM ConsoleIsTyped == Spec => []TypeOK
BY Invariance, PTL DEF IInv

\* A function of useRecoveryConsole that ran alone leaves the screen in step
\* with the server's rows and with the stored incident, or shows its failure.
THEOREM ScreenIsTruthful == Spec => []ShowsWhatItDid
BY Invariance, PTL DEF IInv

-----------------------------------------------------------------------------
(***************************************************************************)
(* The controls.  Disabled buttons belong to a mutation in flight, and     *)
(* every function in flight has ever less to do.                           *)
(***************************************************************************)
Owns(t) == task[t].at # "idle" /\ task[t].op # "refresh"

Owned == loading => \E t \in Tasks : Owns(t)

\* The awaits a function has left: a request and its load, and for an adopted
\* incident a second load.
Left(t) ==
  CASE task[t].at = "request" -> 5
    [] task[t].at = "load" -> IF task[t].again THEN 4 ELSE 2
    [] task[t].at = "bundle" -> IF task[t].again THEN 3 ELSE 1
    [] OTHER -> 0

\* A function that starts, or goes on, owns the controls if it is a mutation.
LEMMA OwnerMoves ==
  ASSUME IInv, Owned, NEW t \in Tasks, NEW f, task' = [task EXCEPT ![t] = f],
         \/ loading' = FALSE
         \/ f.at # "idle" /\ f.op # "refresh"
         \/ loading' = loading /\ (Owns(t) => f.at # "idle" /\ f.op # "refresh")
  PROVE  Owned'
<1> SUFFICES ASSUME loading' # FALSE PROVE \E u \in Tasks : Owns(u)'
  BY DEF Owned
<1>1. /\ task'[t] = f
      /\ \A u \in Tasks : u # t => task'[u] = task[u]
  BY DEF IInv, TypeOK
<1>2. CASE f.at # "idle" /\ f.op # "refresh"
  BY <1>1, <1>2 DEF Owns
<1>3. CASE loading' = loading /\ (Owns(t) => f.at # "idle" /\ f.op # "refresh")
  <2>1. PICK u \in Tasks : Owns(u)
    BY <1>3 DEF Owned, IInv, TypeOK
  <2> QED
    BY <1>1, <1>3, <2>1 DEF Owns
<1> QED
  BY <1>2, <1>3

LEMMA StartsOwn == ASSUME IInv, Owned, NEW t \in Tasks, Starts(t) PROVE Owned'
<1>r. \A op \in Operations : /\ Request(op) \in TaskRecords /\ Request(op).at = "request"
                             /\ Request(op).op = op
  BY RequestIsTask DEF IInv
<1>m. ASSUME NEW auto \in BOOLEAN, NEW f \in TaskRecords, RunMutation(t, auto, f),
             f.at # "idle", f.op # "refresh"
      PROVE  Owned'
  <2> DEFINE g == [f EXCEPT !.auto = auto]
  <2>1. g.at = f.at /\ g.op = f.op
    BY <1>m DEF TaskRecords
  <2>2. task' = [task EXCEPT ![t] = g]
    BY <1>m DEF RunMutation, Begin
  <2> HIDE DEF g
  <2> QED
    BY <1>m, <2>1, <2>2, OwnerMoves
<1>1. ASSUME NEW op \in Operations, op # "refresh", NEW auto \in BOOLEAN,
             RunMutation(t, auto, Request(op))
      PROVE  Owned'
  <2>1. Request(op) \in TaskRecords /\ Request(op).at # "idle" /\ Request(op).op # "refresh"
    BY <1>1, <1>r
  <2> QED
    BY <1>1, <1>m, <2>1
<1>2. ASSUME NEW auto \in BOOLEAN, Create(t, auto) \/ Advance(t, auto) PROVE Owned'
  BY <1>1, <1>2 DEF Create, Advance, Operations
<1>3. ASSUME NEW auto \in BOOLEAN, Approve(t, auto) PROVE Owned'
  <2> DEFINE f == [Request("approve") EXCEPT !.target = Target, !.badge = binding]
  <2>1. Target \in {None, "JV2", "OTHER"} /\ binding \in {None, "JV2"}
    BY DEF IInv, TypeOK, Target
  <2>2. Request("approve") \in TaskRecords /\ Request("approve").at = "request"
          /\ Request("approve").op = "approve"
    BY <1>r DEF Operations
  <2>3. f \in TaskRecords /\ f.at # "idle" /\ f.op # "refresh"
    BY <2>1, <2>2 DEF TaskRecords
  <2>4. RunMutation(t, auto, f)
    BY <1>3 DEF Approve
  <2> HIDE DEF f
  <2> QED
    BY <1>m, <2>3, <2>4
<1>4. CASE Resume(t)
  <2> DEFINE f == [Idle EXCEPT !.at = "load", !.op = "resume", !.incident = stored, !.again = TRUE]
  <2>0. stored \in Nat \cup {None}
    BY DEF IInv, TypeOK
  <2>1. f \in TaskRecords /\ f.at # "idle" /\ f.op # "refresh"
    BY <2>0 DEF Idle, TaskRecords, Operations
  <2>2. RunMutation(t, FALSE, f)
    BY <1>4 DEF Resume
  <2> HIDE DEF f
  <2> QED
    BY <1>m, <2>1, <2>2
<1>5. CASE Prepare(t)
  BY <1>1, <1>5 DEF Prepare, Operations
<1>6. CASE Refresh(t)
  <2>1. task[t].at = "idle" /\ loading' = loading
    BY <1>6 DEF Refresh, Begin
  <2>2. PICK f : task' = [task EXCEPT ![t] = f]
    BY <1>6 DEF Refresh, Begin
  <2> QED
    BY <2>1, <2>2, OwnerMoves DEF Owns
<1> QED
  BY <1>2, <1>3, <1>4, <1>5, <1>6 DEF Starts

LEMMA ResumesOwns == ASSUME IInv, Owned, NEW t \in Tasks, Resumes(t) PROVE Owned'
<1>1. CASE Serve(t)
  <2>1. PICK reply, op : /\ op # "refresh" /\ loading' = loading
                         /\ \E i : task' = [task EXCEPT ![t] = Loads(t, reply, op, i)]
    BY <1>1, NoneAssumption DEF Serve, Follows
  <2>2. \A i : Loads(t, reply, op, i).at = "load" /\ Loads(t, reply, op, i).op = op
    BY DEF Loads, Idle
  <2> QED
    BY <2>1, <2>2, OwnerMoves
<1>2. CASE Read(t)
  <2> DEFINE f == [task[t] EXCEPT !.at = "bundle", !.copy = rows[task[t].incident]]
  <2>1. f.at = "bundle" /\ f.op = task[t].op
    BY DEF IInv, TypeOK, TaskRecords
  <2>2. task' = [task EXCEPT ![t] = f] /\ loading' = loading
    BY <1>2 DEF Read
  <2> HIDE DEF f
  <2> QED
    BY <2>1, <2>2, OwnerMoves DEF Owns
<1>3. CASE Apply(t) /\ task[t].again
  <2> DEFINE f == [task[t] EXCEPT !.at = "load", !.op = None, !.copy = None, !.again = FALSE]
  <2>1. f.at = "load" /\ f.op # "refresh"
    BY NoneAssumption DEF IInv, TypeOK, TaskRecords
  <2>2. task' = [task EXCEPT ![t] = f] /\ loading' = loading
    BY <1>3 DEF Apply
  <2> HIDE DEF f
  <2> QED
    BY <2>1, <2>2, OwnerMoves
<1>4. CASE Apply(t) /\ ~task[t].again
  <2>1. task' = [task EXCEPT ![t] = Idle] /\ loading' = (loading /\ task[t].op = "refresh")
    BY <1>4 DEF Apply
  <2> QED
    BY <2>1, OwnerMoves DEF Owns, IInv, TypeOK
<1> QED
  BY <1>1, <1>2, <1>3, <1>4 DEF Resumes

LEMMA OwnedStays == IInv /\ Owned /\ [Next]_vars => Owned'
<1> SUFFICES ASSUME IInv, Owned, [Next]_vars PROVE Owned'
  OBVIOUS
<1>1. ASSUME NEW t \in Tasks, Fail(t) PROVE Owned'
  <2>1. task' = [task EXCEPT ![t] = Idle] /\ loading' = (loading /\ task[t].op = "refresh")
    BY <1>1 DEF Fail, Releases
  <2> QED
    BY <2>1, OwnerMoves DEF Owns, IInv, TypeOK
<1>2. CASE Reload
  BY <1>2 DEF Reload, Owned
<1>3. CASE Dismiss \/ Select \/ UNCHANGED vars
  BY <1>3 DEF Dismiss, Select, vars, Owned, Owns
<1> QED
  BY <1>1, <1>2, <1>3, StartsOwn, ResumesOwns DEF Next

\* Disabled buttons are a mutation's in flight: no overlap with a refresh or
\* with Auto Replay, no failure and no conflict leaves them disabled by nobody.
THEOREM DisabledByAMutation ==
  Spec => [](loading => \E t \in Tasks : task[t].at # "idle" /\ task[t].op # "refresh")
<1>1. Init => Owned
  BY DEF Init, Owned
<1> QED
  BY <1>1, InitEstablishes, StepKeeps, OwnedStays, PTL DEF Spec, Owned, Owns

-----------------------------------------------------------------------------
RunsDown ==
  \A t \in Tasks :
    /\ Resumes(t) \/ Fail(t) => Left(t)' < Left(t)
    /\ Left(t)' > Left(t) => Starts(t)

LEMMA ResumesRunsDown ==
  ASSUME IInv, NEW t \in Tasks, Resumes(t) \/ Fail(t)
  PROVE  Left(t)' < Left(t)
<1>1. CASE Serve(t)
  <2>1. PICK reply, op, i : task' = [task EXCEPT ![t] = Loads(t, reply, op, i)]
    BY <1>1 DEF Serve, Follows
  <2>2. task'[t].at = "load"
    BY <2>1 DEF IInv, TypeOK, Loads, Idle
  <2>3. Left(t)' \in {2, 4} /\ Left(t) = 5
    BY <1>1, <2>2 DEF Left, Serve
  <2> QED
    BY <2>3
<1>2. CASE Read(t)
  <2>1. /\ task[t].at = "load" /\ task'[t].at = "bundle" /\ task'[t].again = task[t].again
    BY <1>2 DEF Read, IInv, TypeOK, TaskRecords
  <2> QED
    BY <2>1 DEF Left
<1>3. CASE Apply(t) /\ task[t].again
  <2> DEFINE f == [task[t] EXCEPT !.at = "load", !.op = None, !.copy = None, !.again = FALSE]
  <2>1. f.at = "load" /\ f.again = FALSE
    BY DEF IInv, TypeOK, TaskRecords
  <2>2. task' = [task EXCEPT ![t] = f] /\ task[t].at = "bundle"
    BY <1>3 DEF Apply
  <2> HIDE DEF f
  <2>3. task'[t].at = "load" /\ task'[t].again = FALSE
    BY <2>1, <2>2 DEF IInv, TypeOK
  <2> QED
    BY <1>3, <2>2, <2>3 DEF Left
<1>4. CASE Apply(t) /\ ~task[t].again
  <2>1. task[t].at = "bundle" /\ task'[t].at = "idle"
    BY <1>4, IdleIsTask DEF Apply, IInv, TypeOK
  <2> QED
    BY <1>4, <2>1 DEF Left
<1>5. CASE Fail(t)
  <2>1. task[t].at \in {"request", "load", "bundle"} /\ task'[t].at = "idle"
    BY <1>5, IdleIsTask DEF Fail, IInv, TypeOK, TaskRecords
  <2>2. Left(t) \in 1..5 /\ Left(t)' = 0
    BY <2>1 DEF Left
  <2> QED
    BY <2>2
<1> QED
  BY <1>1, <1>2, <1>3, <1>4, <1>5 DEF Resumes

\* A step of one function leaves what the others have left alone.
LEMMA OthersWait ==
  ASSUME IInv, NEW t \in Tasks, NEW u \in Tasks, Starts(u) \/ Resumes(u) \/ Fail(u), t # u
  PROVE  Left(t)' = Left(t)
<1>1. ASSUME NEW f, task' = [task EXCEPT ![u] = f] PROVE task'[t] = task[t]
  BY <1>1 DEF IInv, TypeOK
<1>2. \E f : task' = [task EXCEPT ![u] = f]
  <2>1. CASE Starts(u)
    BY <2>1 DEF Starts, Create, Advance, Approve, Resume, Prepare, Refresh, RunMutation, Begin
  <2>2. CASE Resumes(u)
    BY <2>2 DEF Resumes, Serve, Follows, Read, Apply
  <2>3. CASE Fail(u)
    BY <2>3 DEF Fail
  <2> QED
    BY <2>1, <2>2, <2>3
<1> QED
  BY <1>1, <1>2 DEF Left

LEMMA StepRunsDown == IInv /\ [Next]_vars => [RunsDown]_vars
<1> SUFFICES ASSUME IInv, Next, NEW t \in Tasks
             PROVE  /\ Resumes(t) \/ Fail(t) => Left(t)' < Left(t)
                    /\ Left(t)' > Left(t) => Starts(t)
  BY DEF RunsDown
<1>1. Left(t) \in 0..5 /\ Left(t)' \in 0..5
  BY DEF Left
<1>2. Resumes(t) \/ Fail(t) => Left(t)' < Left(t)
  BY ResumesRunsDown
<1>3. Left(t)' > Left(t) => Starts(t)
  <2>1. ASSUME NEW u \in Tasks, Starts(u) \/ Resumes(u) \/ Fail(u), ~Starts(t)
        PROVE  ~(Left(t)' > Left(t))
    BY <1>1, <1>2, <2>1, OthersWait
  <2>2. CASE Dismiss \/ Select
    BY <1>1, <2>2 DEF Dismiss, Select, Left
  <2>3. CASE Reload
    <3>1. task'[t].at = "idle"
      BY <2>3, IdleIsTask DEF Reload
    <3>2. Left(t)' = 0
      BY <3>1 DEF Left
    <3> QED
      BY <1>1, <3>2
  <2> QED
    BY <2>1, <2>2, <2>3 DEF Next
<1> QED
  BY <1>2, <1>3

\* A function in flight comes nearer its end with each answer and each failure
\* it is given, whatever the others do, and only starting again gives it more
\* to wait for: what fairness has to add for ControlsComeBack is the answers.
THEOREM CallsRunDown == Spec => [][RunsDown]_vars
BY Invariance, StepRunsDown, PTL DEF Spec
=============================================================================
