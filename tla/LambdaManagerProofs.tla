-------------------------- MODULE LambdaManagerProofs --------------------------
(* Theorems about LambdaManager, for any calls, revisions and bounds, and about
   BackupRestore, for any names, spellings and backups. *)
EXTENDS LambdaManager, BackupRestore, TLAPS

-------------------------------------------------------------------------------
(* A call's record *)

LEMMA IdleIsNoJob == Idle \notin Jobs
BY DEF Idle, Jobs, Ops

LEMMA BusyHasJob ==
    ASSUME LambdaTypeOK, NEW c \in Callers, Busy(c)
    PROVE  job[c] \in Jobs
BY DEF LambdaTypeOK, Busy

\* A specification is not None.
LEMMA SpecIsSome == None \notin Specs
BY LambdaAssumption

\* What To does to a record: the step is the given one, and a call that is going to
\* launch is as good as a start.
LEMMA ToFacts ==
    ASSUME NEW j \in Jobs, NEW step \in Steps
    PROVE  /\ step = "end" /\ j.op # "restore" => To(j, step) = Idle
           /\ ~(step = "end" /\ j.op # "restore") =>
                 LET k == To(j, step) IN
                 /\ k \in Jobs /\ k # Idle
                 /\ k.at = step /\ k.sel = j.sel /\ k.spec = j.spec /\ k.run = j.run
                 /\ k.snap = j.snap /\ k.then = j.then
                 /\ step = "register" /\ j.op # "restore" => k.op = "start" /\ ~k.was
                 /\ ~(step = "register" /\ j.op # "restore") => k.op = j.op /\ k.was = j.was
<1>1. CASE step = "end" /\ j.op # "restore"
  BY <1>1 DEF To
<1>2. CASE ~(step = "end" /\ j.op # "restore")
  <2>1. CASE step = "register" /\ j.op # "restore"
    <3>1. To(j, step) = [j EXCEPT !.op = "start", !.was = FALSE, !.at = step]
      BY <2>1 DEF To, Alike, Jobs
    <3>2. To(j, step) \in Jobs
      BY <3>1 DEF Jobs, Ops
    <3> QED
      BY <1>2, <2>1, <3>1, <3>2, IdleIsNoJob DEF Jobs
  <2>2. CASE ~(step = "register" /\ j.op # "restore")
    <3>1. To(j, step) = [j EXCEPT !.at = step]
      BY <1>2, <2>2 DEF To, Alike
    <3>2. To(j, step) \in Jobs
      BY <3>1 DEF Jobs
    <3> QED
      BY <1>2, <2>2, <3>1, <3>2, IdleIsNoJob DEF Jobs
  <2> QED
    BY <2>1, <2>2
<1> QED
  BY <1>1, <1>2

\* The record of a call that persists, and then goes to the given step.
Persisting(j, step) ==
    [IF step \in {"snapshot", "end"} THEN Alike(j) ELSE j EXCEPT !.at = "snapshot", !.then = step]

LEMMA PersistFacts ==
    ASSUME NEW j \in Jobs, NEW step \in Steps
    PROVE  LET k == Persisting(j, step) IN
           /\ k \in Jobs /\ k # Idle
           /\ k.at = "snapshot" /\ k.then = step /\ k.sel = j.sel /\ k.spec = j.spec
           /\ k.run = j.run /\ k.snap = j.snap
           /\ j.op = "restore" \/ step \notin {"snapshot", "end"} => k.op = j.op /\ k.was = j.was
           /\ j.op # "restore" /\ step \in {"snapshot", "end"} => k.op = "start" /\ ~k.was
<1>1. CASE step \in {"snapshot", "end"} /\ j.op # "restore"
  <2>1. Persisting(j, step) =
          [j EXCEPT !.op = "start", !.was = FALSE, !.at = "snapshot", !.then = step]
    BY <1>1 DEF Persisting, Alike, Jobs
  <2>2. Persisting(j, step) \in Jobs
    BY <2>1 DEF Jobs, Ops, Steps
  <2> QED
    BY <1>1, <2>1, <2>2, IdleIsNoJob DEF Jobs
<1>2. CASE ~(step \in {"snapshot", "end"} /\ j.op # "restore")
  <2>1. Persisting(j, step) = [j EXCEPT !.at = "snapshot", !.then = step]
    BY <1>2 DEF Persisting, Alike
  <2>2. Persisting(j, step) \in Jobs
    BY <2>1 DEF Jobs, Steps
  <2> QED
    BY <1>2, <2>1, <2>2, IdleIsNoJob DEF Jobs
<1> QED
  BY <1>1, <1>2

\* A request is a call at its first step, with nothing read yet.
LEMMA RequestFacts ==
    ASSUME NEW j \in Requests
    PROVE  /\ j \in Jobs /\ j # Idle /\ j.run = 0 /\ ~j.was /\ j.then = "end" /\ j.spec = None
           /\ j.op # "restore" /\ j.at \in {"resolve", "read", "lookup", "stop"}
           /\ j.at = "resolve" => j.op = "create"
           /\ j.at = "read" => j.op \in {"update", "refresh"}
           /\ j.at = "stop" => j.op \in {"stop", "remove"}
           /\ j.at = "lookup" => j.op = "start"
<1>1. ASSUME NEW op \in {"create", "update", "refresh", "start", "stop", "remove"},
             NEW first \in {"resolve", "read", "lookup", "stop"}, NEW sel \in Selectors
      PROVE  Called(op, first, sel) \in Jobs
  <2>1. op \in Ops /\ first \in Steps /\ "end" \in Steps
    BY DEF Ops, Steps
  <2>2. 0 \in 0..MaxRuns
    BY LambdaAssumption
  <2> QED
    BY <2>1, <2>2 DEF Called, Jobs
<1>2. PICK op \in {"create", "update", "refresh", "start", "stop", "remove"},
           first \in {"resolve", "read", "lookup", "stop"}, sel \in Selectors :
             /\ j = Called(op, first, sel)
             /\ first = "resolve" => op = "create"
             /\ first = "read" => op \in {"update", "refresh"}
             /\ first = "stop" => op \in {"stop", "remove"}
             /\ first = "lookup" => op = "start"
  BY DEF Requests, Selectors
<1>3. /\ j.op = op /\ j.at = first /\ j.run = 0 /\ ~j.was /\ j.then = "end" /\ j.spec = None
  BY <1>2 DEF Called
<1> QED
  BY <1>1, <1>2, <1>3, IdleIsNoJob

-------------------------------------------------------------------------------
(* What a step of one call has to keep *)

\* c moves its record from j, which it has or has just asked for, to k.
Change(c, j, k) ==
    /\ \/ Busy(c) /\ j = job[c]
       \/ ~Busy(c) /\ up /\ j \in Requests
    /\ job' = [job EXCEPT ![c] = k]
    /\ k # Idle => k \in Jobs /\ JobOK(k) /\ (k.op = "restore" <=> j.op = "restore")
    /\ j.op = "restore" => k # Idle

LEMMA ReadyFacts ==
    ASSUME LambdaTypeOK, JobInv, NEW c \in Callers, NEW step, NEW j \in Ready(c, step)
    PROVE  /\ j \in Jobs /\ j # Idle /\ j.at = step /\ JobOK(j)
           /\ \/ Busy(c) /\ j = job[c]
              \/ ~Busy(c) /\ up /\ j \in Requests
           /\ j.op = "restore" => Busy(c)
<1>1. CASE Busy(c)
  <2>1. j = job[c] /\ j.at = step
    BY <1>1 DEF Ready
  <2> QED
    BY <1>1, <2>1, BusyHasJob DEF JobInv, Busy
<1>2. CASE ~Busy(c)
  <2>1. up /\ j \in Requests /\ j.at = step
    BY <1>2 DEF Ready
  <2> QED
    BY <1>2, <2>1, RequestFacts DEF JobOK, Updating, Launching
<1> QED
  BY <1>1, <1>2

LEMMA ChangeTyped ==
    ASSUME LambdaTypeOK, NEW c \in Callers, NEW j, NEW k, Change(c, j, k)
    PROVE  /\ job' \in [Callers -> Jobs \union {Idle}]
           /\ job'[c] = k
           /\ \A d \in Callers \ {c} : job'[d] = job[d]
           /\ Busy(c)' <=> k # Idle
           /\ \A d \in Callers \ {c} : Busy(d)' <=> Busy(d)
BY DEF LambdaTypeOK, Change, Busy

LEMMA ChangeJobs ==
    ASSUME LambdaTypeOK, JobInv, NEW c \in Callers, NEW j, NEW k, Change(c, j, k), UNCHANGED up
    PROVE  JobInv'
<1> SUFFICES ASSUME NEW d \in Callers, Busy(d)'
             PROVE  /\ JobOK(job'[d])
                    /\ job'[d].op = "restore" => ~up /\ \A e \in Callers : Busy(e)' => e = d
                    /\ ~up => job'[d].op = "restore"
  BY DEF JobInv, JobOK
<1>1. CASE d # c
  <2>1. Busy(d) /\ job'[d] = job[d]
    BY <1>1, ChangeTyped
  <2>2. job[d].op = "restore" => ~Busy(c) /\ ~up
    BY <1>1, <2>1 DEF JobInv
  <2>3. ~up => Busy(c) /\ j = job[c] /\ Busy(d) /\ job[d].op = "restore"
    BY <2>1 DEF JobInv, Change
  <2> QED
    BY <1>1, <2>1, <2>2, <2>3, ChangeTyped DEF JobInv, Change
<1>2. CASE d = c
  <2>1. job'[d] = k /\ k # Idle
    BY <1>2, ChangeTyped
  <2>2. JobOK(k) /\ (k.op = "restore" <=> j.op = "restore")
    BY <2>1 DEF Change
  <2>3. j.op = "restore" => Busy(c) /\ j = job[c]
    BY RequestFacts DEF Change
  <2>4. ~up => Busy(c) /\ j = job[c]
    BY DEF Change
  <2> QED
    BY <1>2, <2>1, <2>2, <2>3, <2>4, ChangeTyped DEF JobInv
<1> QED
  BY <1>1, <1>2

\* A step that leaves the manager's books alone, and holds no run.
LEMMA ChangeRuns ==
    ASSUME LambdaTypeOK, RunInv, NEW c \in Callers, NEW j, NEW k, Change(c, j, k),
           UNCHANGED runVars, k = Idle \/ k.run = 0
    PROVE  RunInv'
BY ChangeTyped DEF RunInv, runVars

\* No run is lost by it, and a decision to launch is alone and finds no run.
LEMMA ChangeLaunch ==
    ASSUME LambdaTypeOK, LaunchInv, NEW c \in Callers, NEW j, NEW k, Change(c, j, k),
           UNCHANGED runVars, overlap \subseteq overlap',
           Busy(c) => job[c].run = 0 \/ hashOf[job[c].run] = None,
           "launch" \notin overlap' =>
               /\ Decided(k) => \A d \in Callers \ {c} : ~Decided(job[d])
               /\ k # Idle /\ (k.at \in Launching \/ Emptied(k)) => cur = 0
    PROVE  LaunchInv'
<1> SUFFICES ASSUME "launch" \notin overlap' PROVE LaunchInv'
  BY DEF LaunchInv
<1>1. "launch" \notin overlap
  OBVIOUS
<1>2. \A d, e \in Callers : d # e => ~(Decided(job'[d]) /\ Decided(job'[e]))
  BY <1>1, ChangeTyped DEF LaunchInv
<1>3. \A d \in Callers : Busy(d)' /\ (job'[d].at \in Launching \/ Emptied(job'[d])) => cur' = 0
  BY <1>1, ChangeTyped DEF LaunchInv, runVars
<1>4. ASSUME NEW n \in Runs, hashOf'[n] # None
      PROVE  n = cur' \/ \E d \in Callers : Busy(d)' /\ job'[d].run = n
  <2>1. n = cur \/ \E d \in Callers : Busy(d) /\ job[d].run = n
    BY <1>1, <1>4 DEF LaunchInv, runVars
  <2>2. n # 0
    BY LambdaAssumption DEF Runs
  <2>3. hashOf[n] # None /\ cur' = cur
    BY <1>4 DEF runVars
  <2>4. ASSUME NEW d \in Callers, Busy(d), job[d].run = n
        PROVE  Busy(d)' /\ job'[d].run = n
    <3>1. d # c
      BY <2>2, <2>3, <2>4
    <3> QED
      BY <2>4, <3>1, ChangeTyped
  <2> QED
    BY <2>1, <2>3, <2>4
<1>5. usage' = CurrentRun'
  BY <1>1 DEF LaunchInv, CurrentRun, runVars
<1> QED
  BY <1>2, <1>3, <1>4, <1>5 DEF LaunchInv, Decided, Emptied, Updating

\* It touches no routes: if it is going to, nobody is stopping.
LEMMA ChangeRoutes ==
    ASSUME LambdaTypeOK, RouteInv, NEW c \in Callers, NEW j, NEW k, Change(c, j, k),
           UNCHANGED runVars, UNCHANGED routes, overlap \subseteq overlap',
           ~Doing(c, {"boot", "undo", "enter"} \union Stopping),
           k = Idle \/ k.at \notin {"boot", "undo", "enter"} \union Stopping,
           k # Idle /\ k.at = "register" /\ "stop" \notin overlap' =>
               \A d \in Callers \ {c} : ~Doing(d, Stopping)
    PROVE  RouteInv'
<1> SUFFICES ASSUME overlap' \cap {"launch", "stop"} = {} PROVE RouteInv'
  BY DEF RouteInv
<1>1. overlap \cap {"launch", "stop"} = {} /\ "stop" \notin overlap'
  OBVIOUS
<1>2. ASSUME NEW d \in Callers \ {c}
      PROVE  /\ job'[d] = job[d]
             /\ Doing(d, Stopping)' <=> Doing(d, Stopping)
             /\ Doing(d, Launching)' <=> Doing(d, Launching)
             /\ Doing(d, {"boot", "undo", "enter"})' <=> Doing(d, {"boot", "undo", "enter"})
             /\ Doing(d, {"boot", "undo", "enter"} \union Stopping)' <=>
                   Doing(d, {"boot", "undo", "enter"} \union Stopping)
  BY <1>2, ChangeTyped DEF Doing, Stopping, Launching
<1>3. /\ ~Doing(c, Stopping)' /\ ~Doing(c, {"boot", "undo", "enter"})'
      /\ Doing(c, Launching)' => \A d \in Callers : ~Doing(d, Stopping)
  BY ChangeTyped, <1>1 DEF Doing, Launching, Stopping
<1>4. \A d, e \in Callers : Doing(e, Stopping)' =>
         /\ cur' = 0
         /\ ~Doing(d, Launching)'
         /\ Doing(d, Stopping)' => d = e
  BY <1>1, <1>2, <1>3 DEF RouteInv, runVars
<1>5. \A d \in Callers : Doing(d, {"boot", "undo", "enter"})' => routes' = job'[d].spec.hash
  BY <1>1, <1>2, <1>3 DEF RouteInv
<1>6. (\A d \in Callers : ~Doing(d, {"boot", "undo", "enter"} \union Stopping)') =>
         {routes'} \ {None} = CurrentRun'
  <2>1. (\A d \in Callers : ~Doing(d, {"boot", "undo", "enter"} \union Stopping)') =>
           \A d \in Callers : ~Doing(d, {"boot", "undo", "enter"} \union Stopping)
    BY <1>2 DEF Stopping
  <2>2. CurrentRun' = CurrentRun
    BY DEF CurrentRun, runVars
  <2> QED
    BY <1>1, <2>1, <2>2 DEF RouteInv
<1> QED
  BY <1>4, <1>5, <1>6 DEF RouteInv

\* It changes nothing the row stands for, and does not drop what is to be persisted.
LEMMA ChangeRow ==
    ASSUME LambdaTypeOK, JobInv, RowInv, NEW c \in Callers, NEW j, NEW k, Change(c, j, k),
           UNCHANGED <<spec, cur, row, up>>, overlap \subseteq overlap',
           "row" \notin overlap' =>
               /\ k # Idle /\ k.at = "save" => k.snap = [spec |-> spec, running |-> cur # 0]
               /\ Doing(c, Pending) => \/ k # Idle /\ k.at \in Pending
                                       \/ spec = None
                                       \/ row # None /\ row.running = (cur # 0)
               /\ Doing(c, {"resolve", "insert"}) /\ job[c].op = "restore" =>
                     k.at \in {"resolve", "insert"}
    PROVE  RowInv'
<1>1. ~up => Busy(c) /\ k # Idle /\ job[c].op = "restore"
  BY DEF JobInv, Change
<1>2. ~up' /\ Quiet' => spec' = None
  BY <1>1, ChangeTyped DEF Quiet
<1> SUFFICES ASSUME "row" \notin overlap'
             PROVE  /\ \A d \in Callers : Doing(d, {"save"})' => job'[d].snap = [spec |-> spec', running |-> cur' # 0]
                    /\ up' \/ (\E d \in Callers : Busy(d)' /\ job'[d].at \notin {"resolve", "insert"}) =>
                          /\ spec' = None => row' = None
                          /\ \/ spec' = None
                             \/ row' # None /\ row'.running = (cur' # 0)
                             \/ \E d \in Callers : Doing(d, Pending)'
  BY <1>2 DEF RowInv
<1>3. \A d \in Callers : Doing(d, {"save"})' => job'[d].snap = [spec |-> spec', running |-> cur' # 0]
  BY ChangeTyped DEF RowInv, Doing
<1>4. ASSUME up' \/ \E d \in Callers : Busy(d)' /\ job'[d].at \notin {"resolve", "insert"}
      PROVE  up \/ \E d \in Callers : Busy(d) /\ job[d].at \notin {"resolve", "insert"}
  BY <1>1, <1>4, ChangeTyped DEF Doing
<1>5. ASSUME \E d \in Callers : Doing(d, Pending)
      PROVE  \/ spec = None
             \/ row # None /\ row.running = (cur # 0)
             \/ \E d \in Callers : Doing(d, Pending)'
  BY <1>5, ChangeTyped DEF Doing
<1> QED
  BY <1>3, <1>4, <1>5 DEF RowInv

\* It keeps on the way what is owed.
LEMMA ChangeOwed ==
    ASSUME LambdaTypeOK, JobInv, OwedInv, NEW c \in Callers, NEW j, NEW k, Change(c, j, k),
           UNCHANGED up, owed' => owed /\ Busy(c), owed' /\ ~up => Due(k)'
    PROVE  OwedInv'
<1> SUFFICES ASSUME owed' PROVE OwedInv'
  BY DEF OwedInv
<1>1. owed /\ Busy(c) /\ ~up /\ Due(k)'
  BY DEF OwedInv, Quiet
<1>2. \A d \in Callers \ {c} : ~Busy(d)
  BY <1>1 DEF JobInv
<1>3. k # Idle
  BY <1>1 DEF JobInv, Change
<1> QED
  BY <1>1, <1>2, <1>3, ChangeTyped DEF OwedInv, Quiet, Due

-------------------------------------------------------------------------------
(* The specification: Read, Resolve, Insert, Write *)

\* What a mark that is not set says.
LEMMA Unmet ==
    ASSUME NEW c \in Callers
    PROVE  /\ "launch" \notin MarkDecision(c) => \A d \in Callers \ {c} : ~Decided(job[d])
           /\ "stop" \notin MarkRegister(c) => \A d \in Callers \ {c} : ~Doing(d, Stopping)
           /\ "row" \notin MarkRow(c) => \A d \in Callers \ {c} : ~Doing(d, {"save"})
           /\ MarkDecision(c) \subseteq {"launch"}
           /\ MarkRegister(c) \subseteq {"stop"}
           /\ MarkRow(c) \subseteq {"row"}
BY DEF MarkDecision, MarkRegister, MarkRow, Met, Others, Doing

LEMMA ReadInv ==
    ASSUME LambdaInv, NEW c \in Callers, Read(c)
    PROVE  LambdaInv'
<1> USE DEF LambdaInv
<1> PICK j \in Ready(c, "read") :
        /\ job' = [job EXCEPT ![c] = [j EXCEPT !.at = "resolve", !.spec = spec, !.was = cur # 0,
                          !.sel = IF j.op = "refresh" THEN spec.sel ELSE @]]
        /\ Mark(IF cur # 0 /\ j.op = "update" THEN MarkDecision(c) ELSE {})
  BY DEF Read
<1> PICK k : k = [j EXCEPT !.at = "resolve", !.spec = spec, !.was = cur # 0,
                          !.sel = IF j.op = "refresh" THEN spec.sel ELSE @]
  OBVIOUS
<1>1. /\ spec # None /\ spec \in Specs
      /\ owed' => owed /\ Busy(c)
      /\ UNCHANGED <<loaderVars, managerVars, row, up, mishaps>>
  BY DEF Read, StillOwed, LambdaTypeOK
<1>2. /\ j \in Jobs /\ j # Idle /\ j.at = "read" /\ JobOK(j)
      /\ \/ Busy(c) /\ j = job[c]
         \/ ~Busy(c) /\ up /\ j \in Requests
  BY ReadyFacts
<1>3. /\ k \in Jobs /\ k.at = "resolve" /\ k.op = j.op /\ k.spec = spec /\ k.was = (cur # 0)
      /\ k.run = j.run /\ k.then = j.then
  BY <1>1, <1>2 DEF Jobs, Specs, Steps
<1>4. k # Idle /\ k.run = 0 /\ JobOK(k)
  BY <1>1, <1>2, <1>3, IdleIsNoJob DEF JobOK, Updating, Launching
<1>5. Change(c, j, k)
  BY <1>2, <1>3, <1>4 DEF Change
<1>6. /\ overlap \subseteq overlap' /\ overlap' \subseteq overlap \union {"launch"}
      /\ "launch" \notin overlap' /\ Decided(k) => \A d \in Callers \ {c} : ~Decided(job[d])
  BY <1>3, Unmet DEF Mark, Decided, Launching
<1>7. LambdaTypeOK'
  BY <1>1, <1>5, <1>6, ChangeTyped DEF Read, LambdaTypeOK, StillOwed, managerVars, loaderVars, runVars
<1>8. JobInv' /\ RunInv'
  BY <1>1, <1>4, <1>5, ChangeJobs, ChangeRuns DEF managerVars
<1>9. LaunchInv'
  BY <1>1, <1>2, <1>3, <1>5, <1>6, ChangeLaunch DEF managerVars, JobOK, Launching, Emptied, Stopping
<1>10. RouteInv'
  BY <1>1, <1>2, <1>3, <1>5, <1>6, ChangeRoutes DEF managerVars, Doing, Stopping
<1>11. RowInv'
  BY <1>1, <1>2, <1>3, <1>5, <1>6, ChangeRow DEF managerVars, Doing, Pending, runVars
<1>12. OwedInv'
  <2>1. ~(owed /\ Busy(c))
    BY <1>2 DEF OwedInv, Due, Quiet
  <2> QED
    BY <1>1, <2>1 DEF OwedInv
<1> QED
  BY <1>7, <1>8, <1>9, <1>10, <1>11, <1>12

\* What it resolves to is a revision, or nothing.
LEMMA ResolvedTyped ==
    ASSUME LambdaTypeOK, NEW sel \in Selectors
    PROVE  Resolved(sel) \in Hashes \union {None}
BY DEF LambdaTypeOK, Resolved, Selectors

LEMMA ResolveInv ==
    ASSUME LambdaInv, NEW c \in Callers, Resolve(c)
    PROVE  LambdaInv'
<1> USE DEF LambdaInv
<1>a. PICK j \in Ready(c, "resolve") :
        /\ job' = [job EXCEPT ![c] =
              IF Resolved(j.sel) = None /\ j.op = "refresh" THEN [j EXCEPT !.at = "stop", !.was = FALSE]
              ELSE IF Resolved(j.sel) = None THEN To(j, "end")
              ELSE [j EXCEPT !.at = IF j.op = "refresh" THEN "write" ELSE "insert",
                             !.was = IF j.op = "refresh" THEN j.was /\ j.spec.hash # Resolved(j.sel) ELSE j.was,
                             !.spec = [sel |-> j.sel, hash |-> Resolved(j.sel)], !.sel = "name"]]
        /\ owed' = (StillOwed(c) /\ Resolved(j.sel) # None)
        /\ Mark(Met("row", Resolved(j.sel) = None /\ j.op = "restore"))
  BY DEF Resolve
<1>b. PICK h : h = Resolved(j.sel)
  OBVIOUS
<1>c. PICK k : k = IF h = None /\ j.op = "refresh" THEN [j EXCEPT !.at = "stop", !.was = FALSE]
                 ELSE IF h = None THEN To(j, "end")
                 ELSE [j EXCEPT !.at = IF j.op = "refresh" THEN "write" ELSE "insert",
                             !.was = IF j.op = "refresh" THEN j.was /\ j.spec.hash # h ELSE j.was,
                             !.spec = [sel |-> j.sel, hash |-> h], !.sel = "name"]
  OBVIOUS
<1>1. /\ UNCHANGED <<loaderVars, managerVars, row, up, mishaps>>
      /\ owed' \in BOOLEAN
      /\ owed' => owed /\ Busy(c) /\ h # None
  BY <1>a, <1>b DEF Resolve, StillOwed, LambdaTypeOK
<1>2. /\ j \in Jobs /\ j # Idle /\ j.at = "resolve" /\ JobOK(j) /\ j.run = 0 /\ j.then # "register"
      /\ \/ Busy(c) /\ j = job[c]
         \/ ~Busy(c) /\ up /\ j \in Requests
  BY ReadyFacts DEF JobOK
<1>3. h \in Hashes \union {None} /\ j.sel \in Selectors /\ "name" \in Selectors
  BY <1>b, <1>2, ResolvedTyped DEF Jobs, Selectors
<1>4. /\ k # Idle =>
            /\ k \in Jobs /\ JobOK(k) /\ k.run = 0 /\ k.op = j.op
            /\ k.at \in {"stop", "end", "insert", "write"}
            /\ j.op = "update" => k.was = j.was
      /\ j.op = "restore" => k # Idle
      /\ j.op = "restore" /\ h # None => k.at = "insert" /\ k.was = j.was
  <2>1. CASE h = None /\ j.op = "refresh"
    <3>1. /\ k \in Jobs /\ k # Idle /\ k.at = "stop" /\ ~k.was /\ k.op = j.op /\ k.run = 0
          /\ k.then = j.then /\ k.spec = j.spec
      BY <1>c, <1>2, <2>1, IdleIsNoJob DEF Jobs, Steps
    <3>2. JobOK(k)
      BY <1>2, <3>1 DEF JobOK, Updating, Launching
    <3> QED
      BY <1>2, <2>1, <3>1, <3>2
  <2>2. CASE h = None /\ j.op # "refresh"
    <3>1. k = To(j, "end") /\ "end" \in Steps
      BY <1>c, <2>2 DEF Steps
    <3>2. /\ j.op # "restore" => k = Idle
          /\ j.op = "restore" => /\ k \in Jobs /\ k # Idle /\ k.at = "end" /\ k.op = j.op
                                 /\ k.run = 0 /\ k.then = j.then
      BY <1>2, <3>1, ToFacts
    <3>3. k # Idle => JobOK(k)
      BY <1>2, <3>2 DEF JobOK, Updating, Launching
    <3> QED
      BY <1>2, <2>2, <3>2, <3>3
  <2>3. CASE h # None
    <3>a. PICK at \in {"write", "insert"}, was \in BOOLEAN, new \in Specs :
            /\ k = [j EXCEPT !.at = at, !.was = was, !.spec = new, !.sel = "name"]
            /\ j.op # "refresh" => at = "insert" /\ was = j.was
      <4>1. [sel |-> j.sel, hash |-> h] \in Specs
        BY <1>3, <2>3 DEF Specs
      <4> QED
        BY <1>c, <1>2, <2>3, <4>1 DEF Jobs
    <3>1. /\ k \in Jobs /\ k.at = at /\ k.op = j.op /\ k.run = 0 /\ k.then = j.then
          /\ k.spec = new /\ k.was = was
      BY <3>a, <1>2, <1>3 DEF Jobs, Steps
    <3>2. k # Idle /\ new # None
      BY <3>1, IdleIsNoJob, SpecIsSome
    <3>3. JobOK(k)
      BY <3>a, <1>2, <3>1, <3>2 DEF JobOK, Updating, Launching
    <3> QED
      BY <3>a, <1>2, <2>3, <3>1, <3>2, <3>3
  <2> QED
    BY <2>1, <2>2, <2>3
<1>5. Change(c, j, k)
  BY <1>a, <1>b, <1>c, <1>2, <1>4 DEF Change
<1>6. /\ overlap \subseteq overlap' /\ overlap' \subseteq overlap \union {"row"}
      /\ h = None /\ j.op = "restore" => "row" \in overlap'
  BY <1>a, <1>b DEF Mark, Met
<1>7. Decided(k) => Busy(c) /\ Decided(job[c])
  BY <1>2, <1>4, RequestFacts DEF Decided, Launching, Busy
<1>8. LambdaTypeOK'
  BY <1>1, <1>5, <1>6, ChangeTyped DEF LambdaTypeOK, managerVars, loaderVars, runVars
<1>9. JobInv' /\ RunInv'
  BY <1>1, <1>4, <1>5, ChangeJobs, ChangeRuns DEF managerVars
<1>10. LaunchInv'
  <2>1. "launch" \notin overlap' /\ Decided(k) => \A d \in Callers \ {c} : ~Decided(job[d])
    BY <1>6, <1>7 DEF LaunchInv
  <2> QED
    BY <1>1, <1>2, <1>4, <1>5, <1>6, <2>1, ChangeLaunch DEF managerVars, Launching, Emptied, Stopping
<1>11. RouteInv'
  BY <1>1, <1>2, <1>4, <1>5, <1>6, ChangeRoutes DEF managerVars, Doing, Stopping
<1>12. RowInv'
  BY <1>1, <1>2, <1>4, <1>5, <1>6, ChangeRow DEF managerVars, Doing, Pending, runVars
<1>13. OwedInv'
  <2>1. owed' /\ ~up => k.at = "insert" /\ k.was
    BY <1>1, <1>2, <1>4 DEF JobInv, OwedInv, Due
  <2> QED
    BY <1>1, <1>5, <2>1, ChangeOwed DEF Due
<1> QED
  BY <1>8, <1>9, <1>10, <1>11, <1>12, <1>13

\* A change of what the row stands for is persisted by the call that makes it.
LEMMA ChangePersists ==
    ASSUME LambdaTypeOK, NEW c \in Callers, NEW j, NEW k, Change(c, j, k),
           k # Idle, k.at \in Pending \ {"save"},
           "row" \notin overlap' =>
               /\ \A d \in Callers \ {c} : ~Doing(d, {"save"})
               /\ spec' = None => row' = None
    PROVE  RowInv'
<1>1. Busy(c)' /\ job'[c] = k
  BY ChangeTyped
<1>2. "row" \notin overlap' => \A d \in Callers : ~Doing(d, {"save"})'
  BY ChangeTyped DEF Doing
<1>3. Doing(c, Pending)'
  BY <1>1 DEF Doing
<1> QED
  BY <1>1, <1>2, <1>3 DEF RowInv, Quiet

LEMMA KeptFacts ==
    ASSUME NEW j \in Jobs
    PROVE  /\ Kept(j) \in Jobs
           /\ Kept(j).op = j.op /\ Kept(j).run = j.run
           /\ Kept(j).was => Updating(j)
           /\ Updating(j) => Kept(j) = j
<1>1. CASE Updating(j)
  BY <1>1 DEF Kept, Updating
<1>2. CASE ~Updating(j)
  <2>1. Kept(j) = [j EXCEPT !.spec = None, !.was = FALSE]
    BY <1>2 DEF Kept, Updating
  <2> QED
    BY <1>2, <2>1 DEF Jobs
<1> QED
  BY <1>1, <1>2

LEMMA InsertInv ==
    ASSUME LambdaInv, NEW c \in Callers, Insert(c)
    PROVE  LambdaInv'
<1> USE DEF LambdaInv
<1>a. PICK j : j = job[c]
  OBVIOUS
<1>1. /\ Busy(c) /\ j \in Jobs /\ j # Idle /\ j.at = "insert" /\ JobOK(j) /\ j.run = 0
      /\ j.spec \in Specs /\ j.spec # None /\ j.then # "register"
      /\ UNCHANGED <<loaderVars, runVars, routes, row, up, mishaps, owed>>
  BY <1>a, BusyHasJob DEF Insert, At, Busy, JobInv, JobOK, Jobs
<1>2. CASE j.op = "create" /\ spec # None
  <2>1. /\ Change(c, j, Idle)
        /\ UNCHANGED <<spec, overlap>>
    <3>1. To(j, "end") = Idle
      BY <1>1, <1>2, ToFacts DEF Steps
    <3> QED
      BY <1>a, <1>1, <1>2, <3>1 DEF Insert, Go, Change, Unmarked
  <2>2. LambdaTypeOK'
    BY <1>1, <2>1, ChangeTyped DEF LambdaTypeOK, loaderVars, runVars
  <2>3. JobInv' /\ RunInv'
    BY <1>1, <2>1, ChangeJobs, ChangeRuns
  <2>4. LaunchInv'
    BY <1>a, <1>1, <2>1, ChangeLaunch DEF Decided
  <2>5. RouteInv'
    BY <1>a, <1>1, <2>1, ChangeRoutes DEF Doing, Stopping
  <2>6. RowInv'
    BY <1>a, <1>1, <1>2, <2>1, ChangeRow DEF Doing, Pending, runVars
  <2>7. OwedInv'
    <3>1. up
      BY <1>a, <1>1, <1>2 DEF JobInv
    <3> QED
      BY <1>a, <1>1, <2>1, <3>1, ChangeOwed
  <2> QED
    BY <2>2, <2>3, <2>4, <2>5, <2>6, <2>7
<1>3. CASE ~(j.op = "create" /\ spec # None)
  <2>a. PICK k : k = Persisting(Kept(j), AfterInsert(j))
    OBVIOUS
  <2>1. /\ job' = [job EXCEPT ![c] = k]
        /\ spec' = j.spec
        /\ Mark(MarkRow(c))
    BY <1>a, <1>3, <2>a DEF Insert, Persist, Persisting
  <2>2. /\ AfterInsert(j) \in {"stop", "snapshot", "lookup", "end"}
        /\ AfterInsert(j) \in Steps
        /\ j.op = "restore" /\ j.was => AfterInsert(j) = "lookup"
    BY DEF AfterInsert, Steps
  <2>3. /\ k \in Jobs /\ k # Idle /\ k.at = "snapshot" /\ k.then = AfterInsert(j) /\ k.run = 0
        /\ k.op = "restore" <=> j.op = "restore"
        /\ Updating(k) => Updating(j) /\ k.spec = j.spec
    BY <1>1, <2>a, <2>2, KeptFacts, PersistFacts DEF Updating
  <2>4. JobOK(k)
    BY <1>1, <2>2, <2>3 DEF JobOK, Launching
  <2>5. Change(c, j, k)
    BY <1>a, <1>1, <2>1, <2>3, <2>4 DEF Change
  <2>6. /\ overlap \subseteq overlap' /\ overlap' \subseteq overlap \union {"row"}
        /\ "row" \notin overlap' => \A d \in Callers \ {c} : ~Doing(d, {"save"})
    BY <2>1, Unmet DEF Mark
  <2>7. LambdaTypeOK'
    BY <1>1, <2>1, <2>5, <2>6, ChangeTyped DEF LambdaTypeOK, loaderVars, runVars
  <2>8. JobInv' /\ RunInv'
    BY <1>1, <2>3, <2>5, ChangeJobs, ChangeRuns
  <2>9. LaunchInv'
    <3>1. Decided(k) => Decided(job[c])
      BY <1>a, <1>1, <2>3 DEF Decided, Launching, Updating
    <3>2. "launch" \notin overlap' /\ Decided(k) => \A d \in Callers \ {c} : ~Decided(job[d])
      BY <2>6, <3>1 DEF LaunchInv
    <3>3. ~Emptied(k) /\ k.at \notin Launching
      BY <2>2, <2>3 DEF Emptied, Launching, Stopping
    <3> QED
      BY <1>a, <1>1, <2>3, <2>5, <2>6, <3>2, <3>3, ChangeLaunch
  <2>10. RouteInv'
    BY <1>a, <1>1, <2>3, <2>5, <2>6, ChangeRoutes DEF Doing, Stopping
  <2>11. RowInv'
    BY <1>1, <2>1, <2>3, <2>5, <2>6, ChangePersists DEF Pending
  <2>12. OwedInv'
    <3>1. owed /\ ~up => j.was /\ j.op = "restore"
      BY <1>a, <1>1 DEF JobInv, OwedInv, Due
    <3> QED
      BY <1>1, <2>1, <2>2, <2>3, <2>5, <3>1, ChangeOwed DEF Due
  <2> QED
    BY <2>7, <2>8, <2>9, <2>10, <2>11, <2>12
<1> QED
  BY <1>2, <1>3

LEMMA WriteInv ==
    ASSUME LambdaInv, NEW c \in Callers, Write(c)
    PROVE  LambdaInv'
<1> USE DEF LambdaInv
<1>a. PICK j : j = job[c]
  OBVIOUS
<1>1. /\ Busy(c) /\ j \in Jobs /\ j # Idle /\ j.at = "write" /\ JobOK(j) /\ j.run = 0
      /\ j.op = "refresh" /\ j.spec \in Specs /\ j.spec # None /\ j.then # "register"
      /\ UNCHANGED <<loaderVars, runVars, routes, row, up, mishaps, owed>>
      /\ spec' = j.spec
  BY <1>a, BusyHasJob DEF Write, At, Busy, JobInv, JobOK, Jobs
<1>b. PICK k : k = To([j EXCEPT !.spec = None], IF j.was THEN "stop" ELSE "end")
  OBVIOUS
<1>2. /\ job' = [job EXCEPT ![c] = k]
      /\ Mark(MarkRow(c) \union Met("row", spec = None))
  BY <1>a, <1>b DEF Write
<1>3. /\ up
      /\ ~owed
  BY <1>a, <1>1 DEF JobInv, OwedInv, Quiet
<1>4. /\ k # Idle => /\ k \in Jobs /\ JobOK(k) /\ k.op = "refresh" /\ k.run = 0
                     /\ k.at = "stop"
  <2>1. PICK j1 \in Jobs : j1 = [j EXCEPT !.spec = None]
    BY <1>1 DEF Jobs
  <2>2. j1.op = "refresh" /\ j1.run = 0 /\ j1.then = j.then
    BY <1>1, <2>1 DEF Jobs
  <2>3. k = To(j1, IF j.was THEN "stop" ELSE "end")
    BY <1>b, <2>1
  <2>4. CASE j.was
    <3>1. /\ k \in Jobs /\ k.op = "refresh" /\ k.run = 0 /\ k.at = "stop" /\ k.then = j.then
      BY <2>2, <2>3, <2>4, ToFacts DEF Steps
    <3> QED
      BY <1>1, <3>1 DEF JobOK, Updating, Launching
  <2>5. CASE ~j.was
    BY <2>2, <2>3, <2>5, ToFacts DEF Steps
  <2> QED
    BY <2>4, <2>5
<1>5. Change(c, j, k)
  BY <1>a, <1>1, <1>2, <1>4 DEF Change
<1>6. /\ overlap \subseteq overlap' /\ overlap' \subseteq overlap \union {"row"}
      /\ "row" \notin overlap' => spec # None /\ \A d \in Callers \ {c} : ~Doing(d, {"save"})
  BY <1>2, Unmet DEF Mark, Met
<1>7. LambdaTypeOK'
  BY <1>1, <1>5, <1>6, ChangeTyped DEF LambdaTypeOK, loaderVars, runVars
<1>8. JobInv' /\ RunInv'
  BY <1>1, <1>4, <1>5, ChangeJobs, ChangeRuns
<1>9. LaunchInv'
  <2>1. ~Decided(k) /\ (k # Idle => k.at \notin Launching /\ ~Emptied(k))
    BY <1>4 DEF Decided, Launching, Emptied, Updating
  <2> QED
    BY <1>a, <1>1, <1>5, <1>6, <2>1, ChangeLaunch
<1>10. RouteInv'
  BY <1>a, <1>1, <1>4, <1>5, <1>6, ChangeRoutes DEF Doing, Stopping
<1>11. RowInv'
  <2> SUFFICES ASSUME "row" \notin overlap'
               PROVE  /\ \A d \in Callers : ~Doing(d, {"save"})'
                      /\ \/ row # None /\ row.running = (cur # 0)
                         \/ \E d \in Callers : Doing(d, Pending)'
    BY <1>1, <1>3 DEF RowInv, runVars
  <2>1. \A d \in Callers : ~Doing(d, {"save"})'
    BY <1>4, <1>5, <1>6, ChangeTyped DEF Doing
  <2>2. \/ row # None /\ row.running = (cur # 0)
        \/ \E d \in Callers : Doing(d, Pending)
    BY <1>3, <1>6 DEF RowInv
  <2>3. ~Doing(c, Pending)
    BY <1>a, <1>1 DEF Doing, Pending
  <2> QED
    BY <1>5, <2>1, <2>2, <2>3, ChangeTyped DEF Doing
<1>12. OwedInv'
  BY <1>1, <1>3 DEF OwedInv
<1> QED
  BY <1>7, <1>8, <1>9, <1>10, <1>11, <1>12

-------------------------------------------------------------------------------
(* launch: Lookup, Check, Register, Boot, BootFails, Undo, Enter *)

LEMMA LookupInv ==
    ASSUME LambdaInv, NEW c \in Callers, Lookup(c)
    PROVE  LambdaInv'
<1> USE DEF LambdaInv
<1>a. PICK j \in Ready(c, "lookup") :
        job' = [job EXCEPT ![c] =
           IF spec = None THEN To(j, "end")
           ELSE [j EXCEPT !.op = IF j.op = "refresh" THEN "start" ELSE j.op,
                          !.at = "check", !.spec = spec, !.was = FALSE]]
  BY DEF Lookup
<1>b. PICK k : k = IF spec = None THEN To(j, "end")
                   ELSE [j EXCEPT !.op = IF j.op = "refresh" THEN "start" ELSE j.op,
                          !.at = "check", !.spec = spec, !.was = FALSE]
  OBVIOUS
<1>1. /\ UNCHANGED <<loaderVars, managerVars, row, up, mishaps, overlap>>
      /\ owed' \in BOOLEAN
      /\ owed' => owed /\ Busy(c)
  BY DEF Lookup, StillOwed, LambdaTypeOK
<1>2. /\ j \in Jobs /\ j # Idle /\ j.at = "lookup" /\ JobOK(j) /\ j.run = 0 /\ j.then # "register"
      /\ \/ Busy(c) /\ j = job[c]
         \/ ~Busy(c) /\ up /\ j \in Requests
  BY <1>a, ReadyFacts DEF JobOK
<1>3. /\ k # Idle => /\ k \in Jobs /\ JobOK(k) /\ k.run = 0
                     /\ k.op = "restore" <=> j.op = "restore"
                     /\ k.at \in {"end", "check"}
                     /\ spec # None => k.at = "check"
                     /\ ~Updating(k)
      /\ j.op = "restore" => k # Idle
  <2>1. CASE spec = None
    <3>1. k = To(j, "end") /\ "end" \in Steps
      BY <1>b, <2>1 DEF Steps
    <3>2. /\ j.op # "restore" => k = Idle
          /\ j.op = "restore" => /\ k \in Jobs /\ k # Idle /\ k.at = "end" /\ k.op = j.op
                                 /\ k.run = 0 /\ k.then = j.then
      BY <1>2, <3>1, ToFacts
    <3>3. k # Idle => JobOK(k)
      BY <1>2, <3>2 DEF JobOK, Updating, Launching
    <3> QED
      BY <2>1, <3>2, <3>3 DEF Updating
  <2>2. CASE spec # None
    <3>a. PICK op \in Ops : /\ k = [j EXCEPT !.op = op, !.at = "check", !.spec = spec, !.was = FALSE]
                            /\ op = "restore" <=> j.op = "restore"
      BY <1>b, <1>2, <2>2 DEF Jobs, Ops
    <3>1. /\ k \in Jobs /\ k.op = op /\ k.at = "check" /\ k.run = 0 /\ k.then = j.then
          /\ k.spec = spec /\ ~k.was
      BY <3>a, <1>2 DEF Jobs, Steps, LambdaTypeOK
    <3>2. k # Idle
      BY <3>1, IdleIsNoJob
    <3>3. JobOK(k)
      BY <1>2, <2>2, <3>1, <3>2 DEF JobOK, Updating, Launching
    <3> QED
      BY <3>a, <3>1, <3>2, <3>3 DEF Updating
  <2> QED
    BY <2>1, <2>2
<1>4. Change(c, j, k)
  BY <1>a, <1>b, <1>2, <1>3 DEF Change
<1>5. LambdaTypeOK'
  BY <1>1, <1>4, ChangeTyped DEF LambdaTypeOK, managerVars, loaderVars, runVars
<1>6. JobInv' /\ RunInv'
  BY <1>1, <1>3, <1>4, ChangeJobs, ChangeRuns DEF managerVars
<1>7. LaunchInv'
  <2>1. ~Decided(k) /\ (k # Idle => k.at \notin Launching /\ ~Emptied(k))
    BY <1>3 DEF Decided, Launching, Emptied, Updating
  <2> QED
    BY <1>1, <1>2, <1>4, <2>1, ChangeLaunch DEF managerVars
<1>8. RouteInv'
  BY <1>1, <1>2, <1>3, <1>4, ChangeRoutes DEF managerVars, Doing, Stopping
<1>9. RowInv'
  BY <1>1, <1>2, <1>3, <1>4, ChangeRow DEF managerVars, Doing, Pending, runVars
<1>10. OwedInv'
  <2>1. owed' /\ ~up => spec # None /\ k # Idle
    BY <1>1, <1>2, <1>3 DEF JobInv, OwedInv, Due
  <2> QED
    BY <1>1, <1>3, <1>4, <2>1, ChangeOwed DEF Due
<1> QED
  BY <1>5, <1>6, <1>7, <1>8, <1>9, <1>10

\* A call at a step that only a call under way can be at.
LEMMA AtFacts ==
    ASSUME LambdaTypeOK, JobInv, NEW c \in Callers, NEW step, At(c, step)
    PROVE  /\ Busy(c) /\ job[c] \in Jobs /\ job[c] # Idle /\ job[c].at = step /\ JobOK(job[c])
           /\ job[c].op = "restore" => ~up
BY BusyHasJob DEF At, Busy, JobInv

LEMMA CheckInv ==
    ASSUME LambdaInv, NEW c \in Callers, Check(c)
    PROVE  LambdaInv'
<1> USE DEF LambdaInv
<1>a. PICK j : j = job[c]
  OBVIOUS
<1>b. PICK k : k = To(j, IF cur # 0 THEN "end" ELSE "register")
  OBVIOUS
<1>1. /\ Busy(c) /\ j \in Jobs /\ j # Idle /\ j.at = "check" /\ JobOK(j) /\ j.run = 0
      /\ j.spec # None /\ j.then # "register"
      /\ UNCHANGED <<loaderVars, managerVars, row, up, mishaps, owed>>
  BY <1>a, AtFacts DEF Check, JobOK
<1>2. /\ job' = [job EXCEPT ![c] = k]
      /\ overlap \subseteq overlap' /\ overlap' \subseteq overlap \union {"launch", "stop"}
      /\ cur = 0 /\ "launch" \notin overlap' => \A d \in Callers \ {c} : ~Decided(job[d])
      /\ cur = 0 /\ "stop" \notin overlap' => \A d \in Callers \ {c} : ~Doing(d, Stopping)
  BY <1>a, <1>b, Unmet DEF Check, Go, Mark, Unmarked
<1>3. /\ k # Idle => /\ k \in Jobs /\ JobOK(k) /\ k.run = 0
                     /\ k.op = "restore" <=> j.op = "restore"
                     /\ k.at = IF cur # 0 THEN "end" ELSE "register"
      /\ j.op = "restore" => k # Idle
      /\ cur # 0 /\ j.op # "restore" => k = Idle
  <2>1. CASE cur # 0
    <3>1. /\ j.op # "restore" => k = Idle
          /\ j.op = "restore" => /\ k \in Jobs /\ k # Idle /\ k.at = "end" /\ k.op = j.op
                                 /\ k.run = 0 /\ k.then = j.then
      BY <1>b, <1>1, <2>1, ToFacts DEF Steps
    <3> QED
      BY <1>1, <2>1, <3>1 DEF JobOK, Updating, Launching
  <2>2. CASE cur = 0
    <3>1. /\ k \in Jobs /\ k # Idle /\ k.at = "register" /\ (k.op = "restore" <=> j.op = "restore")
          /\ k.run = 0 /\ k.then = j.then /\ k.spec = j.spec
      BY <1>b, <1>1, <2>2, ToFacts DEF Steps
    <3> QED
      BY <1>1, <2>2, <3>1 DEF JobOK, Updating, Launching
  <2> QED
    BY <2>1, <2>2
<1>4. Change(c, j, k)
  BY <1>a, <1>1, <1>2, <1>3 DEF Change
<1>5. LambdaTypeOK'
  BY <1>1, <1>2, <1>4, ChangeTyped DEF LambdaTypeOK, managerVars, loaderVars, runVars
<1>6. JobInv' /\ RunInv'
  BY <1>1, <1>3, <1>4, ChangeJobs, ChangeRuns DEF managerVars
<1>7. LaunchInv'
  <2>1. "launch" \notin overlap' /\ Decided(k) => \A d \in Callers \ {c} : ~Decided(job[d])
    <3>1. CASE cur = 0
      BY <1>2, <3>1
    <3>2. CASE cur # 0
      BY <1>3, <3>2 DEF Decided, Launching
    <3> QED
      BY <3>1, <3>2
  <2>2. k # Idle /\ (k.at \in Launching \/ Emptied(k)) => cur = 0
    BY <1>3 DEF Launching, Emptied, Stopping
  <2> QED
    BY <1>a, <1>1, <1>2, <1>4, <2>1, <2>2, ChangeLaunch DEF managerVars
<1>8. RouteInv'
  BY <1>a, <1>1, <1>2, <1>3, <1>4, ChangeRoutes DEF managerVars, Doing, Stopping
<1>9. RowInv'
  BY <1>a, <1>1, <1>2, <1>3, <1>4, ChangeRow DEF managerVars, Doing, Pending, runVars
<1>10. OwedInv'
  BY <1>a, <1>1, <1>3, <1>4, ChangeOwed DEF Due, JobInv, managerVars, runVars
<1> QED
  BY <1>5, <1>6, <1>7, <1>8, <1>9, <1>10

\* The routes of the call that launches are the registrar's, and it is the only one.
LEMMA RegisterInv ==
    ASSUME LambdaInv, NEW c \in Callers, Register(c)
    PROVE  LambdaInv'
<1> USE DEF LambdaInv
<1>a. PICK j : j = job[c]
  OBVIOUS
<1>1. /\ Busy(c) /\ j \in Jobs /\ j # Idle /\ j.at = "register" /\ JobOK(j) /\ j.run = 0
      /\ j.spec # None /\ j.then # "register"
      /\ UNCHANGED <<loaderVars, spec, runVars, row, up, mishaps, overlap>>
  BY <1>a, AtFacts DEF Register, JobOK, Launching
<1>2. CASE j.spec.hash \in loaded /\ routes' = j.spec.hash /\ Go(c, "boot") /\ UNCHANGED owed
  <2>b. PICK k : k = To(j, "boot")
    OBVIOUS
  <2>1. /\ k \in Jobs /\ k # Idle /\ k.at = "boot" /\ k.op = j.op /\ k.was = j.was
        /\ k.run = 0 /\ k.then = j.then /\ k.spec = j.spec
    BY <2>b, <1>1, ToFacts DEF Steps
  <2>2. JobOK(k)
    BY <1>1, <2>1 DEF JobOK, Updating, Launching
  <2>3. Change(c, j, k)
    BY <1>a, <1>1, <1>2, <2>b, <2>1, <2>2 DEF Change, Go
  <2>4. LambdaTypeOK'
    BY <1>1, <1>2, <2>3, ChangeTyped DEF LambdaTypeOK, loaderVars, runVars
  <2>5. JobInv' /\ RunInv'
    BY <1>1, <2>1, <2>3, ChangeJobs, ChangeRuns
  <2>6. Decided(job[c]) /\ Doing(c, Launching)
    BY <1>a, <1>1 DEF Decided, Doing, Launching
  <2>7. LaunchInv'
    <3>1. "launch" \notin overlap => \A d \in Callers \ {c} : ~Decided(job[d])
      BY <2>6 DEF LaunchInv
    <3>2. "launch" \notin overlap => cur = 0
      BY <2>6 DEF LaunchInv, Doing
    <3> QED
      BY <1>a, <1>1, <2>1, <2>3, <3>1, <3>2, ChangeLaunch
  <2>8. RouteInv'
    <3> SUFFICES ASSUME overlap \cap {"launch", "stop"} = {} PROVE RouteInv'
      BY <1>1 DEF RouteInv
    <3>1. \A d \in Callers \ {c} : ~Decided(job[d]) /\ ~Doing(d, Stopping)
      BY <2>6 DEF LaunchInv, RouteInv
    <3>2. /\ \A d \in Callers : ~Doing(d, Stopping)'
          /\ \A d \in Callers \ {c} : ~Doing(d, {"boot", "undo", "enter"})'
      BY <2>1, <2>3, <3>1, ChangeTyped DEF Busy, Doing, Decided, Stopping, Launching
    <3>3. Doing(c, {"boot", "undo", "enter"} \union Stopping)' /\ routes' = job'[c].spec.hash
      BY <1>2, <2>1, <2>3, ChangeTyped DEF Doing
    <3> QED
      BY <3>2, <3>3 DEF RouteInv
  <2>9. RowInv'
    BY <1>a, <1>1, <2>1, <2>3, ChangeRow DEF Doing, Pending, runVars
  <2>10. OwedInv'
    BY <1>1, <1>2, <2>1, <2>3, ChangeOwed DEF Due
  <2> QED
    BY <2>4, <2>5, <2>7, <2>8, <2>9, <2>10
<1>3. CASE Go(c, "end") /\ owed' = FALSE /\ UNCHANGED routes
  <2>b. PICK k : k = To(j, "end")
    OBVIOUS
  <2>1. /\ j.op # "restore" => k = Idle
        /\ j.op = "restore" => /\ k \in Jobs /\ k # Idle /\ k.at = "end" /\ k.op = j.op
                               /\ k.run = 0 /\ k.then = j.then
    BY <2>b, <1>1, ToFacts DEF Steps
  <2>2. k # Idle => JobOK(k)
    BY <1>1, <2>1 DEF JobOK, Updating, Launching
  <2>3. Change(c, j, k)
    BY <1>a, <1>1, <1>3, <2>b, <2>1, <2>2 DEF Change, Go
  <2>4. LambdaTypeOK'
    BY <1>1, <1>3, <2>3, ChangeTyped DEF LambdaTypeOK, loaderVars, runVars
  <2>5. JobInv' /\ RunInv'
    BY <1>1, <2>1, <2>3, ChangeJobs, ChangeRuns
  <2>6. LaunchInv'
    <3>1. ~Decided(k) /\ (k # Idle => k.at \notin Launching /\ ~Emptied(k))
      BY <2>1 DEF Decided, Launching, Emptied, Updating
    <3> QED
      BY <1>a, <1>1, <2>3, <3>1, ChangeLaunch
  <2>7. RouteInv'
    BY <1>a, <1>1, <1>3, <2>1, <2>3, ChangeRoutes DEF Doing, Stopping
  <2>8. RowInv'
    BY <1>a, <1>1, <2>1, <2>3, ChangeRow DEF Doing, Pending, runVars
  <2>9. OwedInv'
    BY <1>3 DEF OwedInv
  <2> QED
    BY <2>4, <2>5, <2>6, <2>7, <2>8, <2>9
<1> QED
  BY <1>a, <1>2, <1>3 DEF Register

\* While c launches, nobody else does, nobody stops, and there is no run in the books;
\* each unless it is excepted.
LEMMA LaunchingAlone ==
    ASSUME LaunchInv, RouteInv, NEW c \in Callers, Doing(c, Launching)
    PROVE  /\ "launch" \notin overlap =>
                 /\ cur = 0
                 /\ \A d \in Callers \ {c} : ~Decided(job[d]) /\ ~Doing(d, Launching)
                 /\ \A d \in Callers \ {c} : Busy(d) => ~Emptied(job[d])
           /\ overlap \cap {"launch", "stop"} = {} => \A d \in Callers : ~Doing(d, Stopping)
<1>1. \A d \in Callers : Doing(d, Launching) => Decided(job[d])
  BY DEF Doing, Busy, Decided
<1>2. \A d \in Callers : Busy(d) /\ Emptied(job[d]) => Decided(job[d])
  BY DEF Busy, Decided, Emptied, Updating
<1> QED
  BY <1>1, <1>2 DEF LaunchInv, RouteInv, Doing

LEMMA BootInv ==
    ASSUME LambdaInv, NEW c \in Callers, Boot(c)
    PROVE  LambdaInv'
<1> USE DEF LambdaInv
<1>a. PICK j : j = job[c]
  OBVIOUS
<1>b. PICK n \in Free : n = NextRun
  BY DEF Boot, NextRun
<1>c. PICK k : k = [j EXCEPT !.at = "enter", !.run = n]
  OBVIOUS
<1>1. /\ Busy(c) /\ j \in Jobs /\ j # Idle /\ j.at = "boot" /\ JobOK(j) /\ j.run = 0
      /\ j.spec \in Specs /\ j.spec # None /\ j.then # "register"
      /\ UNCHANGED <<loaderVars, spec, cur, usage, routes, row, up, mishaps, overlap, owed>>
  BY <1>a, AtFacts DEF Boot, JobOK, Launching, Jobs
<1>2. /\ n \in Runs /\ n \in 0..MaxRuns /\ n # 0 /\ hashOf[n] = None /\ n # cur
      /\ \A d \in Callers : Busy(d) => job[d].run # n
  BY LambdaAssumption DEF Free, Runs
<1>3. /\ hashOf' = [hashOf EXCEPT ![n] = j.spec.hash]
      /\ j.spec.hash \in Hashes /\ j.spec.hash # None
      /\ job' = [job EXCEPT ![c] = k]
  BY <1>a, <1>b, <1>c, <1>1, LambdaAssumption DEF Boot, Specs
<1>4. /\ k \in Jobs /\ k.at = "enter" /\ k.op = j.op /\ k.was = j.was /\ k.run = n
      /\ k.then = j.then /\ k.spec = j.spec
  BY <1>c, <1>1, <1>2 DEF Jobs, Steps
<1>5. k # Idle /\ JobOK(k)
  BY <1>1, <1>2, <1>4, IdleIsNoJob DEF JobOK, Updating, Launching
<1>6. Change(c, j, k)
  BY <1>a, <1>1, <1>3, <1>4, <1>5 DEF Change
<1>7. LambdaTypeOK'
  BY <1>1, <1>2, <1>3, <1>6, ChangeTyped DEF LambdaTypeOK, loaderVars
<1>8. JobInv'
  BY <1>1, <1>6, ChangeJobs
<1>9. /\ \A m \in Runs : m # n => hashOf'[m] = hashOf[m]
      /\ hashOf'[n] = j.spec.hash
      /\ CurrentRun' = CurrentRun
  <2>1. \A m \in Runs : hashOf'[m] = IF m = n THEN j.spec.hash ELSE hashOf[m]
    BY <1>2, <1>3 DEF LambdaTypeOK
  <2>2. cur # 0 => cur \in Runs
    BY LambdaAssumption DEF LambdaTypeOK, Runs
  <2> QED
    BY <1>1, <1>2, <2>1, <2>2 DEF CurrentRun
<1>10. RunInv'
  <2>1. cur' # 0 => hashOf'[cur'] # None
    BY <1>1, <1>2, <1>9 DEF RunInv, LambdaTypeOK, Runs
  <2> SUFFICES ASSUME NEW d \in Callers, Busy(d)', job'[d].run # 0
               PROVE  /\ job'[d].run # cur
                      /\ \A e \in Callers \ {d} : Busy(e)' => job'[e].run # job'[d].run
                      /\ job'[d].at = "enter" => hashOf'[job'[d].run] = job'[d].spec.hash
                      /\ job'[d].at = "unroute" => hashOf'[job'[d].run] = None
    BY <1>1, <2>1 DEF RunInv
  <2>2. CASE d = c
    BY <1>2, <1>4, <1>6, <1>9, <2>2, ChangeTyped
  <2>3. CASE d # c
    <3>1. Busy(d) /\ job'[d] = job[d] /\ job[d].run # n
      BY <1>2, <1>6, <2>3, ChangeTyped
    <3>2. job[d].run \in Runs
      BY <2>3, <3>1, BusyHasJob, LambdaAssumption DEF Jobs, Runs
    <3>3. /\ job[d].run # cur
          /\ \A e \in Callers \ {d} : Busy(e) => job[e].run # job[d].run
          /\ job[d].at = "enter" => hashOf[job[d].run] = job[d].spec.hash
          /\ job[d].at = "unroute" => hashOf[job[d].run] = None
      BY <3>1 DEF RunInv
    <3>4. \A e \in Callers \ {d} : Busy(e)' => job'[e].run # job'[d].run
      BY <1>4, <1>6, <3>1, <3>3, ChangeTyped
    <3> QED
      BY <1>9, <3>1, <3>2, <3>3, <3>4
  <2> QED
    BY <2>2, <2>3
<1>11. Doing(c, Launching)
  BY <1>a, <1>1 DEF Doing, Launching
<1>12. LaunchInv'
  <2> SUFFICES ASSUME "launch" \notin overlap PROVE LaunchInv'
    BY <1>1 DEF LaunchInv
  <2>1. /\ cur = 0
        /\ \A d \in Callers \ {c} : ~Decided(job'[d])
    BY <1>6, <1>11, LaunchingAlone, ChangeTyped
  <2>2. \A m \in Runs : hashOf'[m] # None => \E d \in Callers : Busy(d)' /\ job'[d].run = m
    <3> SUFFICES ASSUME NEW m \in Runs, hashOf'[m] # None, m # n
                 PROVE  \E d \in Callers : Busy(d)' /\ job'[d].run = m
      BY <1>4, <1>5, <1>6, ChangeTyped
    <3>1. m # 0 /\ hashOf[m] # None
      BY <1>9, LambdaAssumption DEF Runs
    <3>2. \E d \in Callers \ {c} : Busy(d) /\ job[d].run = m
      BY <1>a, <1>1, <2>1, <3>1 DEF LaunchInv
    <3> QED
      BY <1>6, <3>2, ChangeTyped
  <2>3. usage' = CurrentRun'
    BY <1>1, <1>9 DEF LaunchInv
  <2> QED
    BY <1>1, <2>1, <2>2, <2>3 DEF LaunchInv
<1>13. RouteInv'
  <2> SUFFICES ASSUME overlap \cap {"launch", "stop"} = {} PROVE RouteInv'
    BY <1>1 DEF RouteInv
  <2>1. \A d \in Callers : ~Doing(d, Stopping)'
    BY <1>4, <1>6, <1>11, LaunchingAlone, ChangeTyped DEF Doing, Stopping
  <2>2. \A d \in Callers \ {c} : ~Doing(d, {"boot", "undo", "enter"})'
    BY <1>6, <1>11, LaunchingAlone, ChangeTyped DEF Doing, Launching
  <2>3. Doing(c, {"boot", "undo", "enter"} \union Stopping)' /\ routes' = job'[c].spec.hash
    BY <1>a, <1>1, <1>4, <1>5, <1>6, ChangeTyped DEF Doing, RouteInv
  <2> QED
    BY <2>1, <2>2, <2>3 DEF RouteInv
<1>14. RowInv'
  BY <1>a, <1>1, <1>4, <1>6, ChangeRow DEF Doing, Pending
<1>15. OwedInv'
  BY <1>1, <1>4, <1>6, ChangeOwed DEF Due
<1> QED
  BY <1>7, <1>8, <1>10, <1>12, <1>13, <1>14, <1>15

LEMMA BootFailsInv ==
    ASSUME LambdaInv, NEW c \in Callers, BootFails(c)
    PROVE  LambdaInv'
<1> USE DEF LambdaInv
<1>a. PICK j : j = job[c]
  OBVIOUS
<1>b. PICK k : k = To(j, "undo")
  OBVIOUS
<1>1. /\ Busy(c) /\ j \in Jobs /\ j # Idle /\ j.at = "boot" /\ JobOK(j) /\ j.run = 0
      /\ j.spec # None /\ j.then # "register"
      /\ UNCHANGED <<loaderVars, managerVars, row, up, mishaps, overlap>> /\ owed' = FALSE
      /\ job' = [job EXCEPT ![c] = k]
  BY <1>a, <1>b, AtFacts DEF BootFails, JobOK, Launching, Go
<1>2. /\ k \in Jobs /\ k # Idle /\ k.at = "undo" /\ k.op = j.op /\ k.was = j.was
      /\ k.run = 0 /\ k.then = j.then /\ k.spec = j.spec
  BY <1>b, <1>1, ToFacts DEF Steps
<1>3. JobOK(k)
  BY <1>1, <1>2 DEF JobOK, Updating, Launching
<1>4. Change(c, j, k)
  BY <1>a, <1>1, <1>2, <1>3 DEF Change
<1>5. LambdaTypeOK'
  BY <1>1, <1>4, ChangeTyped DEF LambdaTypeOK, loaderVars, managerVars, runVars
<1>6. JobInv' /\ RunInv'
  BY <1>1, <1>2, <1>4, ChangeJobs, ChangeRuns DEF managerVars
<1>7. Doing(c, Launching)
  BY <1>a, <1>1 DEF Doing, Launching
<1>8. LaunchInv'
  BY <1>a, <1>1, <1>4, <1>7, LaunchingAlone, ChangeLaunch DEF managerVars
<1>9. RouteInv'
  <2> SUFFICES ASSUME overlap \cap {"launch", "stop"} = {} PROVE RouteInv'
    BY <1>1 DEF RouteInv
  <2>1. \A d \in Callers : ~Doing(d, Stopping)'
    BY <1>2, <1>4, <1>7, LaunchingAlone, ChangeTyped DEF Doing, Stopping
  <2>2. \A d \in Callers \ {c} : ~Doing(d, {"boot", "undo", "enter"})'
    BY <1>4, <1>7, LaunchingAlone, ChangeTyped DEF Doing, Launching
  <2>3. Doing(c, {"boot", "undo", "enter"} \union Stopping)' /\ routes' = job'[c].spec.hash
    BY <1>a, <1>1, <1>2, <1>4, ChangeTyped DEF Doing, RouteInv, managerVars
  <2> QED
    BY <2>1, <2>2, <2>3 DEF RouteInv
<1>10. RowInv'
  BY <1>a, <1>1, <1>2, <1>4, ChangeRow DEF Doing, Pending, managerVars, runVars
<1>11. OwedInv'
  BY <1>1 DEF OwedInv
<1> QED
  BY <1>5, <1>6, <1>8, <1>9, <1>10, <1>11

LEMMA UndoInv ==
    ASSUME LambdaInv, NEW c \in Callers, Undo(c)
    PROVE  LambdaInv'
<1> USE DEF LambdaInv
<1>a. PICK j : j = job[c]
  OBVIOUS
<1>b. PICK k : k = To(j, "end")
  OBVIOUS
<1>1. /\ Busy(c) /\ j \in Jobs /\ j # Idle /\ j.at = "undo" /\ JobOK(j) /\ j.run = 0
      /\ j.then # "register"
      /\ UNCHANGED <<loaderVars, spec, runVars, row, up, mishaps, overlap, owed>> /\ routes' = None
      /\ job' = [job EXCEPT ![c] = k]
  BY <1>a, <1>b, AtFacts DEF Undo, JobOK, Launching, Go
<1>2. /\ j.op # "restore" => k = Idle
      /\ j.op = "restore" => /\ k \in Jobs /\ k # Idle /\ k.at = "end" /\ k.op = j.op
                             /\ k.run = 0 /\ k.then = j.then
  BY <1>b, <1>1, ToFacts DEF Steps
<1>3. k # Idle => JobOK(k)
  BY <1>1, <1>2 DEF JobOK, Updating, Launching
<1>4. Change(c, j, k)
  BY <1>a, <1>1, <1>2, <1>3 DEF Change
<1>5. LambdaTypeOK'
  BY <1>1, <1>4, ChangeTyped DEF LambdaTypeOK, loaderVars, runVars
<1>6. JobInv' /\ RunInv'
  BY <1>1, <1>2, <1>4, ChangeJobs, ChangeRuns
<1>7. Doing(c, Launching)
  BY <1>a, <1>1 DEF Doing, Launching
<1>8. LaunchInv'
  <2>1. ~Decided(k) /\ (k # Idle => k.at \notin Launching /\ ~Emptied(k))
    BY <1>2 DEF Decided, Launching, Emptied, Updating
  <2> QED
    BY <1>a, <1>1, <1>4, <2>1, ChangeLaunch
<1>9. RouteInv'
  <2> SUFFICES ASSUME overlap \cap {"launch", "stop"} = {} PROVE RouteInv'
    BY <1>1 DEF RouteInv
  <2>1. \A d \in Callers : ~Doing(d, Stopping)'
    BY <1>2, <1>4, <1>7, LaunchingAlone, ChangeTyped DEF Doing, Stopping
  <2>2. \A d \in Callers : ~Doing(d, {"boot", "undo", "enter"})'
    BY <1>2, <1>4, <1>7, LaunchingAlone, ChangeTyped DEF Doing, Launching
  <2>3. cur' = 0 /\ {routes'} \ {None} = CurrentRun'
    BY <1>1, <1>7, LaunchingAlone DEF CurrentRun, runVars
  <2> QED
    BY <2>1, <2>2, <2>3 DEF RouteInv
<1>10. RowInv'
  BY <1>a, <1>1, <1>2, <1>4, ChangeRow DEF Doing, Pending, runVars
<1>11. OwedInv'
  <2>1. ~owed
    BY <1>a, <1>1 DEF OwedInv, Quiet, Due
  <2> QED
    BY <1>1, <2>1 DEF OwedInv
<1> QED
  BY <1>5, <1>6, <1>8, <1>9, <1>10, <1>11

\* The run that is entered finds the books empty.
LEMMA EnterInv ==
    ASSUME LambdaInv, NEW c \in Callers, Enter(c)
    PROVE  LambdaInv'
<1> USE DEF LambdaInv
<1>a. PICK j : j = job[c]
  OBVIOUS
<1>b. PICK j1 : j1 = [j EXCEPT !.run = 0, !.was = FALSE, !.spec = None]
  OBVIOUS
<1>c. PICK k : k = Persisting(j1, "end")
  OBVIOUS
<1>1. /\ Busy(c) /\ j \in Jobs /\ j # Idle /\ j.at = "enter" /\ JobOK(j) /\ j.run # 0
      /\ j.spec # None /\ j.spec \in Specs /\ j.run \in Runs
      /\ UNCHANGED <<loaderVars, spec, hashOf, routes, row, up, mishaps, owed>>
  BY <1>a, AtFacts, LambdaAssumption DEF Enter, JobOK, Launching, Jobs, Runs
<1>2. /\ job' = [job EXCEPT ![c] = k]
      /\ cur' = j.run
      /\ usage' = usage \union {j.spec.hash}
      /\ Mark(MarkRow(c))
  BY <1>a, <1>b, <1>c DEF Enter, Persist, Persisting, Entered
<1>3. j1 \in Jobs /\ j1.op = j.op /\ j1.run = 0 /\ ~j1.was
  <2>1. 0 \in 0..MaxRuns
    BY LambdaAssumption
  <2> QED
    BY <1>b, <1>1, <2>1 DEF Jobs
<1>4. /\ k \in Jobs /\ k # Idle /\ k.at = "snapshot" /\ k.then = "end" /\ k.run = 0
      /\ k.op = "restore" <=> j.op = "restore"
      /\ ~Updating(k)
  BY <1>c, <1>3, PersistFacts DEF Steps, Updating
<1>5. JobOK(k)
  BY <1>4 DEF JobOK, Launching
<1>6. Change(c, j, k)
  BY <1>a, <1>1, <1>2, <1>4, <1>5 DEF Change
<1>7. /\ overlap \subseteq overlap' /\ overlap' \subseteq overlap \union {"row"}
      /\ "row" \notin overlap' => \A d \in Callers \ {c} : ~Doing(d, {"save"})
  BY <1>2, Unmet DEF Mark
<1>8. j.spec.hash \in Hashes /\ j.spec.hash # None /\ hashOf[j.run] = j.spec.hash /\ j.run # cur
  BY <1>a, <1>1, LambdaAssumption DEF Specs, RunInv
<1>9. LambdaTypeOK'
  BY <1>1, <1>2, <1>6, <1>7, <1>8, ChangeTyped, LambdaAssumption DEF LambdaTypeOK, loaderVars, Runs
<1>10. JobInv'
  BY <1>1, <1>6, ChangeJobs
<1>11. RunInv'
  <2>1. \A d \in Callers \ {c} : Busy(d) => job[d].run # j.run
    BY <1>a, <1>1 DEF RunInv
  <2> QED
    BY <1>1, <1>2, <1>4, <1>6, <1>8, <2>1, ChangeTyped DEF RunInv
<1>12. Doing(c, Launching)
  BY <1>a, <1>1 DEF Doing, Launching
<1>13. CurrentRun' = {j.spec.hash}
  BY <1>1, <1>2, <1>8 DEF CurrentRun
<1>14. LaunchInv'
  <2> SUFFICES ASSUME "launch" \notin overlap PROVE LaunchInv'
    BY <1>7 DEF LaunchInv
  <2>1. /\ cur = 0
        /\ \A d \in Callers \ {c} : ~Decided(job'[d]) /\ ~Doing(d, Launching)'
        /\ \A d \in Callers \ {c} : Busy(d)' => ~Emptied(job'[d])
    <3>1. /\ cur = 0
          /\ \A d \in Callers \ {c} : ~Decided(job[d]) /\ ~Doing(d, Launching)
          /\ \A d \in Callers \ {c} : Busy(d) => ~Emptied(job[d])
      BY <1>12, LaunchingAlone
    <3>2. \A d \in Callers \ {c} : job'[d] = job[d] /\ (Busy(d)' <=> Busy(d))
      BY <1>6, ChangeTyped
    <3>3. \A d \in Callers \ {c} : ~Decided(job'[d]) /\ ~Doing(d, Launching)'
      BY <3>1, <3>2 DEF Doing
    <3>4. \A d \in Callers \ {c} : Busy(d)' => ~Emptied(job'[d])
      BY <3>1, <3>2
    <3> QED
      BY <3>1, <3>3, <3>4
  <2>2. ~Decided(k) /\ ~Emptied(k) /\ k.at \notin Launching
    BY <1>4 DEF Decided, Emptied, Launching, Updating
  <2>3. ASSUME NEW n \in Runs, hashOf'[n] # None
        PROVE  n = cur' \/ \E d \in Callers : Busy(d)' /\ job'[d].run = n
    <3>1. n # 0
      BY LambdaAssumption DEF Runs
    <3>2. \E d \in Callers : Busy(d) /\ job[d].run = n
      BY <1>1, <2>1, <2>3, <3>1 DEF LaunchInv
    <3> QED
      BY <1>a, <1>2, <1>6, <3>2, ChangeTyped
  <2>4. usage' = CurrentRun'
    BY <1>2, <1>13, <2>1 DEF LaunchInv, CurrentRun
  <2>5. \A d \in Callers : ~(Busy(d)' /\ (job'[d].at \in Launching \/ Emptied(job'[d])))
    BY <1>6, <2>1, <2>2, ChangeTyped DEF Doing
  <2>6. \A d, e \in Callers : d # e => ~(Decided(job'[d]) /\ Decided(job'[e]))
    BY <1>6, <2>1, <2>2, ChangeTyped
  <2> QED
    BY <2>3, <2>4, <2>5, <2>6 DEF LaunchInv, Decided, Emptied, Updating
<1>15. RouteInv'
  <2> SUFFICES ASSUME overlap \cap {"launch", "stop"} = {} PROVE RouteInv'
    BY <1>7 DEF RouteInv
  <2>1. \A d \in Callers : ~Doing(d, Stopping)'
    BY <1>4, <1>6, <1>12, LaunchingAlone, ChangeTyped DEF Doing, Stopping
  <2>2. \A d \in Callers : ~Doing(d, {"boot", "undo", "enter"})'
    BY <1>4, <1>6, <1>12, LaunchingAlone, ChangeTyped DEF Doing, Launching
  <2>3. {routes'} \ {None} = CurrentRun'
    <3>1. routes = j.spec.hash
      BY <1>a, <1>1 DEF RouteInv, Doing
    <3> QED
      BY <1>1, <1>8, <1>13, <3>1
  <2> QED
    BY <2>1, <2>2, <2>3 DEF RouteInv
<1>16. RowInv'
  <2>1. "row" \notin overlap' => (spec' = None => row' = None)
    BY <1>a, <1>1, <1>7 DEF RowInv
  <2> QED
    BY <1>4, <1>6, <1>7, <2>1, ChangePersists DEF Pending
<1>17. OwedInv'
  <2>1. cur' # 0
    BY <1>1, <1>2
  <2> QED
    BY <1>1, <1>4, <1>6, <2>1, ChangeOwed DEF Due
<1> QED
  BY <1>9, <1>10, <1>11, <1>14, <1>15, <1>16, <1>17

-------------------------------------------------------------------------------
(* Stop, and what follows it: NotRunning, TakeOut, Cancel, Unroute, Delete *)

\* Where a call goes after the run is stopped: to launch only in an update that had one.
LEMMA AfterStopFacts ==
    ASSUME NEW j \in Jobs
    PROVE  /\ AfterStop(j) \in {"delete", "register", "lookup", "end"}
           /\ AfterStop(j) \in Steps
           /\ AfterStop(j) = "register" => Updating(j) /\ j.op # "restore"
           /\ Updating(j) => AfterStop(j) = "register"
BY DEF AfterStop, Steps, Updating

\* A call that stops is not the restart.
LEMMA StopIsNotOwed ==
    ASSUME JobInv, OwedInv, NEW c \in Callers,
           Doing(c, {"stop", "cancel", "unroute", "delete", "write", "read", "undo"})
    PROVE  ~owed
BY DEF JobInv, OwedInv, Quiet, Due, Doing

LEMMA NotRunningInv ==
    ASSUME LambdaInv, NEW c \in Callers, NotRunning(c)
    PROVE  LambdaInv'
<1> USE DEF LambdaInv
<1>a. PICK j \in Ready(c, "stop"), next \in {"delete", "register", "lookup", "end"} :
        /\ next = IF spec = None /\ j.op # "refresh" THEN "end" ELSE AfterStop(j)
        /\ job' = [job EXCEPT ![c] = To(j, next)]
        /\ Mark(MarkNext(c, next))
  <2>1. PICK j \in Ready(c, "stop") :
          /\ job' = [job EXCEPT ![c] =
                        To(j, IF spec = None /\ j.op # "refresh" THEN "end" ELSE AfterStop(j))]
          /\ Mark(MarkNext(c, IF spec = None /\ j.op # "refresh" THEN "end" ELSE AfterStop(j)))
    BY DEF NotRunning
  <2>2. j \in Jobs
    BY <2>1, ReadyFacts
  <2> QED
    BY <2>1, <2>2, AfterStopFacts
<1>b. PICK k : k = To(j, next)
  OBVIOUS
<1>1. /\ UNCHANGED <<loaderVars, managerVars, row, up, mishaps>>
      /\ cur = 0
      /\ owed' \in BOOLEAN
      /\ owed' => owed /\ Busy(c)
  BY DEF NotRunning, StillOwed, LambdaTypeOK
<1>2. /\ j \in Jobs /\ j # Idle /\ j.at = "stop" /\ JobOK(j) /\ j.run = 0 /\ j.then # "register"
      /\ \/ Busy(c) /\ j = job[c]
         \/ ~Busy(c) /\ up /\ j \in Requests
  BY <1>a, ReadyFacts DEF JobOK
<1>3. next \in Steps /\ (next = "register" => Updating(j) /\ j.op # "restore" /\ j.spec # None)
  BY <1>a, <1>2, AfterStopFacts DEF Steps, JobOK
<1>4. /\ k # Idle => /\ k \in Jobs /\ k.run = 0
                     /\ k.op = "restore" <=> j.op = "restore"
                     /\ k.at = next /\ k.then = j.then /\ k.spec = j.spec
                     /\ Updating(k) => Updating(j)
                     /\ k.at = "end" => j.op = "restore"
      /\ j.op = "restore" => k # Idle
  <2>1. CASE next = "end" /\ j.op # "restore"
    BY <1>b, <1>2, <1>3, <2>1, ToFacts
  <2>2. CASE ~(next = "end" /\ j.op # "restore")
    <3>1. /\ k \in Jobs /\ k # Idle /\ k.at = next /\ k.run = 0 /\ k.then = j.then /\ k.spec = j.spec
          /\ next = "register" => k.op = "start" /\ ~k.was
          /\ next # "register" => k.op = j.op /\ k.was = j.was
      BY <1>b, <1>2, <1>3, <2>2, ToFacts
    <3> QED
      BY <1>3, <2>2, <3>1 DEF Updating
  <2> QED
    BY <2>1, <2>2
<1>5. k # Idle => JobOK(k)
  BY <1>2, <1>3, <1>4, <1>a DEF JobOK, Launching
<1>6. Change(c, j, k)
  BY <1>a, <1>b, <1>2, <1>4, <1>5 DEF Change
<1>7. /\ overlap \subseteq overlap' /\ overlap' \subseteq overlap \union {"stop"}
      /\ next = "register" /\ "stop" \notin overlap' => \A d \in Callers \ {c} : ~Doing(d, Stopping)
  BY <1>a, Unmet DEF Mark, MarkNext
<1>8. LambdaTypeOK'
  BY <1>1, <1>6, <1>7, ChangeTyped DEF LambdaTypeOK, managerVars, loaderVars, runVars
<1>9. JobInv' /\ RunInv'
  BY <1>1, <1>4, <1>6, ChangeJobs, ChangeRuns DEF managerVars
<1>10. Decided(k) => Decided(j) /\ Busy(c) /\ j = job[c]
  BY <1>2, <1>3, <1>4, <1>a, RequestFacts DEF Decided, Launching, Updating
<1>11. LaunchInv'
  <2>1. "launch" \notin overlap' /\ Decided(k) => \A d \in Callers \ {c} : ~Decided(job[d])
    BY <1>7, <1>10 DEF LaunchInv
  <2> QED
    BY <1>1, <1>2, <1>6, <1>7, <2>1, ChangeLaunch DEF managerVars
<1>12. RouteInv'
  BY <1>1, <1>2, <1>4, <1>6, <1>7, <1>a, ChangeRoutes DEF managerVars, Doing, Stopping
<1>13. RowInv'
  BY <1>1, <1>2, <1>4, <1>6, <1>7, <1>a, ChangeRow DEF managerVars, Doing, Pending, runVars
<1>14. OwedInv'
  <2>1. ~owed'
    BY <1>1, <1>2, StopIsNotOwed DEF Doing
  <2> QED
    BY <2>1 DEF OwedInv
<1> QED
  BY <1>8, <1>9, <1>11, <1>12, <1>13, <1>14

LEMMA TakeOutInv ==
    ASSUME LambdaInv, NEW c \in Callers, TakeOut(c)
    PROVE  LambdaInv'
<1> USE DEF LambdaInv
<1>a. PICK j \in Ready(c, "stop") :
        /\ job' = [job EXCEPT ![c] = [j EXCEPT !.at = "cancel", !.run = cur]]
        /\ Mark(MarkRow(c) \union Met("stop", Others(c, Launching)))
  BY DEF TakeOut
<1>b. PICK k : k = [j EXCEPT !.at = "cancel", !.run = cur]
  OBVIOUS
<1>1. /\ UNCHANGED <<loaderVars, spec, hashOf, routes, row, up, mishaps>>
      /\ cur # 0 /\ cur \in Runs /\ cur' = 0
      /\ usage' = usage \ {hashOf[cur]}
      /\ owed' \in BOOLEAN
      /\ owed' => owed /\ Busy(c)
  <2>1. owed' \in BOOLEAN /\ (owed' => owed /\ Busy(c))
    BY DEF TakeOut, StillOwed, LambdaTypeOK
  <2>2. cur \in 0..MaxRuns /\ cur # 0
    BY DEF TakeOut, LambdaTypeOK
  <2>3. cur \in Runs
    BY <2>2, LambdaAssumption DEF Runs
  <2>4. /\ UNCHANGED <<loaderVars, spec, hashOf, routes, row, up, mishaps>>
        /\ cur' = 0 /\ usage' = usage \ {hashOf[cur]}
    BY DEF TakeOut, Released
  <2> QED
    BY <2>1, <2>2, <2>3, <2>4
<1>2. /\ j \in Jobs /\ j # Idle /\ j.at = "stop" /\ JobOK(j) /\ j.run = 0 /\ j.then # "register"
      /\ \/ Busy(c) /\ j = job[c]
         \/ ~Busy(c) /\ up /\ j \in Requests
  BY <1>a, ReadyFacts DEF JobOK
<1>3. /\ k \in Jobs /\ k.at = "cancel" /\ k.run = cur /\ k.op = j.op /\ k.was = j.was
      /\ k.then = j.then /\ k.spec = j.spec
  BY <1>b, <1>2 DEF Jobs, Steps, LambdaTypeOK
<1>4. k # Idle /\ JobOK(k)
  BY <1>1, <1>2, <1>3, IdleIsNoJob DEF JobOK, Launching, Updating
<1>5. Change(c, j, k)
  BY <1>a, <1>b, <1>2, <1>3, <1>4 DEF Change
<1>6. /\ overlap \subseteq overlap' /\ overlap' \subseteq overlap \union {"row", "stop"}
      /\ "row" \notin overlap' => \A d \in Callers \ {c} : ~Doing(d, {"save"})
      /\ "stop" \notin overlap' => \A d \in Callers \ {c} : ~Doing(d, Launching)
  BY <1>a, Unmet DEF Mark, Met, Others, Doing
<1>7. LambdaTypeOK'
  BY <1>1, <1>5, <1>6, ChangeTyped, LambdaAssumption DEF LambdaTypeOK, loaderVars
<1>8. JobInv'
  BY <1>1, <1>5, ChangeJobs
<1>9. RunInv'
  <2>1. \A d \in Callers : Busy(d) => job[d].run # cur
    BY <1>1 DEF RunInv
  <2> SUFFICES ASSUME NEW d \in Callers, Busy(d)', job'[d].run # 0
               PROVE  /\ \A e \in Callers \ {d} : Busy(e)' => job'[e].run # job'[d].run
                      /\ job'[d].at = "enter" => hashOf[job'[d].run] = job'[d].spec.hash
                      /\ job'[d].at = "unroute" => hashOf[job'[d].run] = None
    BY <1>1 DEF RunInv
  <2>2. CASE d = c
    BY <1>3, <1>5, <2>1, <2>2, ChangeTyped
  <2>3. CASE d # c
    <3>1. Busy(d) /\ job'[d] = job[d]
      BY <1>5, <2>3, ChangeTyped
    <3> QED
      BY <1>3, <1>5, <2>1, <2>3, <3>1, ChangeTyped DEF RunInv
  <2> QED
    BY <2>2, <2>3
<1>10. Decided(k) => Busy(c) /\ Decided(job[c])
  BY <1>2, <1>3, RequestFacts DEF Decided, Launching
<1>11. LaunchInv'
  <2> SUFFICES ASSUME "launch" \notin overlap PROVE LaunchInv'
    BY <1>6 DEF LaunchInv
  <2>1. \A d, e \in Callers : d # e => ~(Decided(job'[d]) /\ Decided(job'[e]))
    BY <1>5, <1>10, ChangeTyped DEF LaunchInv
  <2>2. ASSUME NEW n \in Runs, hashOf'[n] # None
        PROVE  \E d \in Callers : Busy(d)' /\ job'[d].run = n
    <3>1. CASE n = cur
      BY <1>3, <1>4, <1>5, <3>1, ChangeTyped
    <3>2. CASE n # cur
      <4>1. n # 0
        BY LambdaAssumption DEF Runs
      <4>2. \E d \in Callers \ {c} : Busy(d) /\ job[d].run = n
        BY <1>1, <1>2, <2>2, <3>2, <4>1 DEF LaunchInv
      <4> QED
        BY <1>5, <4>2, ChangeTyped
    <3> QED
      BY <3>1, <3>2
  <2>3. usage' = CurrentRun'
    BY <1>1 DEF LaunchInv, CurrentRun
  <2> QED
    BY <1>1, <2>1, <2>2, <2>3 DEF LaunchInv
<1>12. RouteInv'
  <2> SUFFICES ASSUME overlap' \cap {"launch", "stop"} = {} PROVE RouteInv'
    BY DEF RouteInv
  <2>1. /\ \A d \in Callers \ {c} : ~Doing(d, Launching)
        /\ \A d \in Callers : ~Doing(d, Stopping)
    BY <1>1, <1>6 DEF RouteInv
  <2>2. Doing(c, Stopping)' /\ ~Doing(c, Launching)'
    BY <1>3, <1>4, <1>5, ChangeTyped DEF Doing, Stopping, Launching
  <2>3. \A d \in Callers \ {c} : ~Doing(d, Launching)' /\ ~Doing(d, Stopping)'
    BY <1>5, <2>1, ChangeTyped DEF Doing, Stopping, Launching
  <2>4. \A d \in Callers : ~Doing(d, {"boot", "undo", "enter"})'
    BY <2>2, <2>3 DEF Doing, Launching
  <2>5. Doing(c, {"boot", "undo", "enter"} \union Stopping)'
    BY <2>2 DEF Doing, Stopping
  <2> QED
    BY <1>1, <2>2, <2>3, <2>4, <2>5 DEF RouteInv
<1>13. RowInv'
  <2>2. up \/ (Busy(c) /\ job[c].at \notin {"resolve", "insert"})
    BY <1>2
  <2>3. "row" \notin overlap' => (spec' = None => row' = None)
    BY <1>1, <1>6, <2>2 DEF RowInv
  <2> QED
    BY <1>3, <1>4, <1>5, <1>6, <2>3, ChangePersists DEF Pending
<1>14. OwedInv'
  <2>1. ~owed'
    BY <1>1, <1>2, StopIsNotOwed DEF Doing
  <2> QED
    BY <2>1 DEF OwedInv
<1> QED
  BY <1>7, <1>8, <1>9, <1>11, <1>12, <1>13, <1>14

\* The run it cancels is in nobody else's hands.
LEMMA CancelInv ==
    ASSUME LambdaInv, NEW c \in Callers, Cancel(c)
    PROVE  LambdaInv'
<1> USE DEF LambdaInv
<1>a. PICK j : j = job[c]
  OBVIOUS
<1>b. PICK k : k = To(j, "unroute")
  OBVIOUS
<1>1. /\ Busy(c) /\ j \in Jobs /\ j # Idle /\ j.at = "cancel" /\ JobOK(j) /\ j.run # 0
      /\ j.run \in Runs /\ j.then # "register"
      /\ UNCHANGED <<loaderVars, spec, cur, usage, routes, row, up, mishaps, overlap, owed>>
      /\ job' = [job EXCEPT ![c] = k]
      /\ hashOf' = [hashOf EXCEPT ![j.run] = None]
  BY <1>a, <1>b, AtFacts, LambdaAssumption DEF Cancel, JobOK, Go, Jobs, Runs
<1>2. /\ k \in Jobs /\ k # Idle /\ k.at = "unroute" /\ k.op = j.op /\ k.was = j.was
      /\ k.run = j.run /\ k.then = j.then /\ k.spec = j.spec
  BY <1>b, <1>1, ToFacts DEF Steps
<1>3. JobOK(k)
  BY <1>1, <1>2 DEF JobOK, Updating, Launching
<1>4. Change(c, j, k)
  BY <1>a, <1>1, <1>2, <1>3 DEF Change
<1>5. LambdaTypeOK'
  BY <1>1, <1>4, ChangeTyped DEF LambdaTypeOK, loaderVars
<1>6. JobInv'
  BY <1>1, <1>4, ChangeJobs
<1>7. /\ \A n \in Runs : n # j.run => hashOf'[n] = hashOf[n]
      /\ hashOf'[j.run] = None
      /\ j.run # cur
      /\ CurrentRun' = CurrentRun
  <2>1. \A n \in Runs : hashOf'[n] = IF n = j.run THEN None ELSE hashOf[n]
    BY <1>1 DEF LambdaTypeOK
  <2>2. cur # 0 => cur \in Runs
    BY LambdaAssumption DEF LambdaTypeOK, Runs
  <2>3. j.run # cur
    BY <1>a, <1>1 DEF RunInv
  <2> QED
    BY <1>1, <2>1, <2>2, <2>3 DEF CurrentRun
<1>8. RunInv'
  <2>1. cur' # 0 => hashOf'[cur'] # None
    BY <1>1, <1>7, LambdaAssumption DEF RunInv, LambdaTypeOK, Runs
  <2> SUFFICES ASSUME NEW d \in Callers, Busy(d)', job'[d].run # 0
               PROVE  /\ job'[d].run # cur
                      /\ \A e \in Callers \ {d} : Busy(e)' => job'[e].run # job'[d].run
                      /\ job'[d].at = "enter" => hashOf'[job'[d].run] = job'[d].spec.hash
                      /\ job'[d].at = "unroute" => hashOf'[job'[d].run] = None
    BY <1>1, <2>1 DEF RunInv
  <2>2. \A e \in Callers \ {c} : Busy(e) => job[e].run # j.run
    BY <1>a, <1>1 DEF RunInv
  <2>3. CASE d = c
    BY <1>2, <1>4, <1>7, <2>2, <2>3, ChangeTyped
  <2>4. CASE d # c
    <3>1. Busy(d) /\ job'[d] = job[d] /\ job[d].run # j.run
      BY <1>4, <2>2, <2>4, ChangeTyped
    <3>2. job[d].run \in Runs
      BY <2>4, <3>1, BusyHasJob, LambdaAssumption DEF Jobs, Runs
    <3>3. /\ job[d].run # cur
          /\ \A e \in Callers \ {d} : Busy(e) => job[e].run # job[d].run
          /\ job[d].at = "enter" => hashOf[job[d].run] = job[d].spec.hash
          /\ job[d].at = "unroute" => hashOf[job[d].run] = None
      BY <3>1 DEF RunInv
    <3>4. \A e \in Callers \ {d} : Busy(e)' => job'[e].run # job'[d].run
      BY <1>2, <1>4, <3>1, <3>3, ChangeTyped
    <3> QED
      BY <1>7, <3>1, <3>2, <3>3, <3>4
  <2> QED
    BY <2>3, <2>4
<1>9. LaunchInv'
  <2> SUFFICES ASSUME "launch" \notin overlap PROVE LaunchInv'
    BY <1>1 DEF LaunchInv
  <2>1. /\ Decided(k) => Decided(job[c])
        /\ k.at \notin Launching
        /\ Emptied(k) => Emptied(job[c])
    BY <1>a, <1>1, <1>2 DEF Decided, Launching, Emptied, Updating, Stopping
  <2>2. \A d, e \in Callers : d # e => ~(Decided(job'[d]) /\ Decided(job'[e]))
    BY <1>4, <2>1, ChangeTyped DEF LaunchInv
  <2>3. \A d \in Callers : Busy(d)' /\ (job'[d].at \in Launching \/ Emptied(job'[d])) => cur' = 0
    BY <1>1, <1>4, <2>1, ChangeTyped DEF LaunchInv
  <2>4. ASSUME NEW n \in Runs, hashOf'[n] # None
        PROVE  n = cur' \/ \E d \in Callers : Busy(d)' /\ job'[d].run = n
    <3>1. n # j.run /\ hashOf[n] # None
      BY <1>7, <2>4
    <3>2. n = cur \/ \E d \in Callers \ {c} : Busy(d) /\ job[d].run = n
      BY <1>a, <3>1 DEF LaunchInv
    <3> QED
      BY <1>1, <1>4, <3>2, ChangeTyped
  <2>5. usage' = CurrentRun'
    BY <1>1, <1>7 DEF LaunchInv
  <2> QED
    BY <2>2, <2>3, <2>4, <2>5 DEF LaunchInv
<1>10. RouteInv'
  <2> SUFFICES ASSUME overlap \cap {"launch", "stop"} = {} PROVE RouteInv'
    BY <1>1 DEF RouteInv
  <2>1. ASSUME NEW d \in Callers
        PROVE  /\ Doing(d, Stopping)' <=> Doing(d, Stopping)
               /\ Doing(d, Launching)' <=> Doing(d, Launching)
               /\ Doing(d, {"boot", "undo", "enter"})' => Doing(d, {"boot", "undo", "enter"}) /\ d # c
    BY <1>a, <1>1, <1>2, <1>4, ChangeTyped DEF Doing, Stopping, Launching
  <2>2. Doing(c, {"boot", "undo", "enter"} \union Stopping)'
    BY <1>2, <1>4, ChangeTyped DEF Doing, Stopping
  <2>3. \A d \in Callers : Doing(d, {"boot", "undo", "enter"})' => routes' = job'[d].spec.hash
    BY <1>1, <1>4, <2>1, ChangeTyped DEF RouteInv
  <2>4. \A d, e \in Callers : Doing(e, Stopping)' =>
              /\ cur' = 0
              /\ ~Doing(d, Launching)'
              /\ Doing(d, Stopping)' => d = e
    BY <1>1, <2>1 DEF RouteInv
  <2> QED
    BY <2>2, <2>3, <2>4 DEF RouteInv
<1>11. RowInv'
  BY <1>a, <1>1, <1>2, <1>4, ChangeRow DEF Doing, Pending
<1>12. OwedInv'
  <2>1. ~owed
    BY <1>a, <1>1, StopIsNotOwed DEF Doing
  <2> QED
    BY <1>1, <2>1 DEF OwedInv
<1> QED
  BY <1>5, <1>6, <1>8, <1>9, <1>10, <1>11, <1>12

LEMMA UnrouteInv ==
    ASSUME LambdaInv, NEW c \in Callers, Unroute(c)
    PROVE  LambdaInv'
<1> USE DEF LambdaInv
<1>a. PICK j : j = job[c]
  OBVIOUS
<1>b. PICK j1 : j1 = [j EXCEPT !.run = 0]
  OBVIOUS
<1>c. PICK k : k = Persisting(j1, AfterStop(j))
  OBVIOUS
<1>1. /\ Busy(c) /\ j \in Jobs /\ j # Idle /\ j.at = "unroute" /\ JobOK(j) /\ j.run # 0
      /\ UNCHANGED <<loaderVars, spec, runVars, row, up, mishaps, overlap, owed>>
      /\ routes' = None
  BY <1>a, AtFacts DEF Unroute, JobOK
<1>2. job' = [job EXCEPT ![c] = k]
  BY <1>a, <1>b, <1>c DEF Unroute, Persist, Persisting
<1>3. j1 \in Jobs /\ j1.op = j.op /\ j1.run = 0 /\ j1.was = j.was /\ j1.spec = j.spec
  <2>1. 0 \in 0..MaxRuns
    BY LambdaAssumption
  <2> QED
    BY <1>b, <1>1, <2>1 DEF Jobs
<1>4. /\ k \in Jobs /\ k # Idle /\ k.at = "snapshot" /\ k.then = AfterStop(j) /\ k.run = 0
      /\ k.op = "restore" <=> j.op = "restore"
      /\ k.spec = j.spec
      /\ Updating(k) => Updating(j)
      /\ k.then = "register" => Updating(k)
  <2>a. PICK next \in Steps :
          next = AfterStop(j) /\ next # "snapshot" /\ (next = "register" => Updating(j))
    BY <1>1, AfterStopFacts
  <2>1. /\ k \in Jobs /\ k # Idle /\ k.at = "snapshot" /\ k.then = next /\ k.run = 0
        /\ k.spec = j.spec
        /\ j.op = "restore" \/ next # "end" => k.op = j.op /\ k.was = j.was
        /\ j.op # "restore" /\ next = "end" => k.op = "start" /\ ~k.was
    BY <1>c, <1>3, <2>a, PersistFacts
  <2> QED
    BY <2>a, <2>1 DEF Updating
<1>5. JobOK(k)
  BY <1>1, <1>4, AfterStopFacts DEF JobOK, Launching
<1>6. Change(c, j, k)
  BY <1>a, <1>1, <1>2, <1>4, <1>5 DEF Change
<1>7. LambdaTypeOK'
  BY <1>1, <1>6, ChangeTyped DEF LambdaTypeOK, loaderVars, runVars
<1>8. JobInv' /\ RunInv'
  BY <1>1, <1>4, <1>6, ChangeJobs, ChangeRuns
<1>9. hashOf[j.run] = None
  BY <1>a, <1>1 DEF RunInv
<1>10. LaunchInv'
  <2>1. k.at \notin Launching /\ (Decided(k) => Decided(job[c]))
    BY <1>a, <1>1, <1>4 DEF Decided, Launching, Updating
  <2>2. "launch" \notin overlap' =>
            /\ Decided(k) => \A d \in Callers \ {c} : ~Decided(job[d])
            /\ Emptied(k) => cur = 0
    BY <1>a, <1>1, <1>4, <2>1 DEF LaunchInv, Emptied, Stopping
  <2> QED
    BY <1>a, <1>1, <1>6, <1>9, <2>1, <2>2, ChangeLaunch
<1>11. RouteInv'
  <2> SUFFICES ASSUME overlap \cap {"launch", "stop"} = {} PROVE RouteInv'
    BY <1>1 DEF RouteInv
  <2>1. /\ cur = 0
        /\ \A d \in Callers : ~Doing(d, Launching)
        /\ \A d \in Callers \ {c} : ~Doing(d, Stopping)
    BY <1>a, <1>1 DEF RouteInv, Doing, Stopping
  <2>2. \A d \in Callers : ~Doing(d, Stopping)' /\ ~Doing(d, {"boot", "undo", "enter"})'
    BY <1>4, <1>6, <2>1, ChangeTyped DEF Doing, Stopping, Launching
  <2>3. {routes'} \ {None} = CurrentRun'
    BY <1>1, <2>1 DEF CurrentRun, runVars
  <2> QED
    BY <2>2, <2>3 DEF RouteInv
<1>12. RowInv'
  BY <1>a, <1>1, <1>4, <1>6, ChangeRow DEF Doing, Pending, runVars
<1>13. OwedInv'
  <2>1. ~owed
    BY <1>a, <1>1, StopIsNotOwed DEF Doing
  <2> QED
    BY <1>1, <2>1 DEF OwedInv
<1> QED
  BY <1>7, <1>8, <1>10, <1>11, <1>12, <1>13

LEMMA DeleteInv ==
    ASSUME LambdaInv, NEW c \in Callers, Delete(c)
    PROVE  LambdaInv'
<1> USE DEF LambdaInv
<1>a. PICK j : j = job[c]
  OBVIOUS
<1>b. PICK k : k = To(j, "end")
  OBVIOUS
<1>1. /\ Busy(c) /\ j \in Jobs /\ j # Idle /\ j.at = "delete" /\ JobOK(j) /\ j.run = 0
      /\ j.then # "register"
      /\ UNCHANGED <<loaderVars, runVars, routes, up, owed>>
      /\ spec' = None
      /\ job' = [job EXCEPT ![c] = k]
  BY <1>a, <1>b, AtFacts DEF Delete, JobOK, Launching, Go
<1>2. /\ j.op # "restore" => k = Idle
      /\ j.op = "restore" => /\ k \in Jobs /\ k # Idle /\ k.at = "end" /\ k.op = j.op
                             /\ k.run = 0 /\ k.then = j.then
  BY <1>b, <1>1, ToFacts DEF Steps
<1>3. k # Idle => JobOK(k)
  BY <1>1, <1>2 DEF JobOK, Updating, Launching
<1>4. Change(c, j, k)
  BY <1>a, <1>1, <1>2, <1>3 DEF Change
<1>5. /\ mishaps' \in 0..MaxMishaps
      /\ row' \in Rows \union {None}
      /\ overlap \subseteq overlap' /\ overlap' \subseteq overlap \union {"row"}
      /\ "row" \notin overlap' =>
            \/ spec = None /\ UNCHANGED row
            \/ row' = None /\ \A d \in Callers \ {c} : ~Doing(d, {"save"})
  <2>1. CASE spec = None
    BY <2>1 DEF Delete, LambdaTypeOK
  <2>2. CASE spec # None /\ row' = None /\ Mark(MarkRow(c)) /\ UNCHANGED mishaps
    BY <2>2, Unmet DEF Mark, LambdaTypeOK
  <2>3. CASE spec # None /\ UNCHANGED row /\ Mark({"row"}) /\ Mishap
    <3>1. mishaps' \in 0..MaxMishaps
      BY <2>3, LambdaAssumption DEF Mishap, LambdaTypeOK
    <3> QED
      BY <2>3, <3>1 DEF Mark, LambdaTypeOK
  <2> QED
    BY <2>1, <2>2, <2>3 DEF Delete
<1>6. LambdaTypeOK'
  BY <1>1, <1>4, <1>5, ChangeTyped DEF LambdaTypeOK, loaderVars, runVars
<1>7. JobInv' /\ RunInv'
  BY <1>1, <1>2, <1>4, ChangeJobs, ChangeRuns
<1>8. LaunchInv'
  <2>1. ~Decided(k) /\ (k # Idle => k.at \notin Launching /\ ~Emptied(k))
    BY <1>2 DEF Decided, Launching, Emptied, Updating
  <2> QED
    BY <1>a, <1>1, <1>4, <1>5, <2>1, ChangeLaunch
<1>9. RouteInv'
  BY <1>a, <1>1, <1>2, <1>4, <1>5, ChangeRoutes DEF Doing, Stopping
<1>10. RowInv'
  <2>1. "row" \notin overlap' => row' = None
    BY <1>a, <1>1, <1>4, <1>5 DEF RowInv, Change
  <2>2. ASSUME "row" \notin overlap', NEW d \in Callers, Doing(d, {"save"})'
        PROVE  job'[d].snap = [spec |-> spec', running |-> cur' # 0]
    <3>1. d # c /\ Doing(d, {"save"}) /\ job'[d] = job[d]
      BY <1>2, <1>4, <2>2, ChangeTyped DEF Doing
    <3>2. spec = None
      BY <1>5, <2>2, <3>1
    <3> QED
      BY <1>1, <1>5, <2>2, <3>1, <3>2 DEF RowInv, runVars
  <2> QED
    BY <1>1, <2>1, <2>2 DEF RowInv
<1>11. OwedInv'
  <2>1. ~owed
    BY <1>a, <1>1, StopIsNotOwed DEF Doing
  <2> QED
    BY <1>1, <2>1 DEF OwedInv
<1> QED
  BY <1>6, <1>7, <1>8, <1>9, <1>10, <1>11

-------------------------------------------------------------------------------
(* persistStrategy: Snapshot, Save *)

\* The record of a call that goes on after persistStrategy.
Persisted(j) == To([j EXCEPT !.then = "end", !.snap = None], j.then)

LEMMA GoOnFacts ==
    ASSUME LambdaInv, NEW c \in Callers, NEW kinds \in SUBSET {"row"},
           Doing(c, {"snapshot", "save"}), GoOn(c, kinds), UNCHANGED up
    PROVE  \E k :
             LET j == job[c] IN
             /\ Change(c, j, k)
             /\ overlap \subseteq overlap' /\ overlap' \subseteq overlap \union {"row", "stop"}
             /\ kinds \subseteq overlap'
             /\ j.run = 0
             /\ k # Idle => k.run = 0 /\ k.at = j.then
             /\ j.then = "end" /\ j.op # "restore" => k = Idle
             /\ Decided(k) => Decided(j)
             /\ k # Idle /\ (k.at \in Launching \/ Emptied(k)) => Emptied(j)
             /\ k # Idle /\ k.at = "register" /\ "stop" \notin overlap' =>
                   \A d \in Callers \ {c} : ~Doing(d, Stopping)
<1> USE DEF LambdaInv
<1>a. PICK j : j = job[c]
  OBVIOUS
<1>b. PICK j1 : j1 = [j EXCEPT !.then = "end", !.snap = None]
  OBVIOUS
<1>c. PICK k : k = To(j1, j.then)
  OBVIOUS
<1>1. /\ Busy(c) /\ j \in Jobs /\ j # Idle /\ j.at \in {"snapshot", "save"} /\ JobOK(j) /\ j.run = 0
      /\ j.then \in {"end", "snapshot", "stop", "lookup", "register", "delete"}
      /\ j.then = "register" => Updating(j) /\ j.spec # None /\ Emptied(j)
  BY <1>a, BusyHasJob DEF Doing, JobInv, JobOK, Busy, Emptied
<1>2. /\ job' = [job EXCEPT ![c] = k]
      /\ overlap' = overlap \union (MarkNext(c, j.then) \union kinds)
  BY <1>a, <1>b, <1>c DEF GoOn, Mark
<1>3. /\ j1 \in Jobs /\ j1.op = j.op /\ j1.run = 0 /\ j1.was = j.was /\ j1.spec = j.spec
      /\ j1.then = "end"
  BY <1>b, <1>1 DEF Jobs, Steps
<1>4. /\ j.then = "end" /\ j.op # "restore" => k = Idle
      /\ ~(j.then = "end" /\ j.op # "restore") =>
            /\ k \in Jobs /\ k # Idle /\ k.at = j.then /\ k.run = 0 /\ k.then = "end"
            /\ k.spec = j.spec
            /\ k.op = "restore" <=> j.op = "restore"
            /\ Updating(k) => Updating(j) /\ k.at # "register"
  BY <1>c, <1>1, <1>3, ToFacts DEF Steps, Updating
<1>5. k # Idle => JobOK(k)
  BY <1>1, <1>4 DEF JobOK, Launching
<1>6. Change(c, j, k)
  BY <1>a, <1>1, <1>2, <1>4, <1>5 DEF Change
<1>7. /\ Decided(k) => Decided(j)
      /\ k # Idle /\ (k.at \in Launching \/ Emptied(k)) => Emptied(j)
  BY <1>1, <1>4 DEF Decided, Launching, Emptied, Stopping, Updating
<1>8. /\ overlap \subseteq overlap' /\ overlap' \subseteq overlap \union {"row", "stop"}
      /\ kinds \subseteq overlap'
      /\ j.then = "register" /\ "stop" \notin overlap' =>
            \A d \in Callers \ {c} : ~Doing(d, Stopping)
  BY <1>2, Unmet DEF MarkNext
<1> QED
  BY <1>a, <1>1, <1>4, <1>6, <1>7, <1>8

LEMMA SnapshotInv ==
    ASSUME LambdaInv, NEW c \in Callers, Snapshot(c)
    PROVE  LambdaInv'
<1> USE DEF LambdaInv
<1>a. PICK j : j = job[c]
  OBVIOUS
<1>1. /\ Busy(c) /\ j \in Jobs /\ j # Idle /\ j.at = "snapshot" /\ JobOK(j) /\ j.run = 0
      /\ UNCHANGED <<loaderVars, managerVars, row, up, mishaps, owed>>
  BY <1>a, AtFacts DEF Snapshot, JobOK
<1>2. CASE spec = None
  <2>a. PICK k : /\ Change(c, j, k)
                 /\ overlap \subseteq overlap' /\ overlap' \subseteq overlap \union {"row", "stop"}
                 /\ k # Idle => k.run = 0 /\ k.at = j.then
                 /\ Decided(k) => Decided(j)
                 /\ k # Idle /\ (k.at \in Launching \/ Emptied(k)) => Emptied(j)
                 /\ k # Idle /\ k.at = "register" /\ "stop" \notin overlap' =>
                       \A d \in Callers \ {c} : ~Doing(d, Stopping)
    <3>1. GoOn(c, {}) /\ Doing(c, {"snapshot", "save"})
      BY <1>a, <1>1, <1>2 DEF Snapshot, Doing
    <3> QED
      BY <1>a, <1>1, <3>1, GoOnFacts
  <2>1. j.then \in {"end", "snapshot", "stop", "lookup", "register", "delete"}
    BY <1>1 DEF JobOK
  <2>2. LambdaTypeOK'
    BY <1>1, <2>a, ChangeTyped DEF LambdaTypeOK, managerVars, loaderVars, runVars
  <2>3. JobInv' /\ RunInv'
    BY <1>1, <2>a, ChangeJobs, ChangeRuns DEF managerVars
  <2>4. LaunchInv'
    <3>1. "launch" \notin overlap' =>
              /\ Decided(k) => \A d \in Callers \ {c} : ~Decided(job[d])
              /\ k # Idle /\ (k.at \in Launching \/ Emptied(k)) => cur = 0
      BY <1>a, <1>1, <2>a DEF LaunchInv
    <3> QED
      BY <1>a, <1>1, <2>a, <3>1, ChangeLaunch DEF managerVars
  <2>5. RouteInv'
    BY <1>a, <1>1, <2>a, <2>1, ChangeRoutes DEF managerVars, Doing, Stopping
  <2>6. RowInv'
    BY <1>a, <1>1, <1>2, <2>a, <2>1, ChangeRow DEF managerVars, Doing, Pending, runVars
  <2>7. OwedInv'
    <3>1. owed => up \/ j.then = "end"
      BY <1>a, <1>1, <1>2, <2>1 DEF OwedInv, Due
    <3>2. owed /\ ~up => cur # 0
      BY <1>a, <1>1, <1>2 DEF OwedInv, Due
    <3>3. owed /\ ~up => Due(k)'
      BY <1>1, <2>a, <3>1, <3>2 DEF Due, managerVars, runVars, Change, JobInv
    <3> QED
      BY <1>1, <2>a, <3>3, ChangeOwed
  <2> QED
    BY <2>2, <2>3, <2>4, <2>5, <2>6, <2>7
<1>3. CASE spec # None
  <2>a. PICK snap \in Rows : snap = [spec |-> spec, running |-> cur # 0]
    <3>1. (cur # 0) \in BOOLEAN /\ spec \in Specs
      BY <1>3 DEF LambdaTypeOK
    <3> QED
      BY <3>1 DEF Rows
  <2>b. PICK k : k = [j EXCEPT !.at = "save", !.snap = snap]
    OBVIOUS
  <2>1. job' = [job EXCEPT ![c] = k] /\ UNCHANGED overlap
    BY <1>a, <1>3, <2>a, <2>b DEF Snapshot, Unmarked
  <2>2. /\ k \in Jobs /\ k.at = "save" /\ k.op = j.op /\ k.was = j.was /\ k.run = 0
        /\ k.then = j.then /\ k.spec = j.spec /\ k.snap = snap
    BY <1>1, <2>b DEF Jobs, Steps
  <2>3. k # Idle /\ snap # None
    BY <2>2, IdleIsNoJob, LambdaAssumption
  <2>4. JobOK(k)
    BY <1>1, <2>2, <2>3 DEF JobOK, Launching, Updating
  <2>5. Change(c, j, k)
    BY <1>a, <1>1, <2>1, <2>2, <2>3, <2>4 DEF Change
  <2>6. LambdaTypeOK'
    BY <1>1, <2>1, <2>5, ChangeTyped DEF LambdaTypeOK, managerVars, loaderVars, runVars
  <2>7. JobInv' /\ RunInv'
    BY <1>1, <2>2, <2>5, ChangeJobs, ChangeRuns DEF managerVars
  <2>8. LaunchInv'
    <3>1. /\ Decided(k) => Decided(j)
          /\ k.at \notin Launching
          /\ Emptied(k) => Emptied(j)
      BY <1>1, <2>2, <2>3 DEF Decided, Launching, Emptied, Stopping, Updating
    <3>2. "launch" \notin overlap' =>
              /\ Decided(k) => \A d \in Callers \ {c} : ~Decided(job[d])
              /\ k # Idle /\ (k.at \in Launching \/ Emptied(k)) => cur = 0
      BY <1>a, <1>1, <2>1, <3>1 DEF LaunchInv
    <3> QED
      BY <1>a, <1>1, <2>1, <2>5, <3>2, ChangeLaunch DEF managerVars
  <2>9. RouteInv'
    BY <1>a, <1>1, <2>1, <2>2, <2>5, ChangeRoutes DEF managerVars, Doing, Stopping
  <2>10. RowInv'
    BY <1>a, <1>1, <2>1, <2>a, <2>2, <2>3, <2>5, ChangeRow DEF managerVars, Doing, Pending, runVars
  <2>11. OwedInv'
    <3>1. owed /\ ~up => Due(j)
      BY <1>a, <1>1 DEF OwedInv
    <3>2. owed /\ ~up => Due(k)'
      BY <1>1, <1>3, <2>2, <3>1 DEF Due, managerVars, runVars
    <3> QED
      BY <1>1, <1>a, <2>5, <3>2, ChangeOwed
  <2> QED
    BY <2>6, <2>7, <2>8, <2>9, <2>10, <2>11
<1> QED
  BY <1>2, <1>3

\* What is saved is what is true, unless it is excepted.
LEMMA SaveInv ==
    ASSUME LambdaInv, NEW c \in Callers, Save(c)
    PROVE  LambdaInv'
<1> USE DEF LambdaInv
<1>a. PICK j : j = job[c]
  OBVIOUS
<1>1. /\ Busy(c) /\ j \in Jobs /\ j # Idle /\ j.at = "save" /\ JobOK(j) /\ j.run = 0
      /\ j.snap \in Rows /\ j.snap # None
      /\ UNCHANGED <<loaderVars, managerVars, up, owed>>
  BY <1>a, AtFacts DEF Save, JobOK, Jobs
<1>2. /\ mishaps' \in 0..MaxMishaps
      /\ \/ row' = j.snap /\ GoOn(c, {})
         \/ UNCHANGED row /\ GoOn(c, {"row"})
  <2>1. ASSUME Mishap PROVE mishaps' \in 0..MaxMishaps
    BY <2>1, LambdaAssumption DEF Mishap, LambdaTypeOK
  <2> QED
    BY <1>a, <2>1 DEF Save, LambdaTypeOK
<1>b. PICK k : /\ Change(c, j, k)
               /\ overlap \subseteq overlap' /\ overlap' \subseteq overlap \union {"row", "stop"}
               /\ row' = j.snap \/ (UNCHANGED row /\ "row" \in overlap')
               /\ k # Idle => k.run = 0 /\ k.at = j.then
               /\ j.then = "end" /\ j.op # "restore" => k = Idle
               /\ Decided(k) => Decided(j)
               /\ k # Idle /\ (k.at \in Launching \/ Emptied(k)) => Emptied(j)
               /\ k # Idle /\ k.at = "register" /\ "stop" \notin overlap' =>
                     \A d \in Callers \ {c} : ~Doing(d, Stopping)
  <2>1. PICK kinds \in SUBSET {"row"} :
          GoOn(c, kinds) /\ (row' = j.snap \/ (UNCHANGED row /\ "row" \in kinds))
    BY <1>2
  <2>2. Doing(c, {"snapshot", "save"})
    BY <1>a, <1>1 DEF Doing
  <2> QED
    BY <1>a, <1>1, <2>1, <2>2, GoOnFacts
<1>3. j.then \in {"end", "snapshot", "stop", "lookup", "register", "delete"}
  BY <1>1 DEF JobOK
<1>4. LambdaTypeOK'
  BY <1>1, <1>2, <1>b, ChangeTyped DEF LambdaTypeOK, managerVars, loaderVars, runVars
<1>5. JobInv' /\ RunInv'
  BY <1>1, <1>b, ChangeJobs, ChangeRuns DEF managerVars
<1>6. LaunchInv'
  <2>1. "launch" \notin overlap' =>
            /\ Decided(k) => \A d \in Callers \ {c} : ~Decided(job[d])
            /\ k # Idle /\ (k.at \in Launching \/ Emptied(k)) => cur = 0
    BY <1>a, <1>1, <1>b DEF LaunchInv
  <2> QED
    BY <1>a, <1>1, <1>b, <2>1, ChangeLaunch DEF managerVars
<1>7. RouteInv'
  BY <1>a, <1>1, <1>b, <1>3, ChangeRoutes DEF managerVars, Doing, Stopping
<1>8. RowInv'
  <2>1. ~up' /\ Quiet' => spec' = None
    <3>1. ~up => j.op = "restore"
      BY <1>a, <1>1 DEF JobInv
    <3> QED
      BY <1>1, <1>b, <3>1, ChangeTyped DEF Quiet, Change
  <2> SUFFICES ASSUME "row" \notin overlap'
               PROVE  /\ \A d \in Callers : Doing(d, {"save"})' => job'[d].snap = [spec |-> spec, running |-> cur # 0]
                      /\ spec = None => row' = None
                      /\ row' # None /\ row'.running = (cur # 0)
    BY <1>1, <2>1 DEF RowInv, managerVars, runVars
  <2>2. j.snap = [spec |-> spec, running |-> cur # 0]
    BY <1>a, <1>1, <1>b DEF RowInv, Doing
  <2>3. row' = j.snap /\ spec \in Specs
    BY <1>1, <1>b, <2>2 DEF Rows
  <2>4. \A d \in Callers : Doing(d, {"save"})' => job'[d].snap = [spec |-> spec, running |-> cur # 0]
    BY <1>b, <1>3, ChangeTyped DEF RowInv, Doing
  <2> QED
    BY <1>1, <2>2, <2>3, <2>4, SpecIsSome
<1>9. OwedInv'
  <2>1. owed /\ ~up => k # Idle /\ Due(j) /\ k.at = j.then
    BY <1>a, <1>1, <1>b DEF OwedInv, Change, JobInv
  <2>2. owed /\ ~up => Due(k)'
    BY <1>1, <1>3, <2>1 DEF Due, managerVars, runVars
  <2> QED
    BY <1>1, <1>a, <1>b, <2>2, ChangeOwed
<1> QED
  BY <1>4, <1>5, <1>6, <1>7, <1>8, <1>9

-------------------------------------------------------------------------------
(* The process and the loader: End, Restore, Crash, Reload *)

\* Only the restart gets there; the API is served after it.
LEMMA EndInv ==
    ASSUME LambdaInv, NEW c \in Callers, End(c)
    PROVE  LambdaInv'
<1> USE DEF LambdaInv
<1>1. /\ Busy(c) /\ job[c].at = "end" /\ job[c].op = "restore" /\ job[c].run = 0
      /\ ~up /\ \A d \in Callers : Busy(d) => d = c
      /\ job' = [job EXCEPT ![c] = Idle] /\ up' = TRUE
      /\ UNCHANGED <<loaderVars, managerVars, row, mishaps, overlap, owed>>
  BY AtFacts DEF End, JobInv, JobOK
<1>2. \A d \in Callers : job'[d] = Idle /\ ~Busy(d)'
  BY <1>1 DEF LambdaTypeOK, Busy
<1>3. LambdaTypeOK'
  BY <1>1 DEF LambdaTypeOK, loaderVars, managerVars, runVars
<1>4. JobInv'
  BY <1>2 DEF JobInv
<1>5. RunInv'
  BY <1>1, <1>2 DEF RunInv, managerVars, runVars
<1>6. \A d \in Callers : Busy(d) => job[d].run = 0
  BY <1>1
<1>7. LaunchInv'
  <2> SUFFICES ASSUME "launch" \notin overlap PROVE LaunchInv'
    BY <1>1 DEF LaunchInv
  <2>1. \A n \in Runs : hashOf[n] # None => n = cur
    BY <1>6, LambdaAssumption DEF LaunchInv, Runs
  <2>2. \A d \in Callers : ~Decided(job'[d])
    BY <1>2 DEF Decided
  <2>3. usage' = CurrentRun'
    BY <1>1 DEF LaunchInv, CurrentRun, managerVars, runVars
  <2> QED
    BY <1>1, <1>2, <2>1, <2>2, <2>3 DEF LaunchInv, managerVars, runVars
<1>8. RouteInv'
  <2> SUFFICES ASSUME overlap \cap {"launch", "stop"} = {} PROVE RouteInv'
    BY <1>1 DEF RouteInv
  <2>1. \A d \in Callers : ~Doing(d, {"boot", "undo", "enter"} \union Stopping)
    BY <1>1 DEF Doing, Stopping
  <2>2. {routes'} \ {None} = CurrentRun'
    BY <1>1, <2>1 DEF RouteInv, CurrentRun, managerVars, runVars
  <2> QED
    BY <1>2, <2>2 DEF RouteInv, Doing
<1>9. RowInv'
  <2> SUFFICES ASSUME "row" \notin overlap
               PROVE  /\ spec = None => row = None
                      /\ spec = None \/ (row # None /\ row.running = (cur # 0))
    BY <1>1, <1>2 DEF RowInv, Doing, managerVars, runVars
  <2>1. \A d \in Callers : ~Doing(d, Pending)
    BY <1>1 DEF Doing, Pending
  <2> QED
    BY <1>1, <2>1 DEF RowInv
<1>10. OwedInv'
  <2>1. owed => cur # 0
    BY <1>1 DEF OwedInv, Due
  <2> QED
    BY <1>1, <1>2, <2>1 DEF OwedInv, Quiet, managerVars, runVars
<1> QED
  BY <1>3, <1>4, <1>5, <1>7, <1>8, <1>9, <1>10

LEMMA RestoreInv ==
    ASSUME LambdaInv, NEW c \in Callers, Restore(c)
    PROVE  LambdaInv'
<1> USE DEF LambdaInv
<1>1. /\ ~up /\ \A d \in Callers : ~Busy(d)
      /\ spec = None
      /\ UNCHANGED <<loaderVars, managerVars, row, mishaps, overlap, owed>>
  BY DEF Restore, Quiet, RowInv
<1>2. CASE row = None
  <2>1. UNCHANGED job /\ up' = TRUE
    BY <1>2 DEF Restore
  <2>2. \A d \in Callers : ~Busy(d)'
    BY <1>1, <2>1 DEF Busy
  <2>3. LambdaTypeOK'
    BY <1>1, <2>1 DEF LambdaTypeOK, loaderVars, managerVars, runVars
  <2>4. JobInv'
    BY <2>2 DEF JobInv
  <2>5. RunInv'
    BY <1>1, <2>1, <2>2 DEF RunInv, managerVars, runVars
  <2>6. LaunchInv'
    BY <1>1, <2>1 DEF LaunchInv, Decided, Busy, Emptied, Updating, CurrentRun, managerVars, runVars
  <2>7. RouteInv'
    BY <1>1, <2>1 DEF RouteInv, Doing, Busy, CurrentRun, managerVars, runVars
  <2>8. RowInv'
    BY <1>1, <1>2, <2>1, <2>2 DEF RowInv, Doing, managerVars
  <2>9. OwedInv'
    BY <1>1, <1>2, <2>2 DEF OwedInv, Quiet
  <2> QED
    BY <2>3, <2>4, <2>5, <2>6, <2>7, <2>8, <2>9
<1>3. CASE row # None
  <2>a. PICK k : k = [Called("restore", "resolve", "name") EXCEPT !.was = row.running]
    OBVIOUS
  <2>1. job' = [job EXCEPT ![c] = k] /\ up' = FALSE
    BY <1>1, <1>3, <2>a DEF Restore, LambdaTypeOK
  <2>2. /\ k.op = "restore" /\ k.at = "resolve" /\ k.run = 0 /\ k.then = "end"
        /\ k.was = row.running /\ k.spec = None
    BY <2>a DEF Called
  <2>3. k \in Jobs
    <3>1. row.running \in BOOLEAN
      BY <1>3 DEF LambdaTypeOK, Rows
    <3>2. 0 \in 0..MaxRuns
      BY LambdaAssumption
    <3>3. "restore" \in Ops /\ "resolve" \in Steps /\ "end" \in Steps /\ "name" \in Selectors
      BY DEF Ops, Steps, Selectors
    <3>4. k = [op |-> "restore", at |-> "resolve", sel |-> "name", spec |-> None,
               was |-> row.running, run |-> 0, snap |-> None, then |-> "end"]
      BY <2>a DEF Called
    <3> QED
      BY <3>1, <3>2, <3>3, <3>4 DEF Jobs
  <2>4. k # Idle /\ JobOK(k)
    BY <2>2, <2>3, IdleIsNoJob DEF JobOK, Launching, Updating
  <2>5. /\ job'[c] = k /\ Busy(c)'
        /\ \A d \in Callers \ {c} : job'[d] = job[d] /\ ~Busy(d)'
        /\ \A d \in Callers \ {c} : job'[d] = Idle
    BY <1>1, <2>1, <2>4 DEF LambdaTypeOK, Busy
  <2>6. LambdaTypeOK'
    BY <1>1, <2>1, <2>3 DEF LambdaTypeOK, loaderVars, managerVars, runVars
  <2>7. JobInv'
    BY <2>1, <2>2, <2>4, <2>5 DEF JobInv
  <2>8. RunInv'
    BY <1>1, <2>2, <2>5 DEF RunInv, managerVars, runVars
  <2>9. LaunchInv'
    <3> SUFFICES ASSUME "launch" \notin overlap PROVE LaunchInv'
      BY <1>1 DEF LaunchInv
    <3>1. \A d \in Callers : ~Decided(job'[d])
      BY <2>2, <2>5 DEF Decided, Launching
    <3>2. \A d \in Callers : Busy(d)' => job'[d].at \notin Launching /\ ~Emptied(job'[d])
      BY <2>2, <2>5 DEF Launching, Emptied, Updating
    <3>3. \A n \in Runs : hashOf[n] # None => n = cur
      BY <1>1 DEF LaunchInv
    <3>4. usage' = CurrentRun'
      BY <1>1 DEF LaunchInv, CurrentRun, managerVars, runVars
    <3> QED
      BY <1>1, <3>1, <3>2, <3>3, <3>4 DEF LaunchInv, managerVars, runVars
  <2>10. RouteInv'
    <3>1. \A d \in Callers : /\ ~Doing(d, {"boot", "undo", "enter"})' /\ ~Doing(d, Stopping)'
                             /\ ~Doing(d, {"boot", "undo", "enter"} \union Stopping)
      BY <1>1, <2>2, <2>5 DEF Doing, Stopping
    <3>2. CurrentRun' = CurrentRun
      BY <1>1 DEF CurrentRun, managerVars, runVars
    <3> QED
      BY <1>1, <3>1, <3>2 DEF RouteInv, managerVars
  <2>11. RowInv'
    BY <1>1, <2>1, <2>2, <2>5 DEF RowInv, Doing, Quiet
  <2>12. OwedInv'
    <3>1. owed => row.running
      BY <1>1 DEF OwedInv, Quiet
    <3> QED
      BY <1>1, <2>1, <2>2, <2>5, <3>1 DEF OwedInv, Quiet, Due
  <2> QED
    BY <2>6, <2>7, <2>8, <2>9, <2>10, <2>11, <2>12
<1> QED
  BY <1>2, <1>3

\* What is owed after a crash is what the row says.
LEMMA CrashInv ==
    ASSUME LambdaInv, Crash
    PROVE  LambdaInv'
<1> USE DEF LambdaInv
<1>1. /\ up' = FALSE /\ spec' = None /\ cur' = 0 /\ usage' = {} /\ routes' = None
      /\ hashOf' = [n \in Runs |-> None]
      /\ \A d \in Callers : job'[d] = Idle /\ ~Busy(d)'
      /\ UNCHANGED <<loaderVars, row, overlap>>
  BY DEF Crash, Busy
<1>2. owed' = (up /\ Quiet /\ cur # 0 /\ spec # None /\ "row" \notin overlap)
  BY DEF Crash
<1>3. LambdaTypeOK'
  <2>1. mishaps' \in 0..MaxMishaps
    BY LambdaAssumption DEF Crash, Mishap, LambdaTypeOK
  <2>2. job' \in [Callers -> Jobs \union {Idle}]
    BY DEF Crash
  <2>3. 0 \in 0..MaxRuns
    BY LambdaAssumption
  <2> QED
    BY <1>1, <1>2, <2>1, <2>2, <2>3 DEF LambdaTypeOK, loaderVars
<1>4. JobInv' /\ RunInv'
  BY <1>1 DEF JobInv, RunInv
<1>5. LaunchInv'
  BY <1>1 DEF LaunchInv, Decided, CurrentRun
<1>6. RouteInv'
  BY <1>1 DEF RouteInv, Doing, CurrentRun
<1>7. RowInv'
  BY <1>1 DEF RowInv, Doing
<1>8. OwedInv'
  <2>1. up /\ Quiet /\ cur # 0 /\ spec # None /\ "row" \notin overlap => row # None /\ row.running
    BY DEF RowInv, Quiet, Doing
  <2> QED
    BY <1>1, <1>2, <2>1 DEF OwedInv, Quiet
<1> QED
  BY <1>3, <1>4, <1>5, <1>6, <1>7, <1>8

\* Apart from the types, the invariant says nothing of the loader and the bounds.
LEMMA SameBooks ==
    ASSUME LambdaInv, UNCHANGED <<managerVars, row, job, up, overlap, owed>>
    PROVE  JobInv' /\ RunInv' /\ LaunchInv' /\ RouteInv' /\ RowInv' /\ OwedInv'
<1> USE DEF LambdaInv, managerVars, runVars
<1>1. JobInv'
  BY DEF JobInv, Busy, JobOK, Updating
<1>2. RunInv'
  BY DEF RunInv, Busy
<1>3. LaunchInv'
  BY DEF LaunchInv, Decided, Emptied, Updating, CurrentRun, Busy
<1>4. RouteInv'
  BY DEF RouteInv, Doing, Busy, CurrentRun
<1>5. RowInv'
  BY DEF RowInv, Doing, Busy, Quiet
<1>6. OwedInv'
  BY DEF OwedInv, Due, Busy, Quiet
<1> QED
  BY <1>1, <1>2, <1>3, <1>4, <1>5, <1>6

LEMMA ReloadInv ==
    ASSUME LambdaInv, Reload
    PROVE  LambdaInv'
<1>1. UNCHANGED <<managerVars, row, job, up, overlap, owed>>
  BY DEF Reload
<1>2. LambdaTypeOK'
  <2>1. mishaps' \in 0..MaxMishaps
    BY LambdaAssumption DEF Reload, Mishap, LambdaInv, LambdaTypeOK
  <2>2. loaded' \subseteq Hashes /\ latest' \in loaded' \union {None}
    BY DEF Reload
  <2> QED
    BY <1>1, <2>1, <2>2 DEF LambdaInv, LambdaTypeOK, managerVars, runVars
<1> QED
  BY <1>1, <1>2, SameBooks DEF LambdaInv

-------------------------------------------------------------------------------
(* The theorems *)

LEMMA LambdaInvInit == Init => LambdaInv
<1> SUFFICES ASSUME Init PROVE LambdaInv
  OBVIOUS
<1> USE DEF Init
<1>1. \A c \in Callers : ~Busy(c) /\ ~Decided(job[c])
  BY DEF Busy, Decided
<1>2. LambdaTypeOK
  <2>1. 0 \in 0..MaxRuns /\ 0 \in 0..MaxMishaps
    BY LambdaAssumption
  <2>2. hashOf \in [Runs -> Hashes \union {None}] /\ job \in [Callers -> Jobs \union {Idle}]
    OBVIOUS
  <2> QED
    BY <2>1, <2>2 DEF LambdaTypeOK
<1>3. JobInv /\ RunInv /\ LaunchInv
  BY <1>1 DEF JobInv, RunInv, LaunchInv, CurrentRun
<1>4. RouteInv /\ RowInv /\ OwedInv
  BY <1>1 DEF RouteInv, RowInv, OwedInv, Doing, CurrentRun
<1> QED
  BY <1>2, <1>3, <1>4 DEF LambdaInv

LEMMA LambdaInvStep == LambdaInv /\ [Next]_vars => LambdaInv'
<1> SUFFICES ASSUME LambdaInv, [Next]_vars PROVE LambdaInv'
  OBVIOUS
<1>1. CASE Crash
  BY <1>1, CrashInv
<1>2. CASE Reload
  BY <1>2, ReloadInv
<1>3. ASSUME NEW c \in Callers, Restore(c) PROVE LambdaInv'
  BY <1>3, RestoreInv
<1>4. ASSUME NEW c \in Callers, Ensure(c) PROVE LambdaInv'
  BY <1>4, ReadInv, ResolveInv, InsertInv, WriteInv DEF Ensure
<1>5. ASSUME NEW c \in Callers, Launch(c) PROVE LambdaInv'
  BY <1>5, LookupInv, CheckInv, RegisterInv, BootInv, BootFailsInv, UndoInv, EnterInv DEF Launch
<1>6. ASSUME NEW c \in Callers, Stop(c) PROVE LambdaInv'
  BY <1>6, NotRunningInv, TakeOutInv, CancelInv, UnrouteInv, DeleteInv DEF Stop
<1>7. ASSUME NEW c \in Callers, Call(c) PROVE LambdaInv'
  BY <1>4, <1>5, <1>6, <1>7, SnapshotInv, SaveInv, EndInv DEF Call
<1>8. CASE UNCHANGED vars
  <2>1. LambdaTypeOK'
    BY <1>8 DEF LambdaInv, LambdaTypeOK, vars, loaderVars, managerVars, runVars
  <2> QED
    BY <1>8, <2>1, SameBooks DEF LambdaInv, vars
<1> QED
  BY <1>1, <1>2, <1>3, <1>7, <1>8 DEF Next

\* Every variable of the manager, and the record of every call, keeps its type; and
\* the parts of the inductive invariant hold: what each call under way still has at
\* hand, whose each run is, what a launch, a stop and a restart may rely on.
THEOREM LambdaInvariant == Spec => []LambdaInv
<1> QED
  BY LambdaInvInit, LambdaInvStep, PTL DEF Spec

THEOREM LambdaTypes == Spec => []LambdaTypeOK
<1>1. LambdaInv => LambdaTypeOK
  BY DEF LambdaInv
<1> QED
  BY <1>1, LambdaInvariant, PTL

\* launch, Start, Stop: however calls overlap, unless two of them had decided to
\* launch, every run is in instances or in the hands of the call that enters or
\* cancels it: none runs on with nobody to stop it.
THEOREM NoRunIsLost == Spec => []NoStrayRun
<1>1. LambdaInv => NoStrayRun
  BY DEF LambdaInv, LaunchInv, NoStrayRun
<1> QED
  BY <1>1, LambdaInvariant, PTL

\* launch, markInstanceStopped: the revision counted as in use is that of the run,
\* and between calls the routes are the run's, unless launches and stops overlapped.
THEOREM BooksAreRight == Spec => []BooksFollowRun
<1>1. LambdaInv => BooksFollowRun
  <2> SUFFICES ASSUME LambdaInv, "launch" \notin overlap
               PROVE  /\ usage = CurrentRun
                      /\ Quiet /\ "stop" \notin overlap => {routes} \ {None} = CurrentRun
    BY DEF BooksFollowRun, CurrentRun
  <2>1. usage = CurrentRun
    BY DEF LambdaInv, LaunchInv
  <2>2. Quiet /\ "stop" \notin overlap => {routes} \ {None} = CurrentRun
    BY DEF LambdaInv, RouteInv, Quiet, Doing
  <2> QED
    BY <2>1, <2>2
<1> QED
  BY <1>1, LambdaInvariant, PTL

\* persistStrategy: between calls the row says what a restart needs, unless it is
\* excepted.
THEOREM RowIsRight == Spec => []RowAgrees
<1>1. LambdaInv => RowAgrees
  BY DEF LambdaInv, RowInv, RowAgrees, Quiet, Doing
<1> QED
  BY <1>1, LambdaInvariant, PTL

\* restoreStrategySnapshots: a lambda that ran when the process crashed between
\* calls runs when the API is served again, unless its row, its strategy or its
\* provider failed it.
THEOREM RunsAgainAfterCrash == Spec => []ResumesAfterCrash
<1>1. LambdaInv => ResumesAfterCrash
  BY DEF LambdaInv, OwedInv, ResumesAfterCrash
<1> QED
  BY <1>1, LambdaInvariant, PTL

-------------------------------------------------------------------------------
(* BackupRestore: the inductive invariant *)

\* The phases of a restore that has been accepted, and of one that is past its removals.
Working == {"lambdas", "providers", "apply", "prepare", "create", "risk", "done"}
Phases == Working \union {"idle", "preflight", "failed", "rejected"}
Applying == {"apply", "prepare", "create", "risk", "done"}
ProviderStatuses == {"pending", "starting", "running", "stopped", "failed"}
ProviderInfo == [spec : ProviderSpecs, status : ProviderStatuses]

ProvidersTyped ==
    /\ DOMAIN providers \subseteq ProviderNames
    /\ \A p \in DOMAIN providers : providers[p] \in ProviderInfo

RestoreTypes ==
    /\ ProvidersTyped
    /\ \A backup \in {saved, plan} :
          /\ DOMAIN backup.providers \subseteq ProviderNames
          /\ \A p \in DOMAIN backup.providers : backup.providers[p] \in ProviderSpecs
    /\ phase \in Phases
    /\ current # Nil => phase = "apply" /\ current \in PlannedProviders \ todo

\* What is still to be done is of the backup, or is not of the configuration file.
TodoIsDynamic ==
    /\ phase = "lambdas" => \A l \in todo : Key[l] \notin baseline
    /\ phase = "apply" => todo \subseteq PlannedProviders
    /\ phase \in {"prepare", "create"} => todo \subseteq PlannedLambdas

\* What the look at the backup has found stays so, but for what others touch.
Accepted ==
    phase \in Working =>
        /\ ~Dangling
        /\ \A l \in PlannedLambdas : IsLeft(l) => plan.lambdas[l].identifier.name \in Registered
        /\ \A p \in PlannedProviders : IsLeft(p) => Status(p) # "starting"

\* What the backup does not have is to be removed, or is gone.
Pruned ==
    /\ phase \in Working =>
         \A l \in DOMAIN lambdas :
            IsLeft(l) /\ Key[l] \notin baseline /\ Key[l] \notin KeysOf(DOMAIN plan.lambdas) =>
                phase = "lambdas" /\ l \in todo
    /\ phase \in {"providers"} \union Applying =>
         \A p \in DOMAIN providers :
            IsLeft(p) /\ Dynamic(p) /\ Key[p] \notin KeysOf(PlannedProviders) =>
                phase = "providers" /\ p \in todo

\* A provider of the backup is to be applied, or there; its specification is that of the
\* backup unless it is being updated.
ProvidersApplied ==
    phase \in Applying =>
        \A p \in PlannedProviders : IsLeft(p) =>
            \/ phase = "apply" /\ p \in todo
            \/ p \in DOMAIN providers /\ (p = current \/ providers[p].spec = Planned(p))

Recreated(l) == l \in DOMAIN lambdas /\ lambdas[l] = Ensured(plan.lambdas[l])

\* Every lambda of the backup is taken away before the first is created.
LambdasApplied ==
    \A l \in PlannedLambdas : IsLeft(l) =>
        /\ phase = "prepare" /\ l \notin todo => l \notin DOMAIN lambdas
        /\ phase = "create" => IF l \in todo THEN l \notin DOMAIN lambdas ELSE Recreated(l)
        /\ phase \in {"risk", "done"} => Recreated(l)

LimitsApplied == phase = "done" => plan.limits \in {Nil, limits}

Excused ==
    \/ gone \/ (\E x \in PlannedProviders \union PlannedLambdas : ~IsLeft(x))
    \/ \E l \in PlannedLambdas : plan.lambdas[l].identifier \in Unresolved

BackupInv ==
    /\ RestoreTypes /\ TodoIsDynamic /\ Accepted /\ Pruned /\ ProvidersApplied /\ LambdasApplied
    /\ LimitsApplied
    /\ phase = "failed" => Excused

-------------------------------------------------------------------------------
(* What a step does to the providers *)

ChangeProvider(p) ==
    \/ UNCHANGED providers
    \/ p \in ProviderNames /\ \E given \in ProviderSpecs, status \in ProviderStatuses : Put(p, given, status)
    \/ providers' = Lose(providers, p)
    \/ p \in DOMAIN providers
       /\ \E status \in ProviderStatuses : providers' = [providers EXCEPT ![p].status = status]

SpareProvider(q) ==
    /\ q \in DOMAIN providers' <=> q \in DOMAIN providers
    /\ q \in DOMAIN providers => providers'[q] = providers[q]

SpareLambda(k) ==
    /\ k \in DOMAIN lambdas' <=> k \in DOMAIN lambdas
    /\ k \in DOMAIN lambdas => lambdas'[k] = lambdas[k]

LEMMA PutIs ==
    ASSUME NEW p, NEW given, NEW status, Put(p, given, status)
    PROVE  /\ DOMAIN providers' = DOMAIN providers \union {p}
           /\ providers'[p] = [spec |-> given, status |-> status]
           /\ \A q : q # p => SpareProvider(q)
BY DEF Put, With, SpareProvider

LEMMA LoseIs ==
    ASSUME NEW f, NEW x
    PROVE  /\ DOMAIN Lose(f, x) = DOMAIN f \ {x}
           /\ \A y \in DOMAIN f \ {x} : Lose(f, x)[y] = f[y]
BY DEF Lose, Restrict

LEMMA StatusIs ==
    ASSUME ProvidersTyped, NEW p \in DOMAIN providers, NEW status \in ProviderStatuses,
           providers' = [providers EXCEPT ![p].status = status]
    PROVE  /\ DOMAIN providers' = DOMAIN providers
           /\ providers'[p] = [spec |-> providers[p].spec, status |-> status]
           /\ \A q : q # p => SpareProvider(q)
<1>1. providers[p] \in ProviderInfo
  BY DEF ProvidersTyped
<1> QED
  BY <1>1 DEF SpareProvider, ProviderInfo

LEMMA ChangeKeepsTypes ==
    ASSUME ProvidersTyped, NEW p, ChangeProvider(p)
    PROVE  ProvidersTyped' /\ \A q : q # p => SpareProvider(q)
<1>1. CASE UNCHANGED providers
  BY <1>1 DEF ProvidersTyped, SpareProvider
<1>2. ASSUME p \in ProviderNames, NEW given \in ProviderSpecs, NEW status \in ProviderStatuses,
             Put(p, given, status)
      PROVE  ProvidersTyped' /\ \A q : q # p => SpareProvider(q)
  <2>1. [spec |-> given, status |-> status] \in ProviderInfo
    BY DEF ProviderInfo
  <2>2. /\ DOMAIN providers' = DOMAIN providers \union {p}
        /\ providers'[p] \in ProviderInfo
        /\ \A q : q # p => SpareProvider(q)
    BY <1>2, <2>1, PutIs
  <2>3. \A q \in DOMAIN providers' : providers'[q] \in ProviderInfo
    BY <2>2 DEF ProvidersTyped, SpareProvider
  <2> QED
    BY <1>2, <2>2, <2>3 DEF ProvidersTyped
<1>3. CASE providers' = Lose(providers, p)
  BY <1>3, LoseIs DEF ProvidersTyped, SpareProvider
<1>4. ASSUME p \in DOMAIN providers, NEW status \in ProviderStatuses,
             providers' = [providers EXCEPT ![p].status = status]
      PROVE  ProvidersTyped' /\ \A q : q # p => SpareProvider(q)
  <2>1. providers[p].spec \in ProviderSpecs
    BY <1>4 DEF ProvidersTyped, ProviderInfo
  <2>2. [spec |-> providers[p].spec, status |-> status] \in ProviderInfo
    BY <2>1 DEF ProviderInfo
  <2> QED
    BY <1>4, <2>2, StatusIs DEF ProvidersTyped, SpareProvider
<1> QED
  BY <1>1, <1>2, <1>3, <1>4 DEF ChangeProvider

LEMMA SpareAllLambdas ==
    ASSUME UNCHANGED lambdas
    PROVE  \A k : SpareLambda(k)
BY DEF SpareLambda

LEMMA SpareAllProviders ==
    ASSUME UNCHANGED providers
    PROVE  \A q : SpareProvider(q)
BY DEF SpareProvider

LEMMA RemoveLambdaIs ==
    ASSUME NEW l, RemoveLambda(l)
    PROVE  /\ DOMAIN lambdas' = DOMAIN lambdas \ {l}
           /\ \A k : k # l => SpareLambda(k)
           /\ baseline' \subseteq baseline /\ baseline \ baseline' \subseteq {Key[l]}
BY LoseIs DEF RemoveLambda, SpareLambda

LEMMA CreateLambdaIs ==
    ASSUME NEW l, NEW given, CreateLambda(l, given)
    PROVE  /\ l \notin DOMAIN lambdas /\ DOMAIN lambdas' = DOMAIN lambdas \union {l}
           /\ lambdas'[l] = Ensured(given)
           /\ \A k : k # l => SpareLambda(k)
           /\ baseline' \subseteq baseline /\ baseline \ baseline' \subseteq {Key[l]}
BY DEF CreateLambda, Creatable, With, SpareLambda

LEMMA EnsuredIs ==
    ASSUME NEW given
    PROVE  Ensured(given).on = given.on
BY DEF Ensured

LEMMA HaltedIs ==
    ASSUME NEW s \in ProviderStatuses
    PROVE  Halted(s) \in ProviderStatuses /\ (Halted(s) = "starting" => s = "starting")
BY DEF Halted, ProviderStatuses

LEMMA StatusTyped ==
    ASSUME ProvidersTyped, NEW p, Status(p) # "absent"
    PROVE  p \in DOMAIN providers /\ Status(p) = providers[p].status /\ Status(p) \in ProviderStatuses
BY DEF ProvidersTyped, Status, ProviderInfo

LEMMA PresentStatus ==
    ASSUME ProvidersTyped, NEW p \in DOMAIN providers
    PROVE  Status(p) # "absent" /\ Status(p) = providers[p].status
BY DEF ProvidersTyped, Status, ProviderInfo, ProviderStatuses

-------------------------------------------------------------------------------
(* Other clients *)

LEMMA ProviderRequests ==
    ASSUME ProvidersTyped, NEW p \in ProviderNames,
           \/ PostProvider(p) \/ PutProvider(p) \/ EnableProvider(p) \/ StartProvider(p) \/ Started(p)
           \/ StopProvider(p) \/ CheckDelete(p) \/ DeleteProvider(p)
    PROVE  ChangeProvider(p) /\ Disturbs(Key[p]) /\ UNCHANGED <<lambdas, baseline, limits, Bystanders>>
<1> USE DEF Calls, Follows, managers, Bystanders
<1>1. /\ [version |-> "a", secret |-> TRUE] \in ProviderSpecs
      /\ [version |-> "b", secret |-> TRUE] \in ProviderSpecs
      /\ {"pending", "starting", "running", "stopped", "failed"} \subseteq ProviderStatuses
  BY DEF ProviderSpecs, ProviderStatuses
<1>2. CASE PostProvider(p)
  BY <1>1, <1>2 DEF PostProvider, CreateProvider, ChangeProvider
<1>3. CASE PutProvider(p)
  <2>1. Status(p) # "absent"
    BY <1>3 DEF PutProvider, UpdateProvider
  <2>2. Halted(Status(p)) \in ProviderStatuses
    BY <2>1, StatusTyped, HaltedIs
  <2> QED
    BY <1>1, <1>3, <2>2 DEF PutProvider, UpdateProvider, ChangeProvider
<1>4. ASSUME PrepareStart(p) PROVE ChangeProvider(p)
  <2>1. p \in DOMAIN providers
    BY <1>4, StatusTyped DEF PrepareStart
  <2> QED
    BY <1>1, <1>4, <2>1 DEF PrepareStart, ChangeProvider
<1>5. CASE EnableProvider(p) \/ StartProvider(p)
  BY <1>4, <1>5 DEF EnableProvider, StartProvider, ChangeProvider
<1>6. CASE Started(p)
  BY <1>1, <1>6 DEF Started, ChangeProvider
<1>7. CASE StopProvider(p)
  <2>1. p \in DOMAIN providers
    BY <1>7, StatusTyped DEF StopProvider
  <2> QED
    BY <1>1, <1>7, <2>1 DEF StopProvider, ChangeProvider
<1>8. CASE CheckDelete(p) \/ DeleteProvider(p)
  BY <1>8 DEF CheckDelete, DeleteProvider, ChangeProvider
<1> QED
  BY <1>2, <1>3, <1>5, <1>6, <1>7, <1>8

\* A name that others have not touched.
Spare(x) ==
    /\ SpareProvider(x) /\ SpareLambda(x)
    /\ Key[x] \in baseline' <=> Key[x] \in baseline

LEMMA OthersSpare ==
    ASSUME ProvidersTyped, OtherClients
    PROVE  /\ ProvidersTyped' /\ baseline' \subseteq baseline /\ ~Ended
           /\ UNCHANGED Bystanders
           /\ Restoring => disturbed \subseteq disturbed' /\ \A x : IsLeft(x)' => Spare(x)
<1>1. ASSUME NEW p \in ProviderNames, ChangeProvider(p), Disturbs(Key[p]), UNCHANGED <<lambdas, baseline, Bystanders>>
      PROVE  /\ ProvidersTyped' /\ baseline' \subseteq baseline /\ ~Ended
             /\ UNCHANGED Bystanders
             /\ Restoring => disturbed \subseteq disturbed' /\ \A x : IsLeft(x)' => Spare(x)
  <2>1. ProvidersTyped' /\ \A x : x # p => SpareProvider(x)
    BY <1>1, ChangeKeepsTypes
  <2>2. \A x : SpareLambda(x)
    BY <1>1, SpareAllLambdas
  <2>3. Restoring => disturbed' = disturbed \union {Key[p]}
    BY <1>1 DEF Disturbs
  <2>4. Restoring => \A x : IsLeft(x)' => x # p
    BY <2>3 DEF IsLeft
  <2> QED
    BY <1>1, <2>1, <2>2, <2>3, <2>4 DEF Spare, Disturbs
<1>2. ASSUME NEW l \in LambdaNames, PostInstance(l) \/ DeleteInstance(l)
      PROVE  /\ ProvidersTyped' /\ baseline' \subseteq baseline /\ ~Ended
             /\ UNCHANGED Bystanders
             /\ Restoring => disturbed \subseteq disturbed' /\ \A x : IsLeft(x)' => Spare(x)
  <2>1. Disturbs(Key[l]) /\ UNCHANGED <<providers, Bystanders>>
    BY <1>2 DEF PostInstance, DeleteInstance, Calls
  <2>2. /\ \A x : x # l => SpareLambda(x)
        /\ baseline' \subseteq baseline /\ baseline \ baseline' \subseteq {Key[l]}
    BY <1>2, CreateLambdaIs, RemoveLambdaIs DEF PostInstance, DeleteInstance
  <2>3. \A x : SpareProvider(x)
    BY <2>1, SpareAllProviders
  <2>4. Restoring => disturbed' = disturbed \union {Key[l]}
    BY <2>1 DEF Disturbs
  <2>5. Restoring => \A x : IsLeft(x)' => Key[x] # Key[l]
    BY <2>4 DEF IsLeft
  <2>6. Restoring => \A x : IsLeft(x)' => Spare(x)
    BY <2>2, <2>3, <2>5 DEF Spare
  <2> QED
    BY <2>1, <2>2, <2>4, <2>6 DEF Disturbs, ProvidersTyped
<1>3. CASE PutLimits
  <2>1. \A x : SpareProvider(x) /\ SpareLambda(x)
    BY <1>3 DEF PutLimits, SpareProvider, SpareLambda
  <2> QED
    BY <1>3, <2>1 DEF PutLimits, Calls, Disturbs, Spare, ProvidersTyped
<1> QED
  BY <1>1, <1>2, <1>3, ProviderRequests DEF OtherClients

-------------------------------------------------------------------------------
(* The restore *)

LEMMA PlanStays ==
    ASSUME UNCHANGED plan
    PROVE  /\ PlannedProviders' = PlannedProviders /\ Dangling' = Dangling
           /\ \A p : Planned(p)' = Planned(p)
BY DEF PlannedProviders, Dangling, Planned

LEMMA LambdasStay ==
    ASSUME UNCHANGED <<plan, baseline>>
    PROVE  PlannedLambdas' = PlannedLambdas
BY DEF PlannedLambdas

\* Before a restore has been accepted the invariant says what the variables hold, only.
LEMMA NothingUnderWay ==
    ASSUME RestoreTypes', phase' \in {"idle", "preflight", "rejected"}
    PROVE  BackupInv'
BY DEF BackupInv, TodoIsDynamic, Accepted, Pruned, ProvidersApplied, LambdasApplied, LimitsApplied,
       Working, Applying

LEMMA InitInv ==
    ASSUME BackupInit
    PROVE  BackupInv
<1>1. ProvidersTyped
  <2>1. [spec |-> [version |-> "a", secret |-> TRUE], status |-> "stopped"] \in ProviderInfo
    BY DEF ProviderInfo, ProviderSpecs, ProviderStatuses
  <2> QED
    BY <2>1 DEF BackupInit, ProvidersTyped
<1>2. DOMAIN NoBackup.providers = {}
  BY DEF NoBackup
<1>3. RestoreTypes
  BY <1>1, <1>2 DEF BackupInit, RestoreTypes, Phases
<1> QED
  BY <1>3 DEF BackupInit, BackupInv, TodoIsDynamic, Accepted, Pruned, ProvidersApplied, LambdasApplied,
       LimitsApplied, Working, Applying

LEMMA SanitizeIs ==
    ASSUME NEW given \in ProviderSpecs
    PROVE  /\ SanitizeProviderSpec(given) \in ProviderSpecs
           /\ SanitizeProviderSpec(SanitizeProviderSpec(given)) = SanitizeProviderSpec(given)
BY DEF SanitizeProviderSpec, ProviderSpecs

LEMMA PlannedTyped ==
    ASSUME RestoreTypes, NEW p \in PlannedProviders
    PROVE  p \in ProviderNames /\ plan.providers[p] \in ProviderSpecs /\ Planned(p) \in ProviderSpecs
BY SanitizeIs DEF RestoreTypes, PlannedProviders, Planned

LEMMA CurrentIsNil ==
    ASSUME RestoreTypes, phase # "apply"
    PROVE  current = Nil
BY DEF RestoreTypes

LEMMA TakeBackupStep ==
    ASSUME BackupInv, TakeBackup
    PROVE  BackupInv'
<1>1. RestoreTypes
  BY DEF BackupInv
<1>2. /\ DOMAIN Export.providers \subseteq ProviderNames
      /\ \A p \in DOMAIN Export.providers : Export.providers[p] \in ProviderSpecs
  BY <1>1, SanitizeIs DEF Export, RestoreTypes, ProvidersTyped, ProviderInfo
<1>3. ProvidersTyped' /\ current = Nil
  BY <1>1, CurrentIsNil DEF TakeBackup, managers, RestoreTypes, ProvidersTyped
<1>4. RestoreTypes'
  BY <1>1, <1>2, <1>3 DEF TakeBackup, RestoreTypes
<1> QED
  BY <1>4, NothingUnderWay DEF TakeBackup

LEMMA ReceiveStep ==
    ASSUME BackupInv, Receive
    PROVE  BackupInv'
<1>1. RestoreTypes
  BY DEF BackupInv
<1>2. \A backup \in Written :
         /\ DOMAIN backup.providers \subseteq ProviderNames
         /\ \A p \in DOMAIN backup.providers : backup.providers[p] \in ProviderSpecs
  BY BackupAssumption
<1>3. ProvidersTyped' /\ current = Nil
  BY <1>1, CurrentIsNil DEF Receive, managers, RestoreTypes, ProvidersTyped
<1>4. plan' \in Written \/ plan' = saved
  BY DEF Receive
<1>5. RestoreTypes'
  BY <1>1, <1>2, <1>3, <1>4 DEF Receive, RestoreTypes, Phases
<1> QED
  BY <1>5, NothingUnderWay DEF Receive

\* The whole of the invariant, where nothing that it speaks of has changed.
LEMMA NothingChanges ==
    ASSUME BackupInv, UNCHANGED <<managers, saved, phase, plan, todo, current, disturbed>>,
           gone => gone'
    PROVE  BackupInv'
<1>1. /\ PlannedProviders' = PlannedProviders /\ Dangling' = Dangling
      /\ PlannedLambdas' = PlannedLambdas /\ \A p : Planned(p)' = Planned(p)
  BY PlanStays, LambdasStay DEF managers
<1>2. \A x : IsLeft(x)' = IsLeft(x) /\ Status(x)' = Status(x) /\ Recreated(x)' = Recreated(x)
  BY DEF IsLeft, Status, Recreated, managers
<1>3. RestoreTypes'
  BY <1>1 DEF BackupInv, RestoreTypes, ProvidersTyped, managers
<1>4. TodoIsDynamic' /\ Accepted' /\ LimitsApplied'
  BY <1>1, <1>2 DEF BackupInv, TodoIsDynamic, Accepted, LimitsApplied, managers
<1>5. Pruned'
  BY <1>1, <1>2 DEF BackupInv, Pruned, managers
<1>6. ProvidersApplied' /\ LambdasApplied'
  BY <1>1, <1>2 DEF BackupInv, ProvidersApplied, LambdasApplied, managers
<1>7. phase' = "failed" => Excused'
  BY <1>1, <1>2 DEF BackupInv, Excused
<1> QED
  BY <1>3, <1>4, <1>5, <1>6, <1>7 DEF BackupInv

\* What others do leaves what the invariant says of the names that they have not touched.
LEMMA OthersStep ==
    ASSUME BackupInv, OtherClients
    PROVE  BackupInv'
<1>1. /\ ProvidersTyped' /\ baseline' \subseteq baseline /\ ~Ended
      /\ UNCHANGED <<saved, phase, plan, todo, current, gone>>
      /\ Restoring => disturbed \subseteq disturbed' /\ \A x : IsLeft(x)' => Spare(x)
  BY OthersSpare DEF BackupInv, RestoreTypes, Bystanders
<1>2. PlannedProviders' = PlannedProviders /\ Dangling' = Dangling /\ \A p : Planned(p)' = Planned(p)
  BY <1>1, PlanStays
<1>3. PlannedLambdas \subseteq PlannedLambdas'
  BY <1>1 DEF PlannedLambdas
<1>4. RestoreTypes'
  BY <1>1, <1>2 DEF BackupInv, RestoreTypes
<1>5. CASE phase = "idle"
  BY <1>1, <1>4, <1>5, NothingUnderWay
<1>6. CASE phase # "idle"
  <2>1. Restoring /\ phase # "failed" /\ phase # "done"
    BY <1>1, <1>6 DEF Restoring, Ended
  <2>2. \A x : IsLeft(x)' => IsLeft(x) /\ Spare(x)
    BY <1>1, <2>1 DEF IsLeft
  <2>3. \A l \in PlannedLambdas' : IsLeft(l)' => l \in PlannedLambdas
    BY <1>1, <2>2 DEF PlannedLambdas, Spare
  <2>4. \A x : IsLeft(x)' => Status(x)' = Status(x)
    BY <2>2 DEF Spare, SpareProvider, Status
  <2>5. TodoIsDynamic'
    BY <1>1, <1>2, <1>3 DEF BackupInv, TodoIsDynamic
  <2>6. Accepted'
    BY <1>1, <1>2, <2>2, <2>3, <2>4 DEF BackupInv, Accepted
  <2>7. Pruned'
    BY <1>1, <1>2, <2>2 DEF BackupInv, Pruned, Spare, SpareProvider, SpareLambda
  <2>8. ProvidersApplied'
    BY <1>1, <1>2, <2>2 DEF BackupInv, ProvidersApplied, Spare, SpareProvider
  <2>9. \A l \in PlannedLambdas : IsLeft(l)' /\ Recreated(l) => Recreated(l)'
    BY <1>1, <2>2 DEF Recreated, Spare, SpareLambda
  <2>10. LambdasApplied'
    BY <1>1, <2>2, <2>3, <2>9 DEF BackupInv, LambdasApplied, Spare, SpareLambda
  <2> QED
    BY <1>1, <1>4, <2>1, <2>5, <2>6, <2>7, <2>8, <2>10 DEF BackupInv, LimitsApplied
<1> QED
  BY <1>5, <1>6

\* What a step of the restore leaves alone.
RestoreFrame == UNCHANGED <<saved, plan, gone, disturbed>>

LEMMA RestoreStays ==
    ASSUME RestoreFrame, UNCHANGED baseline
    PROVE  /\ PlannedProviders' = PlannedProviders /\ Dangling' = Dangling
           /\ PlannedLambdas' = PlannedLambdas /\ \A p : Planned(p)' = Planned(p)
           /\ \A x : IsLeft(x)' = IsLeft(x)
           /\ Excused' = Excused
BY PlanStays, LambdasStay DEF RestoreFrame, IsLeft, Excused

\* An error ends the restore where it is.
LEMMA FailsStep ==
    ASSUME RestoreTypes, RestoreFrame, Fails, current' = Nil, Excused
    PROVE  BackupInv'
<1>1. phase' = "failed" /\ UNCHANGED <<providers, baseline>>
  BY DEF Fails, EnterPhase, managers
<1>2. Excused'
  BY <1>1, RestoreStays
<1>3. RestoreTypes'
  BY <1>1 DEF RestoreTypes, RestoreFrame, ProvidersTyped, Phases, Working
<1> QED
  BY <1>1, <1>2, <1>3 DEF BackupInv, TodoIsDynamic, Accepted, Pruned, ProvidersApplied, LambdasApplied,
       LimitsApplied, Working, Applying

LEMMA PreflightStep ==
    ASSUME BackupInv, RestoreFrame, Preflight
    PROVE  BackupInv'
<1>1. /\ phase = "preflight" /\ current' = current /\ current = Nil
      /\ UNCHANGED <<providers, lambdas, baseline, limits>>
  BY CurrentIsNil DEF BackupInv, Preflight, EnterPhase, managers
<1>2. /\ PlannedProviders' = PlannedProviders /\ Dangling' = Dangling
      /\ PlannedLambdas' = PlannedLambdas /\ \A x : IsLeft(x)' = IsLeft(x)
  BY <1>1, RestoreStays
<1>3. CASE Refused
  <2>1. phase' = "rejected"
    BY <1>3 DEF Preflight, EnterPhase
  <2>2. RestoreTypes'
    BY <1>1, <2>1 DEF BackupInv, RestoreTypes, RestoreFrame, ProvidersTyped, Phases, Working
  <2> QED
    BY <2>1, <2>2, NothingUnderWay
<1>4. CASE ~Refused
  <2>1. /\ phase' = "lambdas"
        /\ todo' = Obsolete({l \in DOMAIN lambdas : Key[l] \notin baseline}, DOMAIN plan.lambdas)
    BY <1>4 DEF Preflight, EnterPhase
  <2>2. ~Dangling /\ ~StartUnderWay /\ ~Unknown
    BY <1>4 DEF Refused
  <2>3. RestoreTypes'
    BY <1>1, <2>1 DEF BackupInv, RestoreTypes, RestoreFrame, ProvidersTyped, Phases, Working
  <2>4. TodoIsDynamic'
    BY <1>1, <2>1 DEF TodoIsDynamic, Obsolete
  <2>5. Accepted'
    BY <1>1, <1>2, <2>2 DEF Accepted, StartUnderWay, Unknown, Status, RestoreFrame
  <2>6. Pruned'
    BY <1>1, <2>1 DEF Pruned, Obsolete, RestoreFrame, Applying
  <2> QED
    BY <2>1, <2>3, <2>4, <2>5, <2>6
    DEF BackupInv, ProvidersApplied, LambdasApplied, LimitsApplied, Applying
<1> QED
  BY <1>3, <1>4

\* One lambda is removed that is not of the configuration file.
LEMMA RemovesOne ==
    ASSUME NEW l, RemoveLambda(l), Key[l] \notin baseline
    PROVE  /\ UNCHANGED baseline /\ DOMAIN lambdas' = DOMAIN lambdas \ {l}
           /\ \A k : k # l => SpareLambda(k)
<1>1. /\ DOMAIN lambdas' = DOMAIN lambdas \ {l} /\ \A k : k # l => SpareLambda(k)
      /\ baseline' \subseteq baseline /\ baseline \ baseline' \subseteq {Key[l]}
  BY RemoveLambdaIs
<1> QED
  BY <1>1

LEMMA RemoveLambdasStep ==
    ASSUME BackupInv, RestoreFrame, RemoveLambdas
    PROVE  BackupInv'
<1>1. phase = "lambdas" /\ current' = current /\ current = Nil
  BY CurrentIsNil DEF BackupInv, RemoveLambdas
<1>2. CASE /\ todo = {}
           /\ EnterPhase("providers", Obsolete({p \in DOMAIN providers : Dynamic(p)}, PlannedProviders))
  <2>1. /\ phase' = "providers" /\ UNCHANGED <<providers, lambdas, baseline, limits>>
        /\ todo' = Obsolete({p \in DOMAIN providers : Dynamic(p)}, PlannedProviders)
    BY <1>2 DEF EnterPhase, managers
  <2>2. /\ PlannedProviders' = PlannedProviders /\ Dangling' = Dangling
        /\ PlannedLambdas' = PlannedLambdas /\ \A x : IsLeft(x)' = IsLeft(x)
    BY <2>1, RestoreStays
  <2>3. RestoreTypes'
    BY <1>1, <2>1 DEF BackupInv, RestoreTypes, RestoreFrame, ProvidersTyped, Phases, Working
  <2>4. TodoIsDynamic'
    BY <2>1 DEF TodoIsDynamic
  <2>5. Accepted'
    BY <1>1, <2>1, <2>2 DEF BackupInv, Accepted, Status, RestoreFrame, Working
  <2>6. Pruned'
    BY <1>1, <1>2, <2>1, <2>2 DEF BackupInv, Pruned, Obsolete, RestoreFrame, Applying, Working
  <2> QED
    BY <2>1, <2>3, <2>4, <2>5, <2>6
    DEF BackupInv, ProvidersApplied, LambdasApplied, LimitsApplied, Applying
<1>3. ASSUME NEW l \in todo, RemoveLambda(l), Worked(l), UNCHANGED <<providers, limits>>
      PROVE  BackupInv'
  <2>1. phase' = phase /\ todo' = todo \ {l}
    BY <1>3 DEF Worked
  <2>2. /\ UNCHANGED baseline /\ DOMAIN lambdas' = DOMAIN lambdas \ {l}
        /\ \A k : k # l => SpareLambda(k)
    BY <1>1, <1>3, RemovesOne DEF BackupInv, TodoIsDynamic
  <2>3. /\ PlannedProviders' = PlannedProviders /\ Dangling' = Dangling
        /\ PlannedLambdas' = PlannedLambdas /\ \A x : IsLeft(x)' = IsLeft(x)
    BY <2>2, RestoreStays
  <2>4. RestoreTypes'
    BY <1>1, <1>3, <2>1 DEF BackupInv, RestoreTypes, RestoreFrame, ProvidersTyped
  <2>5. TodoIsDynamic'
    BY <1>1, <2>1, <2>2 DEF BackupInv, TodoIsDynamic
  <2>6. Accepted'
    BY <1>1, <1>3, <2>1, <2>3 DEF BackupInv, Accepted, Status, RestoreFrame
  <2>7. Pruned'
    BY <1>1, <2>1, <2>2, <2>3 DEF BackupInv, Pruned, RestoreFrame, Applying
  <2> QED
    BY <1>1, <2>1, <2>4, <2>5, <2>6, <2>7
    DEF BackupInv, ProvidersApplied, LambdasApplied, LimitsApplied, Applying
<1> QED
  BY <1>2, <1>3 DEF RemoveLambdas

LEMMA RemoveProvidersStep ==
    ASSUME BackupInv, RestoreFrame, RemoveProviders
    PROVE  BackupInv'
<1>1. phase = "providers" /\ current' = current /\ current = Nil
  BY CurrentIsNil DEF BackupInv, RemoveProviders
<1>2. CASE todo = {} /\ EnterPhase("apply", PlannedProviders)
  <2>1. /\ phase' = "apply" /\ UNCHANGED <<providers, lambdas, baseline, limits>>
        /\ todo' = PlannedProviders
    BY <1>2 DEF EnterPhase, managers
  <2>2. /\ PlannedProviders' = PlannedProviders /\ Dangling' = Dangling
        /\ PlannedLambdas' = PlannedLambdas /\ \A x : IsLeft(x)' = IsLeft(x)
    BY <2>1, RestoreStays
  <2>3. RestoreTypes'
    BY <1>1, <2>1 DEF BackupInv, RestoreTypes, RestoreFrame, ProvidersTyped, Phases, Working
  <2>4. TodoIsDynamic' /\ ProvidersApplied'
    BY <2>1, <2>2 DEF TodoIsDynamic, ProvidersApplied
  <2>5. Accepted'
    BY <1>1, <2>1, <2>2 DEF BackupInv, Accepted, Status, RestoreFrame, Working
  <2>6. Pruned'
    BY <1>1, <1>2, <2>1, <2>2 DEF BackupInv, Pruned, RestoreFrame, Applying, Working
  <2> QED
    BY <2>1, <2>3, <2>4, <2>5, <2>6 DEF BackupInv, LambdasApplied, LimitsApplied
<1>3. ASSUME NEW p \in todo, providers' = Lose(providers, p), Worked(p),
             UNCHANGED <<lambdas, baseline, limits>>
      PROVE  BackupInv'
  <2>1. phase' = phase /\ todo' = todo \ {p}
    BY <1>3 DEF Worked
  <2>2. /\ ProvidersTyped' /\ DOMAIN providers' = DOMAIN providers \ {p}
        /\ \A q : q # p => SpareProvider(q)
    BY <1>3, ChangeKeepsTypes, LoseIs DEF BackupInv, RestoreTypes, ChangeProvider
  <2>3. /\ PlannedProviders' = PlannedProviders /\ Dangling' = Dangling
        /\ PlannedLambdas' = PlannedLambdas /\ \A x : IsLeft(x)' = IsLeft(x)
    BY <1>3, RestoreStays
  <2>4. RestoreTypes'
    BY <1>1, <2>1, <2>2 DEF BackupInv, RestoreTypes, RestoreFrame
  <2>5. \A q : Status(q)' = "starting" => Status(q) = "starting"
    BY <2>2 DEF Status, SpareProvider
  <2>6. Accepted'
    BY <1>1, <2>1, <2>3, <2>5 DEF BackupInv, Accepted, RestoreFrame
  <2>7. Pruned'
    BY <1>1, <1>3, <2>1, <2>2, <2>3 DEF BackupInv, Pruned, RestoreFrame, SpareProvider, Working, Applying
  <2> QED
    BY <1>1, <2>1, <2>4, <2>6, <2>7
    DEF BackupInv, TodoIsDynamic, ProvidersApplied, LambdasApplied, LimitsApplied, Applying
<1> QED
  BY <1>2, <1>3 DEF RemoveProviders

\* One provider of the backup is changed, not to a start; its specification is that of the
\* backup now, or it is the one that is to be updated.
LEMMA ProviderWorked ==
    ASSUME BackupInv, RestoreFrame, phase = "apply", phase' = "apply", NEW p \in PlannedProviders,
           todo' = todo \ {p}, ProvidersTyped', p \in DOMAIN providers',
           DOMAIN providers' = DOMAIN providers \union {p}, \A q : q # p => SpareProvider(q),
           current' # Nil => current' = p,
           current' = p \/ providers'[p].spec = Planned(p),
           current \in {Nil, p},
           Status(p)' = "starting" => Status(p) = "starting",
           UNCHANGED <<lambdas, baseline>>
    PROVE  BackupInv'
<1>1. /\ PlannedProviders' = PlannedProviders /\ Dangling' = Dangling
      /\ PlannedLambdas' = PlannedLambdas /\ \A q : Planned(q)' = Planned(q)
      /\ \A x : IsLeft(x)' = IsLeft(x)
  BY RestoreStays
<1>2. \A q \in PlannedProviders : q # Nil
  BY BackupAssumption, PlannedTyped DEF BackupInv
<1>3. RestoreTypes'
  BY <1>1 DEF BackupInv, RestoreTypes, RestoreFrame
<1>4. TodoIsDynamic'
  BY <1>1 DEF BackupInv, TodoIsDynamic
<1>5. \A q : Status(q)' = "starting" => Status(q) = "starting"
  BY DEF Status, SpareProvider
<1>6. Accepted'
  BY <1>1, <1>5 DEF BackupInv, Accepted, RestoreFrame
<1>7. Pruned'
  BY <1>1 DEF BackupInv, Pruned, RestoreFrame, SpareProvider, KeysOf, Working, Applying
<1>8. ProvidersApplied'
  BY <1>1, <1>2 DEF BackupInv, ProvidersApplied, SpareProvider
<1> QED
  BY <1>3, <1>4, <1>6, <1>7, <1>8 DEF BackupInv, LambdasApplied, LimitsApplied

LEMMA ApplyProvidersStep ==
    ASSUME BackupInv, RestoreFrame, ApplyProviders
    PROVE  BackupInv'
<1>1. /\ phase = "apply" /\ current = Nil /\ RestoreTypes /\ ProvidersTyped
      /\ todo \subseteq PlannedProviders
  BY DEF BackupInv, RestoreTypes, TodoIsDynamic, ApplyProviders
<1>2. CASE todo = {} /\ EnterPhase("prepare", PlannedLambdas) /\ UNCHANGED current
  <2>1. /\ phase' = "prepare" /\ UNCHANGED <<providers, lambdas, baseline, limits, current>>
        /\ todo' = PlannedLambdas
    BY <1>2 DEF EnterPhase, managers
  <2>2. /\ PlannedProviders' = PlannedProviders /\ Dangling' = Dangling
        /\ PlannedLambdas' = PlannedLambdas /\ \A p : Planned(p)' = Planned(p)
        /\ \A x : IsLeft(x)' = IsLeft(x)
    BY <2>1, RestoreStays
  <2>3. RestoreTypes'
    BY <1>1, <2>1 DEF RestoreTypes, RestoreFrame, ProvidersTyped, Phases, Working
  <2>4. TodoIsDynamic' /\ LambdasApplied'
    BY <2>1, <2>2 DEF TodoIsDynamic, LambdasApplied
  <2>5. Accepted'
    BY <1>1, <2>1, <2>2 DEF BackupInv, Accepted, Status, RestoreFrame, Working
  <2>6. Pruned'
    BY <1>1, <1>2, <2>1, <2>2 DEF BackupInv, Pruned, RestoreFrame, Applying, Working
  <2>7. ProvidersApplied'
    BY <1>1, <1>2, <2>1, <2>2 DEF BackupInv, ProvidersApplied, Applying
  <2> QED
    BY <2>1, <2>3, <2>4, <2>5, <2>6, <2>7 DEF BackupInv, LimitsApplied
<1>3. ASSUME NEW p \in todo, StopCurrent(p), Worked(p), UNCHANGED <<lambdas, baseline, limits>>
      PROVE  BackupInv'
  <2>1. /\ p \in DOMAIN providers /\ providers[p].status \in ProviderStatuses
        /\ Status(p) = providers[p].status
    BY <1>1, <1>3, StatusTyped DEF StopCurrent
  <2>2. PICK status \in ProviderStatuses :
           /\ providers' = [providers EXCEPT ![p].status = status]
           /\ status = "starting" => Status(p) = "starting"
    BY <1>3, <2>1, HaltedIs DEF StopCurrent
  <2>3. /\ DOMAIN providers' = DOMAIN providers /\ providers'[p].status = status
        /\ \A q : q # p => SpareProvider(q)
    BY <1>1, <2>1, <2>2, StatusIs
  <2>4. ProvidersTyped'
    BY <1>1, <2>1, <2>2, ChangeKeepsTypes DEF ChangeProvider
  <2>5. Status(p)' = "starting" => Status(p) = "starting"
    BY <2>1, <2>2, <2>3 DEF Status
  <2> QED
    BY <1>1, <1>3, <2>1, <2>3, <2>4, <2>5, ProviderWorked DEF StopCurrent, Worked
<1>4. ASSUME NEW p \in todo, CreateProvider(p, Planned(p)), Worked(p),
             UNCHANGED <<lambdas, baseline, limits, current>>
      PROVE  BackupInv'
  <2>1. p \in ProviderNames /\ Planned(p) \in ProviderSpecs
    BY <1>1, PlannedTyped
  <2>2. Put(p, Planned(p), "pending")
    BY <1>4 DEF CreateProvider
  <2>3. /\ DOMAIN providers' = DOMAIN providers \union {p}
        /\ providers'[p] = [spec |-> Planned(p), status |-> "pending"]
        /\ \A q : q # p => SpareProvider(q)
    BY <2>2, PutIs
  <2>4. ProvidersTyped'
    BY <1>1, <2>1, <2>2, ChangeKeepsTypes DEF ChangeProvider, ProviderStatuses
  <2>5. Status(p)' = "pending"
    BY <2>3 DEF Status
  <2> QED
    BY <1>1, <1>4, <2>3, <2>4, <2>5, ProviderWorked DEF Worked
<1>5. CASE gone /\ Fails /\ UNCHANGED current
  BY <1>1, <1>5, FailsStep DEF Excused
<1> QED
  BY <1>2, <1>3, <1>4, <1>5 DEF ApplyProviders

LEMMA UpdateCurrentStep ==
    ASSUME BackupInv, RestoreFrame, UpdateCurrent
    PROVE  BackupInv'
<1>1. /\ phase = "apply" /\ current # Nil /\ current' = Nil
      /\ RestoreTypes /\ ProvidersTyped /\ current \in PlannedProviders \ todo
  BY DEF BackupInv, RestoreTypes, UpdateCurrent
<1>2. CASE /\ UpdateProvider(current, Planned(current))
           /\ UNCHANGED <<lambdas, baseline, limits, phase, todo>>
  <2>1. current \in ProviderNames /\ Planned(current) \in ProviderSpecs
    BY <1>1, PlannedTyped
  <2>2. /\ Status(current) # "absent" /\ Status(current) # "starting"
        /\ Put(current, Planned(current), Halted(Status(current)))
    BY <1>2 DEF UpdateProvider
  <2>3. Halted(Status(current)) \in ProviderStatuses \ {"starting"}
    BY <1>1, <2>2, StatusTyped, HaltedIs
  <2>4. PICK status \in ProviderStatuses \ {"starting"} : Put(current, Planned(current), status)
    BY <2>2, <2>3
  <2>5. /\ DOMAIN providers' = DOMAIN providers \union {current}
        /\ providers'[current] = [spec |-> Planned(current), status |-> status]
        /\ \A q : q # current => SpareProvider(q)
    BY <2>4, PutIs
  <2>6. ProvidersTyped'
    BY <1>1, <2>1, <2>4, ChangeKeepsTypes DEF ChangeProvider
  <2>7. \A p : p = current => Status(p)' = status
    BY <2>5 DEF Status
  <2>8. todo' = todo \ {current}
    BY <1>1, <1>2
  <2> QED
    BY <1>1, <1>2, <2>4, <2>5, <2>6, <2>7, <2>8, ProviderWorked
<1>3. CASE (gone \/ Status(current) \in {"absent", "starting"}) /\ Fails
  <2>1. CASE gone
    BY <1>1, <1>3, <2>1, FailsStep DEF Excused
  <2>2. CASE ~IsLeft(current)
    BY <1>1, <1>3, <2>2, FailsStep DEF Excused
  <2>3. CASE IsLeft(current) /\ ~gone
    <3>1. Status(current) # "starting"
      BY <1>1, <2>3 DEF BackupInv, Accepted, Working
    <3>2. current \in DOMAIN providers
      BY <1>1, <2>3 DEF BackupInv, ProvidersApplied, Applying
    <3>3. Status(current) # "absent"
      BY <1>1, <3>2, PresentStatus
    <3> QED
      BY <1>3, <2>3, <3>1, <3>3
  <2> QED
    BY <2>1, <2>2, <2>3
<1> QED
  BY <1>2, <1>3 DEF UpdateCurrent

LEMMA PrepareLambdasStep ==
    ASSUME BackupInv, RestoreFrame, PrepareLambdas
    PROVE  BackupInv'
<1>1. phase = "prepare" /\ current' = current /\ current = Nil
  BY CurrentIsNil DEF BackupInv, PrepareLambdas
<1>2. CASE todo = {} /\ EnterPhase("create", PlannedLambdas)
  <2>1. /\ phase' = "create" /\ UNCHANGED <<providers, lambdas, baseline, limits>>
        /\ todo' = PlannedLambdas
    BY <1>2 DEF EnterPhase, managers
  <2>2. /\ PlannedProviders' = PlannedProviders /\ Dangling' = Dangling
        /\ PlannedLambdas' = PlannedLambdas /\ \A p : Planned(p)' = Planned(p)
        /\ \A x : IsLeft(x)' = IsLeft(x)
    BY <2>1, RestoreStays
  <2>3. RestoreTypes'
    BY <1>1, <2>1 DEF BackupInv, RestoreTypes, RestoreFrame, ProvidersTyped, Phases, Working
  <2>4. TodoIsDynamic'
    BY <2>1, <2>2 DEF TodoIsDynamic
  <2>5. Accepted'
    BY <1>1, <2>1, <2>2 DEF BackupInv, Accepted, Status, RestoreFrame, Working
  <2>6. Pruned'
    BY <1>1, <1>2, <2>1, <2>2 DEF BackupInv, Pruned, RestoreFrame, Applying, Working
  <2>7. ProvidersApplied'
    BY <1>1, <2>1, <2>2 DEF BackupInv, ProvidersApplied, Applying
  <2>8. LambdasApplied'
    BY <1>1, <1>2, <2>1, <2>2 DEF BackupInv, LambdasApplied
  <2> QED
    BY <2>1, <2>3, <2>4, <2>5, <2>6, <2>7, <2>8 DEF BackupInv, LimitsApplied
<1>3. ASSUME NEW l \in todo, RemoveLambda(l), Worked(l), UNCHANGED <<providers, limits>>
      PROVE  BackupInv'
  <2>1. phase' = phase /\ todo' = todo \ {l}
    BY <1>3 DEF Worked
  <2>2. l \in PlannedLambdas /\ Key[l] \notin baseline
    BY <1>1, <1>3 DEF BackupInv, TodoIsDynamic, PlannedLambdas
  <2>3. /\ UNCHANGED baseline /\ DOMAIN lambdas' = DOMAIN lambdas \ {l}
        /\ \A k : k # l => SpareLambda(k)
    BY <1>3, <2>2, RemovesOne
  <2>4. /\ PlannedProviders' = PlannedProviders /\ Dangling' = Dangling
        /\ PlannedLambdas' = PlannedLambdas /\ \A p : Planned(p)' = Planned(p)
        /\ \A x : IsLeft(x)' = IsLeft(x)
    BY <2>3, RestoreStays
  <2>5. RestoreTypes'
    BY <1>1, <1>3, <2>1 DEF BackupInv, RestoreTypes, RestoreFrame, ProvidersTyped
  <2>6. TodoIsDynamic'
    BY <1>1, <2>1, <2>4 DEF BackupInv, TodoIsDynamic
  <2>7. Accepted'
    BY <1>1, <1>3, <2>1, <2>4 DEF BackupInv, Accepted, Status, RestoreFrame
  <2>8. Pruned'
    BY <1>1, <1>3, <2>1, <2>3, <2>4 DEF BackupInv, Pruned, RestoreFrame
  <2>9. ProvidersApplied'
    BY <1>1, <1>3, <2>1, <2>4 DEF BackupInv, ProvidersApplied
  <2>10. LambdasApplied'
    BY <1>1, <2>1, <2>3, <2>4 DEF BackupInv, LambdasApplied, SpareLambda
  <2> QED
    BY <1>1, <2>1, <2>5, <2>6, <2>7, <2>8, <2>9, <2>10 DEF BackupInv, LimitsApplied
<1> QED
  BY <1>2, <1>3 DEF PrepareLambdas

LEMMA CreateLambdasStep ==
    ASSUME BackupInv, RestoreFrame, CreateLambdas
    PROVE  BackupInv'
<1>1. /\ phase = "create" /\ current' = current /\ current = Nil
      /\ RestoreTypes /\ todo \subseteq PlannedLambdas
  BY CurrentIsNil DEF BackupInv, TodoIsDynamic, CreateLambdas
<1>2. CASE todo = {} /\ EnterPhase("risk", {})
  <2>1. phase' = "risk" /\ UNCHANGED <<providers, lambdas, baseline, limits>>
    BY <1>2 DEF EnterPhase, managers
  <2>2. /\ PlannedProviders' = PlannedProviders /\ Dangling' = Dangling
        /\ PlannedLambdas' = PlannedLambdas /\ \A p : Planned(p)' = Planned(p)
        /\ \A x : IsLeft(x)' = IsLeft(x)
    BY <2>1, RestoreStays
  <2>3. RestoreTypes'
    BY <1>1, <2>1 DEF RestoreTypes, RestoreFrame, ProvidersTyped, Phases, Working
  <2>4. Accepted'
    BY <1>1, <2>1, <2>2 DEF BackupInv, Accepted, Status, RestoreFrame, Working
  <2>5. Pruned'
    BY <1>1, <2>1, <2>2 DEF BackupInv, Pruned, RestoreFrame, Applying, Working
  <2>6. ProvidersApplied'
    BY <1>1, <2>1, <2>2 DEF BackupInv, ProvidersApplied, Applying
  <2>7. LambdasApplied'
    BY <1>1, <1>2, <2>1, <2>2 DEF BackupInv, LambdasApplied, Recreated, RestoreFrame
  <2> QED
    BY <2>1, <2>3, <2>4, <2>5, <2>6, <2>7 DEF BackupInv, TodoIsDynamic, LimitsApplied
<1>3. ASSUME NEW l \in todo, CreateLambda(l, plan.lambdas[l]), Worked(l), UNCHANGED <<providers, limits>>
      PROVE  BackupInv'
  <2>1. phase' = phase /\ todo' = todo \ {l}
    BY <1>3 DEF Worked
  <2>2. l \in PlannedLambdas /\ l \in DOMAIN plan.lambdas /\ Key[l] \notin baseline
    BY <1>1 DEF PlannedLambdas
  <2>3. /\ UNCHANGED baseline /\ DOMAIN lambdas' = DOMAIN lambdas \union {l}
        /\ lambdas'[l] = Ensured(plan.lambdas[l])
        /\ \A k : k # l => SpareLambda(k)
    <3>1. /\ DOMAIN lambdas' = DOMAIN lambdas \union {l} /\ lambdas'[l] = Ensured(plan.lambdas[l])
          /\ \A k : k # l => SpareLambda(k)
          /\ baseline' \subseteq baseline /\ baseline \ baseline' \subseteq {Key[l]}
      BY <1>3, CreateLambdaIs
    <3> QED
      BY <2>2, <3>1
  <2>4. /\ PlannedProviders' = PlannedProviders /\ Dangling' = Dangling
        /\ PlannedLambdas' = PlannedLambdas /\ \A p : Planned(p)' = Planned(p)
        /\ \A x : IsLeft(x)' = IsLeft(x)
    BY <2>3, RestoreStays
  <2>5. RestoreTypes'
    BY <1>1, <1>3, <2>1 DEF RestoreTypes, RestoreFrame, ProvidersTyped
  <2>6. TodoIsDynamic'
    BY <1>1, <2>1, <2>4 DEF TodoIsDynamic
  <2>7. Accepted'
    BY <1>1, <1>3, <2>1, <2>4 DEF BackupInv, Accepted, Status, RestoreFrame
  <2>8. Pruned'
    BY <1>1, <1>3, <2>1, <2>2, <2>3, <2>4 DEF BackupInv, Pruned, RestoreFrame, KeysOf, SpareLambda
  <2>9. ProvidersApplied'
    BY <1>1, <1>3, <2>1, <2>4 DEF BackupInv, ProvidersApplied
  <2>10. LambdasApplied'
    <3>1. Recreated(l)'
      BY <2>3 DEF Recreated, RestoreFrame
    <3>2. \A k : k # l => /\ Recreated(k)' = Recreated(k)
                          /\ k \in DOMAIN lambdas' <=> k \in DOMAIN lambdas
      BY <2>3 DEF Recreated, RestoreFrame, SpareLambda
    <3> QED
      BY <1>1, <2>1, <2>4, <3>1, <3>2 DEF BackupInv, LambdasApplied
  <2> QED
    BY <1>1, <2>1, <2>5, <2>6, <2>7, <2>8, <2>9, <2>10 DEF BackupInv, LimitsApplied
<1>4. ASSUME NEW l \in todo, ~Creatable(l, plan.lambdas[l]), Fails
      PROVE  BackupInv'
  <2>1. l \in PlannedLambdas
    BY <1>1
  <2>2. CASE IsLeft(l)
    <3>1. plan.lambdas[l].identifier.name \in Registered
      BY <1>1, <2>1, <2>2 DEF BackupInv, Accepted, Working
    <3>2. l \notin DOMAIN lambdas
      BY <1>1, <1>4, <2>1, <2>2 DEF BackupInv, LambdasApplied
    <3>3. plan.lambdas[l].identifier \in Unresolved
      BY <1>4, <3>1, <3>2 DEF Creatable
    <3> QED
      BY <1>1, <1>4, <2>1, <3>3, FailsStep DEF Excused
  <2>3. CASE ~IsLeft(l)
    BY <1>1, <1>4, <2>1, <2>3, FailsStep DEF Excused
  <2> QED
    BY <2>2, <2>3
<1> QED
  BY <1>2, <1>3, <1>4 DEF CreateLambdas

LEMMA ApplyRiskStep ==
    ASSUME BackupInv, RestoreFrame, ApplyRisk
    PROVE  BackupInv'
<1>1. /\ phase = "risk" /\ phase' = "done" /\ current' = current /\ current = Nil
      /\ UNCHANGED <<providers, lambdas, baseline, todo>>
  BY CurrentIsNil DEF BackupInv, ApplyRisk
<1>2. /\ PlannedProviders' = PlannedProviders /\ Dangling' = Dangling
      /\ PlannedLambdas' = PlannedLambdas /\ \A p : Planned(p)' = Planned(p)
      /\ \A x : IsLeft(x)' = IsLeft(x)
  BY <1>1, RestoreStays
<1>3. RestoreTypes'
  BY <1>1 DEF BackupInv, RestoreTypes, RestoreFrame, ProvidersTyped, Phases, Working
<1>4. Accepted'
  BY <1>1, <1>2 DEF BackupInv, Accepted, Status, RestoreFrame, Working
<1>5. Pruned'
  BY <1>1, <1>2 DEF BackupInv, Pruned, RestoreFrame, Applying, Working
<1>6. ProvidersApplied'
  BY <1>1, <1>2 DEF BackupInv, ProvidersApplied, Applying
<1>7. LambdasApplied'
  BY <1>1, <1>2 DEF BackupInv, LambdasApplied, Recreated, RestoreFrame
<1>8. LimitsApplied'
  BY DEF ApplyRisk, LimitsApplied, RestoreFrame
<1> QED
  BY <1>1, <1>3, <1>4, <1>5, <1>6, <1>7, <1>8 DEF BackupInv, TodoIsDynamic

LEMMA BackupStep ==
    ASSUME BackupInv, [BackupNext]_backupVars
    PROVE  BackupInv'
<1>1. CASE OtherClients
  BY <1>1, OthersStep
<1>2. CASE TakeBackup
  BY <1>2, TakeBackupStep
<1>3. CASE Leave
  BY <1>3, NothingChanges DEF Leave, history
<1>4. CASE Receive
  BY <1>4, ReceiveStep
<1>5. CASE ApplyBackup
  <2>1. RestoreFrame
    BY <1>5 DEF ApplyBackup, RestoreFrame
  <2> QED
    BY <1>5, <2>1, PreflightStep, RemoveLambdasStep, RemoveProvidersStep, ApplyProvidersStep,
       UpdateCurrentStep, PrepareLambdasStep, CreateLambdasStep, ApplyRiskStep DEF ApplyBackup
<1>6. CASE UNCHANGED backupVars
  BY <1>6, NothingChanges DEF backupVars, history
<1> QED
  BY <1>1, <1>2, <1>3, <1>4, <1>5, <1>6 DEF BackupNext

\* What the managers hold, what has been exported and what is restored is well-formed
\* throughout, and whatever a restore still has to do is of the backup or is not of the
\* configuration file.
THEOREM BackupTypes == BackupSpec => [](RestoreTypes /\ TodoIsDynamic)
<1>1. BackupInit => BackupInv
  BY InitInv
<1>2. BackupInv /\ [BackupNext]_backupVars => BackupInv'
  BY BackupStep
<1>3. BackupInv => RestoreTypes /\ TodoIsDynamic
  BY DEF BackupInv
<1> QED
  BY <1>1, <1>2, <1>3, PTL DEF BackupSpec

LEMMA RestoreDone ==
    ASSUME BackupInv
    PROVE  Restored
<1> SUFFICES ASSUME phase = "done", ~TwoSpellings(Names(Export) \union Names(plan))
             PROVE  /\ Untouched(Export.providers) = Untouched([p \in PlannedProviders |-> Planned(p)])
                    /\ Untouched(Export.lambdas)
                         = Untouched([l \in PlannedLambdas |-> Ensured(plan.lambdas[l])])
                    /\ plan.limits \in {Nil, limits} \/ "limits" \in disturbed
                    /\ \A l \in {k \in PlannedLambdas : IsLeft(k)} : \A p \in lambdas[l].on :
                         IsLeft(p) /\ Dynamic(p) => Status(p) # "absent"
  BY DEF Restored
<1>1. /\ RestoreTypes /\ ProvidersTyped /\ Accepted /\ Pruned /\ ProvidersApplied /\ LambdasApplied
      /\ LimitsApplied /\ current = Nil
  BY CurrentIsNil DEF BackupInv, RestoreTypes
<1>2. \A x, y \in Names(Export) \union Names(plan) : Key[x] = Key[y] => x = y
  BY DEF TwoSpellings
<1>3. \A p \in PlannedProviders : p \in Names(plan) /\ Dynamic(p) /\ p \in ProviderNames /\ p # Nil
  BY <1>1, PlannedTyped, BackupAssumption DEF Names, PlannedProviders
<1>4. \A p \in PlannedProviders : IsLeft(p) => p \in DOMAIN providers /\ providers[p].spec = Planned(p)
  BY <1>1, <1>3 DEF ProvidersApplied, Applying
<1>5. \A p \in DOMAIN providers : Dynamic(p) => p \in Names(Export)
  BY DEF Names, Export
<1>6. \A p \in DOMAIN providers : Dynamic(p) /\ IsLeft(p) => p \in PlannedProviders
  <2> SUFFICES ASSUME NEW p \in DOMAIN providers, Dynamic(p), IsLeft(p)
               PROVE  p \in PlannedProviders
    OBVIOUS
  <2>1. PICK q \in PlannedProviders : Key[q] = Key[p]
    BY <1>1 DEF Pruned, Applying, KeysOf
  <2> QED
    BY <1>2, <1>3, <1>5, <2>1
<1>7. \A p \in PlannedProviders : SanitizeProviderSpec(Planned(p)) = Planned(p)
  BY <1>1, PlannedTyped, SanitizeIs DEF Planned
<1>8. Untouched(Export.providers) = Untouched([p \in PlannedProviders |-> Planned(p)])
  <2>1. Untouched(Export.providers)
          = [p \in {q \in DOMAIN providers : Dynamic(q) /\ IsLeft(q)} |-> SanitizeProviderSpec(providers[p].spec)]
    BY DEF Untouched, Restrict, Export
  <2>2. Untouched([p \in PlannedProviders |-> Planned(p)])
          = [p \in {q \in PlannedProviders : IsLeft(q)} |-> Planned(p)]
    BY DEF Untouched, Restrict
  <2>3. {q \in DOMAIN providers : Dynamic(q) /\ IsLeft(q)} = {q \in PlannedProviders : IsLeft(q)}
    BY <1>3, <1>4, <1>6
  <2>4. \A p \in PlannedProviders : IsLeft(p) => SanitizeProviderSpec(providers[p].spec) = Planned(p)
    BY <1>4, <1>7
  <2> QED
    BY <2>1, <2>2, <2>3, <2>4
<1>9. \A l \in PlannedLambdas : l \in Names(plan) /\ l \in DOMAIN plan.lambdas /\ Key[l] \notin baseline
  BY DEF Names, PlannedLambdas
<1>10. \A l \in PlannedLambdas : IsLeft(l) => l \in DOMAIN lambdas /\ lambdas[l] = Ensured(plan.lambdas[l])
  BY <1>1 DEF LambdasApplied, Recreated
<1>11. \A l \in DOMAIN lambdas : Key[l] \notin baseline => l \in Names(Export)
  BY DEF Names, Export
<1>12. \A l \in DOMAIN lambdas : Key[l] \notin baseline /\ IsLeft(l) => l \in PlannedLambdas
  <2> SUFFICES ASSUME NEW l \in DOMAIN lambdas, Key[l] \notin baseline, IsLeft(l)
               PROVE  l \in PlannedLambdas
    OBVIOUS
  <2>1. PICK k \in DOMAIN plan.lambdas : Key[k] = Key[l]
    BY <1>1 DEF Pruned, Working, KeysOf
  <2>2. k \in Names(plan)
    BY DEF Names
  <2>3. k = l
    BY <1>2, <1>11, <2>1, <2>2
  <2> QED
    BY <2>1, <2>3 DEF PlannedLambdas
<1>13. Untouched(Export.lambdas) = Untouched([l \in PlannedLambdas |-> Ensured(plan.lambdas[l])])
  <2>1. Untouched(Export.lambdas)
          = [l \in {k \in DOMAIN lambdas : Key[k] \notin baseline /\ IsLeft(k)} |-> lambdas[l]]
    BY DEF Untouched, Restrict, Export
  <2>2. Untouched([l \in PlannedLambdas |-> Ensured(plan.lambdas[l])])
          = [l \in {k \in PlannedLambdas : IsLeft(k)} |-> Ensured(plan.lambdas[l])]
    BY DEF Untouched, Restrict
  <2>3. {k \in DOMAIN lambdas : Key[k] \notin baseline /\ IsLeft(k)} = {k \in PlannedLambdas : IsLeft(k)}
    BY <1>9, <1>10, <1>12
  <2> QED
    BY <1>10, <2>1, <2>2, <2>3
<1>14. ASSUME NEW l \in PlannedLambdas, IsLeft(l), NEW p \in lambdas[l].on, IsLeft(p), Dynamic(p)
       PROVE  Status(p) # "absent"
  <2>1. l \in DOMAIN plan.lambdas /\ p \in plan.lambdas[l].on
    BY <1>9, <1>10, <1>14, EnsuredIs
  <2>2. p \in Names(plan)
    BY <2>1 DEF Names
  <2>3. Key[p] \in KeysOf(PlannedProviders)
    BY <1>1, <1>14, <2>1 DEF Accepted, Dangling, Working
  <2>4. PICK q \in PlannedProviders : Key[q] = Key[p]
    BY <2>3 DEF KeysOf
  <2>5. q = p
    BY <1>2, <1>3, <2>2, <2>4
  <2> QED
    BY <1>1, <1>4, <1>14, <2>5, PresentStatus
<1>15. plan.limits \in {Nil, limits}
  BY <1>1 DEF LimitsApplied
<1> QED
  BY <1>8, <1>13, <1>14, <1>15

\* A restore that succeeds leaves of the providers, the lambdas and the limits that no other
\* client has touched since it began what the backup says, and nothing else, whatever was
\* there and whatever others did meanwhile; and each lambda finds its providers.
THEOREM RestoreRestores == BackupSpec => []Restored
<1>1. BackupInit => BackupInv
  BY InitInv
<1>2. BackupInv /\ [BackupNext]_backupVars => BackupInv'
  BY BackupStep
<1>3. BackupInv => Restored
  BY RestoreDone
<1> QED
  BY <1>1, <1>2, <1>3, PTL DEF BackupSpec

\* A restore that fails after it has changed something was disturbed, by another client or by
\* its own going away, or has met a reference that only the creation resolves.
THEOREM FailedRestoreSpares == BackupSpec => []FailureLeavesAlone
<1>1. BackupInit => BackupInv
  BY InitInv
<1>2. BackupInv /\ [BackupNext]_backupVars => BackupInv'
  BY BackupStep
<1>3. BackupInv => FailureLeavesAlone
  BY DEF BackupInv, Excused, FailureLeavesAlone
<1> QED
  BY <1>1, <1>2, <1>3, PTL DEF BackupSpec
===============================================================================
