----------------------------- MODULE LambdaManager -----------------------------
(* One lambda id in the lambda manager (app/lambda/runtime): its specification, *)
(* the run that serves it, the routes, the count of the revision in use and the *)
(* stored row, under control calls (create, update, start, stop, remove,        *)
(* refresh) that may overlap.  Each call holds the manager's lock only for      *)
(* single look-ups and updates; launching, stopping and persisting are done     *)
(* between them.  The process may crash at any point; it then restores the id   *)
(* from its row before it serves calls again.                                   *)
(*                                                                              *)
(* A specification is its selector (the name, or a pinned revision) and the     *)
(* revision it was resolved to; configuration, scope and the flags of origin    *)
(* are left out.  The loader is external: which revisions it has, and which of  *)
(* them the bare name stands for, changes at any time.                          *)
EXTENDS Integers, FiniteSets

CONSTANTS
    Callers,      \* control calls that may be under way at once
    Hashes,       \* revisions of the strategy
    None,         \* no specification, no revision, no row
    Apart,        \* bound: leave out the behaviours in which two calls decide to launch
    MaxRuns,      \* bound: runs at one time
    MaxMishaps    \* bound: changes of the loader, failures of the store and crashes

Selectors == Hashes \union {"name"}
Specs == [sel : Selectors, hash : Hashes]
Rows == [spec : Specs, running : BOOLEAN]

ASSUME LambdaAssumption ==
    /\ None \notin Hashes \union Specs \union Rows /\ "name" \notin Hashes
    /\ IsFiniteSet(Callers) /\ Apart \in BOOLEAN /\ MaxRuns \in Nat /\ MaxMishaps \in Nat

VARIABLES
    loaded, latest,              \* loader: byHash, the revision of byName
    spec,                        \* specs[id]
    cur, usage,                  \* instances[id] (0: none), revisions in use by the id
    hashOf,                      \* the revision of each run not cancelled yet, None of the others
    routes,                      \* the revision whose routes the registrar has for the id
    row,                         \* the stored snapshot
    job,                         \* where each control call is
    up,                          \* the API is served
    mishaps,
    overlap, owed                \* only record what has happened

loaderVars  == <<loaded, latest>>
runVars     == <<cur, usage, hashOf>>
managerVars == <<spec, runVars, routes>>
vars == <<loaderVars, managerVars, row, job, up, mishaps, overlap, owed>>

Runs == 1..MaxRuns
Ops == {"create", "update", "start", "stop", "remove", "refresh", "restore"}
Steps == {"read", "resolve", "insert", "write", "lookup", "check", "register", "boot", "undo",
          "enter", "stop", "cancel", "unroute", "snapshot", "save", "delete", "end"}
Idle == [op |-> "none"]
Jobs == [op : Ops, at : Steps, sel : Selectors, spec : Specs \union {None}, was : BOOLEAN,
         run : 0..MaxRuns, snap : Rows \union {None}, then : Steps]

LambdaTypeOK ==
    /\ loaded \subseteq Hashes /\ latest \in loaded \union {None}
    /\ spec \in Specs \union {None}
    /\ cur \in 0..MaxRuns /\ usage \subseteq Hashes
    /\ hashOf \in [Runs -> Hashes \union {None}]
    /\ routes \in Hashes \union {None}
    /\ row \in Rows \union {None}
    /\ job \in [Callers -> Jobs \union {Idle}]
    /\ up \in BOOLEAN /\ owed \in BOOLEAN
    /\ mishaps \in 0..MaxMishaps /\ overlap \subseteq {"launch", "stop", "row"}

Init ==
    /\ loaded = Hashes /\ latest \in Hashes
    /\ spec = None
    /\ cur = 0 /\ usage = {} /\ hashOf = [n \in Runs |-> None]
    /\ routes = None /\ row = None
    /\ job = [c \in Callers |-> Idle]
    /\ up = FALSE
    /\ mishaps = 0 /\ overlap = {} /\ owed = FALSE

-------------------------------------------------------------------------------
(* Steps of a call *)

Busy(c) == job[c] # Idle
At(c, step) == Busy(c) /\ job[c].at = step
\* Calls that launch, or that only have to persist, go on alike; but restoring has
\* something left to do at the end.
Alike(j) == IF j.op = "restore" THEN j ELSE [j EXCEPT !.op = "start", !.was = FALSE]
To(j, step) ==
    IF step = "end" /\ j.op # "restore" THEN Idle
    ELSE [IF step = "register" THEN Alike(j) ELSE j EXCEPT !.at = step]
Go(c, step) == job' = [job EXCEPT ![c] = To(@, step)]
\* persistStrategy, and then to the given step.
Persist(c, j, step) ==
    job' = [job EXCEPT ![c] = [IF step \in {"snapshot", "end"} THEN Alike(j) ELSE j
                                  EXCEPT !.at = "snapshot", !.then = step]]
Mishap == mishaps < MaxMishaps /\ mishaps' = mishaps + 1
Others(c, steps) == \E d \in Callers \ {c} : Busy(d) /\ job[d].at \in steps

\* From the check, or the registration, to the entry in instances; from the entry's
\* removal to that of the routes.
Launching == {"register", "boot", "undo", "enter"}
Stopping == {"cancel", "unroute"}

\* What some of the properties except.  "launch": two calls were under way that both had
\* decided to launch, an update with what it read first and the others with Check.
\* "stop": a launch overlapped a stop.  "row": a change met a snapshot taken and not
\* yet saved, a call to the store failed, or the row could not be restored.
Mark(kinds) == overlap' = overlap \union kinds /\ ~(Apart /\ "launch" \in overlap')
Met(kind, now) == IF now THEN {kind} ELSE {}
Unmarked == UNCHANGED overlap
Decided(j) == j # Idle /\ (j.at \in Launching \/ (j.op = "update" /\ j.was))
MarkDecision(c) == Met("launch", \E d \in Callers \ {c} : Decided(job[d]))
MarkRegister(c) == Met("stop", Others(c, Stopping))
MarkRow(c) == Met("row", Others(c, {"save"}))

Called(op, first, sel) ==
    [op |-> op, at |-> first, sel |-> sel, spec |-> None, was |-> FALSE, run |-> 0,
     snap |-> None, then |-> "end"]

\* The requests of the control API, each at its first step.
Requests == {Called("create", "resolve", sel) : sel \in Selectors}
    \union {Called("update", "read", "name"), Called("refresh", "read", "name"),
            Called("start", "lookup", "name"), Called("stop", "stop", "name"),
            Called("remove", "stop", "name")}

\* The call that c has at a step, or the requests that begin with it.
Ready(c, step) ==
    {j \in IF Busy(c) THEN {job[c]} ELSE IF up THEN Requests ELSE {} : j.at = step}
StillOwed(c) == owed /\ Busy(c)

End(c) ==
    /\ At(c, "end")
    /\ job' = [job EXCEPT ![c] = Idle] /\ up' = TRUE
    /\ UNCHANGED <<loaderVars, managerVars, row, mishaps, overlap, owed>>

-------------------------------------------------------------------------------
(* The specification *)

\* What Update and refresh read under the lock before anything else; both return
\* when there is no specification.
Read(c) ==
    /\ spec # None
    /\ \E j \in Ready(c, "read") :
           /\ job' = [job EXCEPT ![c] = [j EXCEPT !.at = "resolve", !.spec = spec, !.was = cur # 0,
                          !.sel = IF j.op = "refresh" THEN spec.sel ELSE @]]
           /\ Mark(IF cur # 0 /\ j.op = "update" THEN MarkDecision(c) ELSE {})
    /\ owed' = StillOwed(c)
    /\ UNCHANGED <<loaderVars, managerVars, row, up, mishaps>>

\* Loader.ResolveReference.
Resolved(sel) == IF sel = "name" THEN latest ELSE IF sel \in loaded THEN sel ELSE None

\* An instance whose strategy is gone is only stopped by a refresh; one that is
\* on its revision already is not restarted.
Resolve(c) == \E j \in Ready(c, "resolve") :
    LET h == Resolved(j.sel) refresh == j.op = "refresh" IN
    /\ job' = [job EXCEPT ![c] =
           IF h = None /\ refresh THEN [j EXCEPT !.at = "stop", !.was = FALSE]
           ELSE IF h = None THEN To(j, "end")
           ELSE [j EXCEPT !.at = IF refresh THEN "write" ELSE "insert",
                          !.was = IF refresh THEN j.was /\ j.spec.hash # h ELSE j.was,
                          !.spec = [sel |-> j.sel, hash |-> h], !.sel = "name"]]
    /\ owed' = (StillOwed(c) /\ h # None)
    /\ Mark(Met("row", h = None /\ j.op = "restore"))
    /\ UNCHANGED <<loaderVars, managerVars, row, up, mishaps>>

\* Mutant: Update launches without stopping.
AfterInsert_NoStop(j) ==
    IF j.op = "update" THEN IF j.was THEN "register" ELSE "end"
    ELSE IF j.op = "create" THEN "snapshot"
    ELSE IF j.was THEN "lookup" ELSE "end"

\* Where a call goes once the specification is in the map and persisted.
AfterInsert(j) ==
    IF j.op = "update" THEN "stop"
    ELSE IF j.op = "create" THEN "snapshot"
    ELSE IF j.was THEN "lookup" ELSE "end"

\* Only an update launches the specification it has at hand.
Kept(j) == IF j.op = "update" /\ j.was THEN j ELSE [j EXCEPT !.spec = None, !.was = FALSE]

Insert(c) ==
    LET j == job[c] IN
    /\ At(c, "insert")
    /\ IF j.op = "create" /\ spec # None
       THEN Go(c, "end") /\ UNCHANGED spec /\ Unmarked
       ELSE Persist(c, Kept(j), AfterInsert(j)) /\ spec' = j.spec /\ Mark(MarkRow(c))
    /\ UNCHANGED <<loaderVars, runVars, routes, row, up, mishaps, owed>>

\* refresh puts back what it read, resolved anew, and does not persist it.
Write(c) ==
    /\ At(c, "write")
    /\ spec' = job[c].spec
    /\ job' = [job EXCEPT ![c] = To([@ EXCEPT !.spec = None], IF @.was THEN "stop" ELSE "end")]
    /\ Mark(MarkRow(c) \union Met("row", spec = None))
    /\ UNCHANGED <<loaderVars, runVars, routes, row, up, mishaps, owed>>

-------------------------------------------------------------------------------
(* launch *)

\* Start; a refresh that restarts goes on as one.
Lookup(c) == \E j \in Ready(c, "lookup") :
    /\ job' = [job EXCEPT ![c] =
           IF spec = None THEN To(j, "end")
           ELSE [j EXCEPT !.op = IF @ = "refresh" THEN "start" ELSE @,
                          !.at = "check", !.spec = spec, !.was = FALSE]]
    /\ owed' = StillOwed(c)
    /\ UNCHANGED <<loaderVars, managerVars, row, up, mishaps, overlap>>

Check(c) ==
    /\ At(c, "check")
    /\ IF cur # 0 THEN Go(c, "end") /\ Unmarked
       ELSE Go(c, "register") /\ Mark(MarkDecision(c) \union MarkRegister(c))
    /\ UNCHANGED <<loaderVars, managerVars, row, up, mishaps, owed>>

\* The provider may not be running, the strategy may not build, the registrar may
\* refuse the routes.
Register(c) ==
    LET h == job[c].spec.hash IN
    /\ At(c, "register")
    /\ \/ h \in loaded /\ routes' = h /\ Go(c, "boot") /\ UNCHANGED owed
       \/ Go(c, "end") /\ owed' = FALSE /\ UNCHANGED routes
    /\ UNCHANGED <<loaderVars, spec, runVars, row, up, mishaps, overlap>>

\* base.Start.
Free == {n \in Runs : hashOf[n] = None /\ n # cur /\ \A c \in Callers : Busy(c) => job[c].run # n}
NextRun == CHOOSE n \in Free : TRUE   \* they are interchangeable

Boot(c) ==
    /\ At(c, "boot") /\ Free # {}
    /\ hashOf' = [hashOf EXCEPT ![NextRun] = job[c].spec.hash]
    /\ job' = [job EXCEPT ![c] = [@ EXCEPT !.at = "enter", !.run = NextRun]]
    /\ UNCHANGED <<loaderVars, spec, cur, usage, routes, row, up, mishaps, overlap, owed>>

BootFails(c) ==
    /\ At(c, "boot") /\ Go(c, "undo") /\ owed' = FALSE
    /\ UNCHANGED <<loaderVars, managerVars, row, up, mishaps, overlap>>

Undo(c) ==
    /\ At(c, "undo") /\ Go(c, "end") /\ routes' = None
    /\ UNCHANGED <<loaderVars, spec, runVars, row, up, mishaps, overlap, owed>>

Entered(j) == usage \union {j.spec.hash}

\* Mutant: the start is not persisted.
Enter_NotPersisted(c) ==
    /\ At(c, "enter")
    /\ usage' = Entered(job[c])
    /\ cur' = job[c].run
    /\ Go(c, "end")
    /\ Mark(MarkRow(c))
    /\ UNCHANGED <<loaderVars, spec, hashOf, routes, row, up, mishaps, owed>>

Enter(c) ==
    /\ At(c, "enter")
    /\ usage' = Entered(job[c])
    /\ cur' = job[c].run
    /\ Persist(c, [job[c] EXCEPT !.run = 0, !.was = FALSE, !.spec = None], "end")
    /\ Mark(MarkRow(c))
    /\ UNCHANGED <<loaderVars, spec, hashOf, routes, row, up, mishaps, owed>>

-------------------------------------------------------------------------------
(* Stop, and what follows it *)

AfterStop(j) ==
    CASE j.op = "remove" -> "delete"
      [] j.op = "update" /\ j.was -> "register"
      [] j.op = "refresh" /\ j.was -> "lookup"
      [] OTHER -> "end"

MarkNext(c, step) == IF step = "register" THEN MarkRegister(c) ELSE {}

\* ErrInstanceNotRunning is passed over by Remove, Update and refresh,
\* ErrInstanceNotFound by refresh only.
NotRunning(c) == \E j \in Ready(c, "stop") :
    LET next == IF spec = None /\ j.op # "refresh" THEN "end" ELSE AfterStop(j) IN
    /\ cur = 0
    /\ job' = [job EXCEPT ![c] = To(j, next)]
    /\ Mark(MarkNext(c, next))
    /\ owed' = StillOwed(c)
    /\ UNCHANGED <<loaderVars, managerVars, row, up, mishaps>>

\* Mutant: the revision of the specification, which may have been resolved anew.
Released_BySpec(h) == IF spec = None THEN usage ELSE usage \ {spec.hash}

\* markInstanceStopped: the revision the run was launched with, whatever the
\* specification says by now.
Released(h) == usage \ {h}

TakeOut(c) == \E j \in Ready(c, "stop") :
    /\ cur # 0
    /\ cur' = 0
    /\ usage' = Released(hashOf[cur])
    /\ job' = [job EXCEPT ![c] = [j EXCEPT !.at = "cancel", !.run = cur]]
    /\ Mark(MarkRow(c) \union Met("stop", Others(c, Launching)))
    /\ owed' = StillOwed(c)
    /\ UNCHANGED <<loaderVars, spec, hashOf, routes, row, up, mishaps>>

Cancel(c) ==
    /\ At(c, "cancel")
    /\ hashOf' = [hashOf EXCEPT ![job[c].run] = None]
    /\ Go(c, "unroute")
    /\ UNCHANGED <<loaderVars, spec, cur, usage, routes, row, up, mishaps, overlap, owed>>

\* Mutant: the stop is not persisted.
Unroute_NotPersisted(c) ==
    /\ At(c, "unroute")
    /\ routes' = None
    /\ job' = [job EXCEPT ![c] = To([@ EXCEPT !.run = 0], AfterStop(@))]
    /\ UNCHANGED <<loaderVars, spec, runVars, row, up, mishaps, overlap, owed>>

Unroute(c) ==
    /\ At(c, "unroute")
    /\ routes' = None
    /\ Persist(c, [job[c] EXCEPT !.run = 0], AfterStop(job[c]))
    /\ UNCHANGED <<loaderVars, spec, runVars, row, up, mishaps, overlap, owed>>

\* Remove's second critical section; the store is called inside it.
Delete(c) ==
    /\ At(c, "delete")
    /\ Go(c, "end")
    /\ spec' = None
    /\ IF spec = None THEN UNCHANGED <<row, mishaps, overlap>>
       ELSE \/ row' = None /\ Mark(MarkRow(c)) /\ UNCHANGED mishaps
            \/ UNCHANGED row /\ Mark({"row"}) /\ Mishap
    /\ UNCHANGED <<loaderVars, runVars, routes, up, owed>>

-------------------------------------------------------------------------------
(* persistStrategy: the snapshot is read under the lock and saved after it *)

\* Goes on to the step after persistStrategy; Create calls it twice.
GoOn(c, kinds) ==
    /\ job' = [job EXCEPT ![c] = To([@ EXCEPT !.then = "end", !.snap = None], job[c].then)]
    /\ Mark(MarkNext(c, job[c].then) \union kinds)

Snapshot(c) ==
    /\ At(c, "snapshot")
    /\ IF spec = None THEN GoOn(c, {})
       ELSE /\ job' = [job EXCEPT ![c] = [@ EXCEPT !.at = "save",
                           !.snap = [spec |-> spec, running |-> cur # 0]]]
            /\ Unmarked
    /\ UNCHANGED <<loaderVars, managerVars, row, up, mishaps, owed>>

Save(c) ==
    /\ At(c, "save")
    /\ \/ row' = job[c].snap /\ GoOn(c, {}) /\ UNCHANGED mishaps
       \/ UNCHANGED row /\ GoOn(c, {"row"}) /\ Mishap
    /\ UNCHANGED <<loaderVars, managerVars, up, owed>>

-------------------------------------------------------------------------------
(* The process and the loader *)

Quiet == \A c \in Callers : ~Busy(c)

Crash ==
    /\ Mishap
    /\ up' = FALSE
    /\ spec' = None /\ cur' = 0 /\ usage' = {} /\ hashOf' = [n \in Runs |-> None] /\ routes' = None
    /\ job' = [c \in Callers |-> Idle]
    /\ owed' = (up /\ Quiet /\ cur # 0 /\ spec # None /\ "row" \notin overlap)
    /\ UNCHANGED <<loaderVars, row, overlap>>

\* restoreStrategySnapshots, before the API is served: the row's identifier is the
\* bare name, whatever the selector was.
Restore(c) ==
    /\ ~up /\ Quiet
    /\ IF row = None THEN up' = TRUE /\ UNCHANGED job
       ELSE /\ job' = [job EXCEPT ![c] = [Called("restore", "resolve", "name")
                                             EXCEPT !.was = row.running]]
            /\ UNCHANGED up
    /\ UNCHANGED <<loaderVars, managerVars, row, mishaps, overlap, owed>>

\* Revisions come and go, and tags move.
Reload ==
    /\ Mishap
    /\ loaded' \in SUBSET Hashes
    /\ latest' \in IF loaded' = {} THEN {None} ELSE loaded'
    /\ UNCHANGED <<managerVars, row, job, up, overlap, owed>>

-------------------------------------------------------------------------------
Ensure(c) == Read(c) \/ Resolve(c) \/ Insert(c) \/ Write(c)
Launch(c) == Lookup(c) \/ Check(c) \/ Register(c) \/ Boot(c) \/ BootFails(c) \/ Undo(c) \/ Enter(c)
Stop(c) == NotRunning(c) \/ TakeOut(c) \/ Cancel(c) \/ Unroute(c) \/ Delete(c)
Call(c) == Ensure(c) \/ Launch(c) \/ Stop(c) \/ Snapshot(c) \/ Save(c) \/ End(c)

Next == Crash \/ Reload \/ \E c \in Callers : Restore(c) \/ Call(c)

Spec == Init /\ [][Next]_vars

-------------------------------------------------------------------------------
(* Properties *)

\* "ErrInstanceAlreadyRunning": unless two launches overlapped, every run that has
\* not been cancelled is the one Stop finds, or some call is entering or cancelling
\* it; and there is at most one outside a restart.
NoStrayRun ==
    "launch" \notin overlap =>
        \A n \in Runs : hashOf[n] # None => n = cur \/ \E c \in Callers : Busy(c) /\ job[c].run = n

\* Unless a launch overlapped another or a stop, the revision counted as in use is
\* the one that runs, however the specification has changed since, and between
\* calls the registrar has the routes of the lambda that runs, and none when none does.
BooksFollowRun ==
    LET runs == IF cur = 0 THEN {} ELSE {hashOf[cur]} IN
    "launch" \notin overlap =>
        /\ usage = runs
        /\ Quiet /\ "stop" \notin overlap => {routes} \ {None} = runs

\* Between calls the row says what a restart needs: there is one when there is a
\* specification, and it says whether the lambda runs; unless a call to the store
\* failed, the row could not be restored, or a change met a snapshot on its way.
RowAgrees ==
    Quiet /\ up /\ "row" \notin overlap =>
        /\ (row = None) = (spec = None)
        /\ row # None => row.running = (cur # 0)

\* After a crash between calls, a lambda that ran, and was not removed while it was
\* launched, runs again before the first request; unless the row is excepted above,
\* or its strategy or its provider is not there.
ResumesAfterCrash == up /\ owed => cur # 0

\* "name@hash: an immutable SHA-256 hash": a lambda whose row pins a revision is
\* restored on that revision.
PinIsRestored ==
    \A c \in Callers :
        At(c, "insert") /\ job[c].op = "restore" /\ row.spec.sel \in Hashes
            => job[c].spec.hash = row.spec.hash

-------------------------------------------------------------------------------
(* The inductive invariant behind the four invariants above *)

Doing(c, steps) == Busy(c) /\ job[c].at \in steps
Updating(j) == j.op = "update" /\ j.was
CurrentRun == IF cur = 0 THEN {} ELSE {hashOf[cur]}

\* A call has a run at hand only while it enters or stops it, has a specification
\* whenever it is going to use one, and goes from persisting to launching only in an
\* update that stopped a run.
JobOK(j) ==
    /\ j.run # 0 <=> j.at \in {"enter", "cancel", "unroute"}
    /\ j.then = "register" => j.at \in {"snapshot", "save"} /\ Updating(j)
    /\ j.at \in {"insert", "write", "check"} \union Launching \/ Updating(j) => j.spec # None
    /\ j.at = "end" => j.op = "restore"
    /\ j.at = "write" => j.op = "refresh"
    /\ j.at = "save" => j.snap # None
    /\ j.then \in {"end", "snapshot", "stop", "lookup", "register", "delete"}

\* While the process restores, the restore is alone.
JobInv ==
    \A c \in Callers : Busy(c) =>
        /\ JobOK(job[c])
        /\ job[c].op = "restore" => ~up /\ \A d \in Callers : Busy(d) => d = c
        /\ ~up => job[c].op = "restore"

\* A run is entered, cancelled or in the books, and only one of them.
RunInv ==
    /\ cur # 0 => hashOf[cur] # None
    /\ \A c \in Callers : Busy(c) /\ job[c].run # 0 =>
          /\ job[c].run # cur
          /\ \A d \in Callers \ {c} : Busy(d) => job[d].run # job[c].run
          /\ job[c].at = "enter" => hashOf[job[c].run] = job[c].spec.hash
          /\ job[c].at = "unroute" => hashOf[job[c].run] = None

\* An update that has taken its run out has found, or made, the books empty.
Emptied(j) ==
    Updating(j) /\ (j.at \in Stopping \/ (j.at \in {"snapshot", "save"} /\ j.then = "register"))

\* Unless two calls had decided to launch: one call at most has, it found no run
\* or took it out, and every run is accounted for.
LaunchInv ==
    "launch" \notin overlap =>
        /\ \A c, d \in Callers : c # d => ~(Decided(job[c]) /\ Decided(job[d]))
        /\ \A c \in Callers : Busy(c) /\ (job[c].at \in Launching \/ Emptied(job[c])) => cur = 0
        /\ \A n \in Runs : hashOf[n] # None => n = cur \/ \E c \in Callers : Busy(c) /\ job[c].run = n
        /\ usage = CurrentRun

\* Unless a launch overlapped another or a stop: the routes are those of the run,
\* or of the call that is launching; a call that is stopping is alone to touch them.
RouteInv ==
    overlap \cap {"launch", "stop"} = {} =>
        /\ \A c, d \in Callers : Doing(d, Stopping) =>
              /\ cur = 0
              /\ ~Doing(c, Launching)
              /\ Doing(c, Stopping) => c = d
        /\ \A c \in Callers : Doing(c, {"boot", "undo", "enter"}) => routes = job[c].spec.hash
        /\ (\A c \in Callers : ~Doing(c, {"boot", "undo", "enter"} \union Stopping)) =>
              {routes} \ {None} = CurrentRun

\* From the entry's removal, or the change, to the row that says so.
Pending == {"cancel", "unroute", "snapshot", "save"}

\* Unless the row is excepted: a snapshot on its way says what is true, and once the
\* process has restored, the row is right or some call is going to persist.
RowInv ==
    /\ ~up /\ Quiet => spec = None
    /\ "row" \notin overlap =>
          /\ \A c \in Callers : Doing(c, {"save"}) => job[c].snap = [spec |-> spec, running |-> cur # 0]
          /\ up \/ (\E c \in Callers : Busy(c) /\ job[c].at \notin {"resolve", "insert"}) =>
                /\ spec = None => row = None
                /\ \/ spec = None
                   \/ row # None /\ row.running = (cur # 0)
                   \/ \E c \in Callers : Doing(c, Pending)

\* A restart that is owed a run is on its way to it.
Due(j) ==
    \/ j.at \in {"resolve", "insert"} /\ j.was
    \/ j.at \in {"snapshot", "save"} /\ j.then = "lookup" /\ spec # None
    \/ j.at = "lookup" /\ spec # None
    \/ j.at \in {"check", "register", "boot", "enter"}
    \/ j.at \in {"snapshot", "save"} /\ j.then = "end" /\ cur # 0
    \/ j.at = "end" /\ cur # 0

OwedInv ==
    owed => IF up THEN Quiet /\ cur # 0
            ELSE /\ Quiet => row # None /\ row.running
                 /\ \A c \in Callers : Busy(c) => Due(job[c])

LambdaInv == LambdaTypeOK /\ JobInv /\ RunInv /\ LaunchInv /\ RouteInv /\ RowInv /\ OwedInv
===============================================================================
