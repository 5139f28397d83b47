--------------------------- MODULE StrategyRegistry ---------------------------
(* The revisions of one JavaScript strategy (app/lambda/js/loader.go): registry.json  *)
(* and the files it names, the copy of both in memory with its cache of resolutions,  *)
(* and the instances that pin a revision (app/lambda/runtime/strategy_modules.go).    *)
(* A request of the control API reads registry.json, changes its copy and writes it   *)
(* back without a lock, so that requests overlap at every step below.                 *)
(*                                                                                    *)
(* A selector is the bare name, a tag ("name:tag") or a revision ("name@hash").  What *)
(* a source compiles to, sizes and metadata other than the tag are left out, and so   *)
(* is the eviction from the cache.  The instance's life is that of LambdaManager.tla; *)
(* here it starts and stops in one step.                                              *)
EXTENDS Integers, FiniteSets

CONSTANTS
    Clients,      \* requests that may be under way at once
    Revisions,    \* sources that may be uploaded, by their hash
    Tags,         \* "latest" among them
    BuildTag,     \* the tag in the metadata of each source
    None,         \* no revision, no tag, no instance
    MaxCalls,     \* bound: requests
    MaxBreaks     \* bound: failed writes and removals

ASSUME RegistryAssumption ==
    /\ "latest" \in Tags /\ "name" \notin Tags \union Revisions /\ Tags \intersect Revisions = {}
    /\ BuildTag \in [Revisions -> Tags \ {"latest"}]
    /\ None \notin {"name"} \union Revisions \union Tags
    /\ None \notin [sel : {"name"} \union Tags \union Revisions, rev : Revisions]
    /\ MaxCalls \in Nat /\ MaxBreaks \in Nat

VARIABLES
    registry,     \* registry.json: the strategy's tags, and its revisions with their tag
    files,        \* the revisions whose file exists
    mem,          \* the loader: tags, modules (with their tag), byName
    cache,        \* resolutionCache
    spec, run,    \* the instance's specification, and the revision that runs
    job,          \* the request of each client
    calls, breaks,
    muddled,      \* a write failed half-way, or replaced a registry that had been written since it was read
    crossed,      \* since the instance was started a refresh has replaced a specification, or
                  \* passed over a start or stop, it had not read
    synced        \* the selector by which the last request, a refresh that was alone, found
                  \* the instance's revision, or None

diskVars == <<registry, files>>
memVars == <<mem, cache>>
runVars == <<spec, run>>
registryVars == <<diskVars, memVars, runVars, job, calls, breaks, muddled, crossed, synced>>

Selectors == {"name"} \union Tags \union Revisions
NoEntry == [tags |-> [t \in Tags |-> None], revs |-> [r \in Revisions |-> None]]
NoRequest == [op |-> "none"]

Listed(entry) == {r \in Revisions : entry.revs[r] # None}
\* A strategy without revisions is taken out of the registry, tags and all.
Tidy(entry) == IF Listed(entry) = {} THEN NoEntry ELSE entry

-------------------------------------------------------------------------------
(* The loader's memory *)

Loaded == {r \in Revisions : mem.mods[r] # None}
EmptyCache == [s \in Selectors |-> None]

\* The module byName: the one of "latest", or the first of the others.
Default(entry) ==
    IF entry.tags["latest"] # None THEN entry.tags["latest"]
    ELSE IF Listed(entry) = {} THEN None ELSE CHOOSE r \in Listed(entry) : TRUE

\* refreshFromRegistry, once every module is compiled.
FromRegistry(entry) ==
    [tags |-> IF Listed(entry) = {} THEN NoEntry.tags ELSE entry.tags,
     mods |-> entry.revs, default |-> Default(entry)]

\* "latest" stands for byName when it is not among the tags.
TagResolved(t) ==
    IF mem.tags[t] # None THEN mem.tags[t]
    ELSE IF t = "latest" THEN mem.default ELSE None

\* What ResolveReference finds when the cache has nothing.
Resolution(sel) ==
    LET r == CASE sel = "name" -> mem.default [] sel \in Tags -> TagResolved(sel) [] OTHER -> sel IN
    IF r \in Loaded THEN r ELSE None

Resolved(sel) == IF cache[sel] # None THEN cache[sel] ELSE Resolution(sel)
\* Errors are not cached.
Remember(sel) == cache' = [cache EXCEPT ![sel] = Resolved(sel)]

\* canonicalSelector: of a tag it keeps the module's own.
Canonical(sel, r) == IF sel \in Tags THEN mem.mods[r] ELSE sel

ForgetResolutions == cache' = EmptyCache

\* applyRegistryTagUpdate: the tags of the copy, and byName if its module is loaded.
ApplyTags(entry) ==
    /\ mem' = [mem EXCEPT !.tags = entry.tags,
                          !.default = IF entry.tags["latest"] \in Loaded
                                      THEN entry.tags["latest"] ELSE @]
    /\ ForgetResolutions

-------------------------------------------------------------------------------
(* Requests *)

Request(op, at) ==
    [op |-> op, at |-> at, sel |-> "name", tag |-> "latest", rev |-> None, keep |-> FALSE,
     again |-> FALSE, base |-> NoEntry, copy |-> NoEntry, todo |-> {}, was |-> FALSE,
     of |-> None, alone |-> TRUE, stale |-> FALSE]

Upload == {[Request("upload", "load") EXCEPT !.rev = r] : r \in Revisions}
Assign(t, r, again) == [Request("assign", "load") EXCEPT !.tag = t, !.rev = r, !.again = again]
PutTag == {Assign(t, r, again) : t \in Tags, r \in Revisions, again \in BOOLEAN}
\* keep: the guard against orphans is on.
Untag(t, keep) == [Request("untag", "load") EXCEPT !.tag = t, !.keep = keep]
DeleteTag == {Untag(t, keep) : t \in Tags \ {"latest"}, keep \in BOOLEAN}
DeleteModule == {[Request("remove", "check") EXCEPT !.sel = s] : s \in Selectors}
Refresh == {[Request("refresh", "load") EXCEPT !.sel = s] : s \in Selectors}
PostInstance == {[Request("create", "resolve") EXCEPT !.sel = s] : s \in Selectors}
Requests == Upload \union PutTag \union DeleteTag \union DeleteModule \union Refresh \union PostInstance

Busy(c) == job[c] # NoRequest
NoneUnderWay == \A c \in Clients : ~Busy(c)
At(c, step) == Busy(c) /\ job[c].at = step
Go(c, j, step) == job' = [job EXCEPT ![c] = IF step = "end" THEN NoRequest ELSE [j EXCEPT !.at = step]]
Counted == calls < MaxCalls /\ calls' = calls + 1
Break == breaks < MaxBreaks /\ breaks' = breaks + 1

\* loadRegistry, and what the request checks in what it has read.
AfterLoad(j) ==
    LET tagged == {t \in Tags : j.base.tags[t] = j.base.tags[j.tag]} IN
    CASE j.op = "upload"  -> "persist"
      [] j.op = "refresh" -> "compile"
      [] j.op = "remove"  -> IF j.todo \intersect Listed(j.base) # {} THEN "unlink" ELSE "end"
      [] j.op = "assign"  -> IF j.rev \in Listed(j.base) THEN "write" ELSE "end"
      [] OTHER -> IF j.base.tags[j.tag] = None \/ (j.keep /\ tagged = {j.tag}) THEN "end" ELSE "write"

\* Mutant: tags that point to a removed revision stay.
Without_TagsKept(entry, gone) ==
    Tidy([entry EXCEPT !.revs = [r \in Revisions |-> IF r \in gone THEN None ELSE @[r]]])

\* deleteWithRegistry: the revisions and every tag that points to them.
Without(entry, gone) ==
    Tidy([tags |-> [t \in Tags |-> IF entry.tags[t] \in gone THEN None ELSE entry.tags[t]],
          revs |-> [r \in Revisions |-> IF r \in gone THEN None ELSE entry.revs[r]]])

\* writeModuleWithRegistry, with PromoteLatest.
Stored(entry, r) ==
    [tags |-> [entry.tags EXCEPT !["latest"] = r, ![BuildTag[r]] = r],
     revs |-> [entry.revs EXCEPT ![r] = BuildTag[r]]]

\* What the request writes.
Change(j) ==
    CASE j.op = "upload" -> Stored(j.base, j.rev)
      [] j.op = "assign" -> [j.base EXCEPT !.tags[j.tag] = j.rev]
      [] j.op = "untag"  -> [j.base EXCEPT !.tags[j.tag] = None]
      [] j.op = "remove" -> Without(j.base, j.todo)
      [] OTHER -> j.base

\* The revisions a removal is about, by the registry it has read.
Removed(j) ==
    IF j.sel = "name" THEN Listed(j.base)
    ELSE IF j.sel \in Tags THEN {j.base.tags[j.sel]} \ {None} ELSE {j.sel}

\* The request once it has read the registry.
Reading(request) ==
    LET read == [request EXCEPT !.base = registry, !.stale = FALSE]
        j == IF read.op = "remove" THEN [read EXCEPT !.todo = Removed(read)] ELSE read
    IN IF AfterLoad(j) = "end" THEN NoRequest ELSE [j EXCEPT !.copy = Change(j), !.at = AfterLoad(j)]

\* Requests that were under way before are no longer alone.
Begin(c) ==
    /\ ~Busy(c) /\ Counted
    /\ \E j \in Requests :
           LET k == [j EXCEPT !.alone = NoneUnderWay] IN
           job' = [d \in Clients |-> IF d = c THEN (IF j.at = "load" THEN Reading(k) ELSE k)
                                     ELSE IF Busy(d) THEN [job[d] EXCEPT !.alone = FALSE] ELSE NoRequest]
    /\ synced' = None
    /\ UNCHANGED <<diskVars, memVars, runVars, breaks, muddled, crossed>>

Load(c) ==
    /\ At(c, "load")
    /\ job' = [job EXCEPT ![c] = Reading(@)]
    /\ UNCHANGED <<diskVars, memVars, runVars, calls, breaks, muddled, crossed, synced>>

\* persistRevisionFile: a file the registry knows of and that exists is used again,
\* any other is moved into its place.
Persist(c) ==
    /\ At(c, "persist")
    /\ files' = files \union {job[c].rev}
    /\ Go(c, job[c], "write")
    /\ UNCHANGED <<registry, memVars, runVars, calls, breaks, muddled, crossed, synced>>

\* removeModuleFiles, for one revision after the other.
Unlink(c) ==
    /\ At(c, "unlink")
    /\ \E r \in job[c].todo :
           LET rest == job[c].todo \ {r} IN
           /\ files' = files \ {r}
           /\ Go(c, [job[c] EXCEPT !.todo = rest], IF rest = {} THEN "write" ELSE "unlink")
    /\ UNCHANGED <<registry, memVars, runVars, calls, breaks, muddled, crossed, synced>>

\* writeRegistryFile: a temporary file, renamed.  What other requests have read of the
\* registry is stale from now on.
AfterWrite(j) == IF j.op \in {"assign", "untag"} THEN "apply" ELSE "end"

Write(c) ==
    /\ At(c, "write")
    /\ registry' = job[c].copy
    /\ muddled' = (muddled \/ job[c].stale)
    /\ job' = [d \in Clients |-> IF d # c THEN (IF Busy(d) THEN [job[d] EXCEPT !.stale = TRUE] ELSE NoRequest)
                              ELSE IF AfterWrite(job[c]) = "end" THEN NoRequest
                              ELSE [job[c] EXCEPT !.at = "apply"]]
    /\ UNCHANGED <<files, memVars, runVars, calls, breaks, crossed, synced>>

\* A file cannot be written, removed or renamed: the request ends where it is.
Fails(c) ==
    /\ \E step \in {"persist", "unlink", "write"} : At(c, step)
    /\ Break /\ muddled' = (muddled \/ job[c].op = "remove")
    /\ Go(c, job[c], "end")
    /\ UNCHANGED <<diskVars, memVars, runVars, calls, crossed, synced>>

\* The tags of the copy take effect in memory; a tag that has moved is followed by a
\* refresh of the strategy.
Apply(c) ==
    LET j == job[c] IN
    /\ At(c, "apply")
    /\ ApplyTags(j.copy)
    /\ IF j.again /\ j.base.tags[j.tag] # j.rev
       THEN Go(c, [Request("refresh", "load") EXCEPT !.alone = j.alone], "load") ELSE Go(c, j, "end")
    /\ UNCHANGED <<diskVars, runVars, calls, breaks, muddled, crossed, synced>>

\* Mutant: the revisions are not compared.
InUse_NameOnly(sel) == spec # None /\ sel = "name"

\* RemoveStrategy: a revision or a tag is resolved in memory, and what a
\* specification refers to is in use.
InUse(sel) == spec # None /\ (sel = "name" \/ spec.rev = Resolved(sel))

CheckUse(c) ==
    LET j == job[c] IN
    /\ At(c, "check")
    /\ IF j.sel = "name" THEN UNCHANGED cache ELSE Remember(j.sel)
    /\ Go(c, j, IF InUse(j.sel) \/ (j.sel # "name" /\ Resolved(j.sel) = None) THEN "end" ELSE "load")
    /\ UNCHANGED <<diskVars, mem, runVars, calls, breaks, muddled, crossed, synced>>

-------------------------------------------------------------------------------
(* Refresh and the instance *)

\* Every file the registry names must load, and "latest" be one of them.
Compiles(entry) ==
    /\ Listed(entry) \subseteq files
    /\ Listed(entry) # {} => entry.tags["latest"] \in Listed(entry) \union {None}

Compile(c) ==
    /\ At(c, "compile")
    /\ Go(c, job[c], IF Compiles(job[c].base) THEN "swap" ELSE "end")
    /\ UNCHANGED <<diskVars, memVars, runVars, calls, breaks, muddled, crossed, synced>>

Swap(c) ==
    /\ At(c, "swap")
    /\ mem' = FromRegistry(job[c].base) /\ ForgetResolutions
    /\ Go(c, [job[c] EXCEPT !.base = NoEntry, !.copy = NoEntry], "select")
    /\ UNCHANGED <<diskVars, runVars, calls, breaks, muddled, crossed, synced>>

\* refreshTargetFilter: everything, the strategy, a selector or a revision.
Matches(target, s) == target \in {"name", s.sel, s.rev}

Select(c) ==
    LET j == job[c] IN
    /\ At(c, "select")
    /\ IF spec # None /\ Matches(j.sel, spec)
       THEN Go(c, [j EXCEPT !.tag = spec.sel, !.rev = spec.rev,
                             !.of = spec, !.was = run # None], "resolve")
       ELSE Go(c, j, "end")
    /\ UNCHANGED <<diskVars, memVars, runVars, calls, breaks, muddled, crossed, synced>>

\* Create resolves what it was given, a refresh the selector of the specification.
Asked(j) == IF j.op = "create" THEN j.sel ELSE j.tag
AfterResolve(j, r) ==
    CASE r # None -> "pin"
      [] r = None /\ j.op = "create" -> "end"
      [] OTHER -> "stop"

Resolve(c) ==
    LET j == job[c] sel == Asked(j) r == Resolved(sel) IN
    /\ At(c, "resolve")
    /\ Remember(sel)
    /\ Go(c, [j EXCEPT !.todo = {j.rev} \ {r}, !.rev = r,
                       !.tag = IF r = None THEN @ ELSE Canonical(sel, r)], AfterResolve(j, r))
    /\ UNCHANGED <<diskVars, mem, runVars, calls, breaks, muddled, crossed, synced>>

\* Mutant: only a stopped instance is given the revision at once.
Restarts_Never(j) == FALSE

\* An instance that ran and whose revision has changed is restarted.
Restarts(j) == j.was /\ j.todo # {}

\* What a refresh that was alone went by: of the selector the specification has now,
\* a tag may be another.
Done(j) == synced' = IF j.op = "refresh" /\ j.alone THEN j.of.sel ELSE None

Pin(c) ==
    LET j == job[c] IN
    /\ At(c, "pin")
    /\ IF j.op = "create" /\ spec # None THEN UNCHANGED spec
       ELSE spec' = [sel |-> j.tag, rev |-> j.rev]
    /\ crossed' = (crossed \/ (j.op = "refresh" /\ <<spec, run # None>> # <<j.of, j.was>>))
    /\ IF Restarts(j) THEN Go(c, j, "restart") /\ UNCHANGED synced
       ELSE Go(c, j, "end") /\ Done(j)
    /\ UNCHANGED <<diskVars, memVars, run, calls, breaks, muddled>>

StartInstance == run' = IF spec # None /\ spec.rev \in Loaded THEN spec.rev ELSE None
BeginsAnew == crossed' = FALSE

Restart(c) ==
    /\ At(c, "restart")
    /\ StartInstance /\ BeginsAnew /\ Go(c, job[c], "end") /\ Done(job[c])
    /\ UNCHANGED <<diskVars, memVars, spec, calls, breaks, muddled>>

StopRetired(c) ==
    /\ At(c, "stop")
    /\ run' = None /\ BeginsAnew /\ Go(c, job[c], "end") /\ Done(job[c])
    /\ UNCHANGED <<diskVars, memVars, spec, calls, breaks, muddled>>

\* The instance is started, stopped or removed.
Control ==
    /\ Counted /\ spec # None /\ synced' = None /\ BeginsAnew
    /\ \/ run = None /\ StartInstance /\ UNCHANGED spec
       \/ run # None /\ run' = None /\ UNCHANGED spec
       \/ run' = None /\ spec' = None
    /\ job' = [c \in Clients |-> IF Busy(c) THEN [job[c] EXCEPT !.alone = FALSE] ELSE NoRequest]
    /\ UNCHANGED <<diskVars, memVars, breaks, muddled>>

-------------------------------------------------------------------------------
\* Uploads in some order and a refresh; then an instance may have been created and started.
InitialEntries ==
    {NoEntry} \union {Stored(NoEntry, r) : r \in Revisions}
        \union {Stored(Stored(NoEntry, p[1]), p[2]) : p \in Revisions \X Revisions}

RegistryInit ==
    /\ registry \in InitialEntries
    /\ files = Listed(registry) /\ mem = FromRegistry(registry) /\ cache = EmptyCache
    /\ spec \in {None} \union {[sel |-> Canonical(s, Resolution(s)), rev |-> Resolution(s)] :
                                 s \in {u \in Selectors : Resolution(u) # None}}
    /\ run \in IF spec = None THEN {None} ELSE {spec.rev}
    /\ job = [c \in Clients |-> NoRequest]
    /\ calls = 0 /\ breaks = 0 /\ muddled = FALSE /\ crossed = FALSE /\ synced = None

Disk(c) == Load(c) \/ Persist(c) \/ Unlink(c) \/ Write(c) \/ Fails(c) \/ Apply(c) \/ CheckUse(c)
Reload(c) == Compile(c) \/ Swap(c) \/ Select(c) \/ Resolve(c) \/ Pin(c) \/ Restart(c) \/ StopRetired(c)

RegistryNext == Control \/ \E c \in Clients : Begin(c) \/ Disk(c) \/ Reload(c)

RegistrySpec == RegistryInit /\ [][RegistryNext]_registryVars

-------------------------------------------------------------------------------
(* Properties *)

\* Refresh "reads registry exclusively. Entries referencing missing files trigger
\* errors", for every strategy at once: between requests a refresh succeeds, and
\* every tag names a revision, unless a removal has failed half-way or one request
\* has overwritten what another wrote since it read the registry.
RegistryLoads ==
    ~muddled /\ (\A c \in Clients : ~Busy(c) \/ job[c].at \in {"load", "check"}) =>
        /\ Compiles(registry)
        /\ \A t \in Tags : registry.tags[t] \in Listed(registry) \union {None}

\* After a refresh that was alone the specification it covers, if the instance runs, has
\* the revision that the selector it had has in registry.json, however requests before it
\* overlapped.  The instance runs that revision too, unless it has been running since a
\* refresh wrote its specification over another request's: later refreshes compare only
\* specifications, and leave it until it is started again.  (Of a tag the specification
\* keeps the one in the module's metadata, which may stand for another revision.)
RunsWhatIsTagged ==
    synced # None /\ run # None /\ spec # None =>
        /\ spec.rev = CASE synced = "name" -> Default(registry)
                        [] synced \in Tags -> IF registry.tags[synced] # None THEN registry.tags[synced]
                                              ELSE Default(registry)
                        [] OTHER -> synced
        /\ crossed \/ run = spec.rev

\* "Deleting a revision is blocked while any running instance still pins that hash":
\* the removal of the strategy or of a revision by its hash, checked in memory and done
\* on disk, never takes away what the instance runs, if no request and no call for the
\* instance overlaps the removal and the instance has not been running since a refresh
\* crossed another change.  The three exceptions are real: removals by tag (the
\* registry's may point elsewhere than the one in memory), removals that something
\* overlaps, and instances that run another revision than their specification's.
RunningStays ==
    [][\A c \in Clients :
          At(c, "write") /\ job[c].op = "remove" /\ job[c].sel \notin Tags /\ job[c].alone /\ ~crossed
          /\ registry' # registry /\ run \in Listed(registry) => run \in Listed(registry')]_registryVars
===============================================================================
