----------------------------- MODULE BackupRestore -----------------------------
(* The context backup of the control API (http/backup_handlers.go): an export of the
   providers, the lambdas and the risk limits, and a restore that first looks and
   then removes, updates and creates, one call of the managers at a time, while other
   clients change the same things.

   A name is found by its lower-case form in some places and as it is spelt in others:
   names of one Key differ in their spelling.  Whether a lambda runs, and the rows,
   are LambdaManager's; subscriptions are Routing's. *)
EXTENDS FiniteSets, Naturals, Functions

CONSTANTS
    ProviderNames, LambdaNames,
    Key,            \* the lower-case form of a name
    BaseProviders,  \* keys of the providers of the configuration file
    Registered,     \* names of strategies
    Unresolved,     \* references that the loader cannot resolve
    Written,        \* backups written by hand
    Created,        \* specifications of lambdas that clients create
    Manifest,       \* the lambdas of the configuration file
    MaxCalls,       \* bound: requests of other clients
    Default, Nil

ProviderSpecs == [version : {"a", "b"}, secret : BOOLEAN]

ASSUME BackupAssumption ==
    /\ Nil \notin ProviderNames /\ Default # Nil /\ MaxCalls \in Nat
    /\ \A backup \in Written :
          backup.providers \in UNION {[S -> ProviderSpecs] : S \in SUBSET ProviderNames}

VARIABLES
    providers, lambdas,     \* what the managers hold, by name
    baseline,               \* keys of the lambdas of the configuration file
    limits,
    launched,               \* providers whose start is under way
    deleting, enabling,     \* DELETE and POST of a provider between their two calls
    saved,                  \* an export
    phase, plan, todo, current, gone,  \* the restore; its client has left
    calls, mutated, disturbed   \* history: the restore has changed something; keys of what others
                                \* have, during it

managers == <<providers, lambdas, baseline, limits>>
others == <<launched, deleting, enabling>>
history == <<calls, mutated, disturbed>>
backupVars == <<managers, others, saved, phase, plan, todo, current, gone, history>>

\* Credentials never leave: a specification is a version and whether it has them.
SanitizeProviderSpec(spec) == [spec EXCEPT !.secret = FALSE]

Dynamic(p) == Key[p] \notin BaseProviders
KeysOf(S) == {Key[x] : x \in S}

\* buildContextBackup.  ensureSpec has left a strategy's bare name in the identifier.
Export ==
    [providers |-> [p \in {q \in DOMAIN providers : Dynamic(q)} |-> SanitizeProviderSpec(providers[p].spec)],
     lambdas |-> [l \in {k \in DOMAIN lambdas : Key[k] \notin baseline} |-> lambdas[l]],
     limits |-> limits]

\* ensureSpec: the reference is resolved, the specification keeps the bare name.
Ensured(spec) ==
    [on |-> spec.on,
     identifier |-> [spec.identifier EXCEPT !.revision = Default],
     selector |-> spec.identifier]

NoBackup == [providers |-> <<>>, lambdas |-> <<>>, limits |-> Nil]

BackupInit ==
    /\ providers \in {[p \in S |-> [spec |-> [version |-> "a", secret |-> TRUE], status |-> "stopped"]] :
                          S \in {T \in SUBSET ProviderNames : BaseProviders \subseteq KeysOf(T)}}
    /\ \E S \in SUBSET (LambdaNames \ DOMAIN Manifest), spec \in Created :
         lambdas = [l \in S \union DOMAIN Manifest |-> Ensured(IF l \in S THEN spec ELSE Manifest[l])]
    /\ baseline = KeysOf(DOMAIN Manifest) /\ limits = "old"
    /\ launched = {} /\ deleting = {} /\ enabling = {}
    /\ saved = NoBackup
    /\ phase = "idle" /\ plan = NoBackup /\ todo = {} /\ current = Nil /\ gone = FALSE
    /\ calls = 0 /\ mutated = FALSE /\ disturbed = {}

-------------------------------------------------------------------------------
(* The managers *)

Status(p) == IF p \in DOMAIN providers THEN providers[p].status ELSE "absent"
With(f, x, value) == [y \in DOMAIN f \union {x} |-> IF y = x THEN value ELSE f[y]]
Lose(f, x) == Restrict(f, DOMAIN f \ {x})
Put(p, spec, status) == providers' = With(providers, p, [spec |-> spec, status |-> status])

\* stopProviderLocked
Halted(status) == IF status = "running" THEN "stopped" ELSE status

CreateProvider(p, spec) == Status(p) = "absent" /\ Put(p, spec, "pending")
UpdateProvider(p, spec) == Status(p) \notin {"absent", "starting"} /\ Put(p, spec, Halted(Status(p)))
PrepareStart(p) ==
    /\ Status(p) \notin {"absent", "starting", "running"}
    /\ providers' = [providers EXCEPT ![p].status = "starting"]
    /\ launched' = launched \union {p}

Creatable(l, spec) ==
    l \notin DOMAIN lambdas /\ spec.identifier \notin Unresolved /\ spec.identifier.name \in Registered

CreateLambda(l, spec) ==
    /\ Creatable(l, spec)
    /\ lambdas' = With(lambdas, l, Ensured(spec))
    /\ baseline' = baseline \ {Key[l]}

RemoveLambda(l) ==
    /\ lambdas' = Lose(lambdas, l)
    /\ baseline' = IF l \in DOMAIN lambdas THEN baseline \ {Key[l]} ELSE baseline

\* instancesUsingProvider
Used(p) == \E l \in DOMAIN lambdas :
    Key[l] \notin baseline /\ \E q \in lambdas[l].on : Key[q] = Key[p]

-------------------------------------------------------------------------------
(* Other clients: handleProviderResource, handleProviderAction, createProvider,
   createInstance, handleInstanceResource, updateRiskLimits *)

Ended == phase \in {"done", "failed", "rejected"}
Restoring == phase # "idle" /\ ~Ended

\* What others do to a key is noted while a restore is under way; what they do when it
\* has ended is nobody's concern.
Disturbs(key) == ~Ended /\ disturbed' = IF Restoring THEN disturbed \union {key} ELSE disturbed
Calls(key) == calls < MaxCalls /\ calls' = calls + 1 /\ Disturbs(key) /\ UNCHANGED mutated
Follows(key) == Disturbs(key) /\ UNCHANGED <<calls, mutated>>
Bystanders == <<saved, phase, plan, todo, current, gone>>

PostProvider(p) ==
    /\ Calls(Key[p])
    /\ CreateProvider(p, [version |-> "a", secret |-> TRUE])
    /\ enabling' \in {enabling, enabling \union {p}}
    /\ UNCHANGED <<lambdas, baseline, limits, launched, deleting, Bystanders>>

PutProvider(p) ==
    /\ Calls(Key[p])
    /\ UpdateProvider(p, [version |-> "b", secret |-> TRUE])
    /\ enabling' \in {enabling, enabling \union {p}}
    /\ UNCHANGED <<lambdas, baseline, limits, launched, deleting, Bystanders>>

\* The second call of either; it may find the provider gone or starting.
EnableProvider(p) ==
    /\ p \in enabling /\ enabling' = enabling \ {p}
    /\ Follows(Key[p])
    /\ \/ PrepareStart(p)
       \/ Status(p) \in {"absent", "starting", "running"} /\ UNCHANGED <<providers, launched>>
    /\ UNCHANGED <<lambdas, baseline, limits, deleting, Bystanders>>

StartProvider(p) ==
    /\ Calls(Key[p]) /\ PrepareStart(p)
    /\ UNCHANGED <<lambdas, baseline, limits, deleting, enabling, Bystanders>>

\* recordProviderStartSuccess, recordProviderStartFailure: under the name, whatever
\* has become of the provider.  Nobody's request: it disturbs a restore all the same.
Started(p) ==
    /\ p \in launched /\ launched' = launched \ {p}
    /\ Follows(Key[p])
    /\ \E status \in {"running", "failed"} :
         providers' = IF p \in DOMAIN providers THEN [providers EXCEPT ![p].status = status] ELSE providers
    /\ UNCHANGED <<lambdas, baseline, limits, deleting, enabling, Bystanders>>

StopProvider(p) ==
    /\ Calls(Key[p]) /\ Status(p) = "running"
    /\ providers' = [providers EXCEPT ![p].status = "stopped"]
    /\ UNCHANGED <<lambdas, baseline, limits, others, Bystanders>>

\* DELETE asks the lambda manager first, and then removes.
CheckDelete(p) ==
    /\ Calls(Key[p]) /\ ~Used(p)
    /\ deleting' = deleting \union {p}
    /\ UNCHANGED <<managers, launched, enabling, Bystanders>>

DeleteProvider(p) ==
    /\ p \in deleting /\ deleting' = deleting \ {p}
    /\ Follows(Key[p])
    /\ providers' = Lose(providers, p)
    /\ UNCHANGED <<lambdas, baseline, limits, launched, enabling, Bystanders>>

PostInstance(l) ==
    /\ Calls(Key[l])
    /\ \E spec \in Created : CreateLambda(l, spec)
    /\ UNCHANGED <<providers, limits, others, Bystanders>>

DeleteInstance(l) ==
    /\ Calls(Key[l]) /\ l \in DOMAIN lambdas
    /\ RemoveLambda(l)
    /\ UNCHANGED <<providers, limits, others, Bystanders>>

PutLimits ==
    /\ Calls("limits") /\ limits' = IF limits = "old" THEN "new" ELSE "old"
    /\ UNCHANGED <<providers, lambdas, baseline, others, Bystanders>>

OtherClients ==
    \/ \E p \in ProviderNames :
         \/ PostProvider(p) \/ PutProvider(p) \/ EnableProvider(p) \/ StartProvider(p) \/ Started(p)
         \/ StopProvider(p) \/ CheckDelete(p) \/ DeleteProvider(p)
    \/ \E l \in LambdaNames : PostInstance(l) \/ DeleteInstance(l)
    \/ PutLimits

-------------------------------------------------------------------------------
(* handleContextBackupExport, handleContextBackupRestore *)

\* The backup is kept by the client, for the one restore.
TakeBackup ==
    /\ phase = "idle" /\ saved = NoBackup /\ saved' = Export
    /\ UNCHANGED <<managers, others, phase, plan, todo, current, gone, history>>

\* The client may go away; only the calls that look at its context notice.
Leave ==
    /\ Restoring /\ ~gone /\ gone' = TRUE
    /\ UNCHANGED <<managers, others, saved, phase, plan, todo, current, history>>

\* What is in a backup and is not of the configuration file.
PlannedProviders == {p \in DOMAIN plan.providers : Dynamic(p)}
PlannedLambdas == {l \in DOMAIN plan.lambdas : Key[l] \notin baseline}

Receive ==
    /\ phase = "idle"
    /\ plan' \in Written \union (IF saved = NoBackup THEN {} ELSE {saved})
    /\ phase' = "preflight"
    /\ UNCHANGED <<managers, others, saved, todo, current, gone, history>>

TwoSpellings(names) == \E x, y \in names : x # y /\ Key[x] = Key[y]

\* validateContextBackupProviderReferences
Dangling == \E l \in DOMAIN plan.lambdas :
    LET on == plan.lambdas[l].on
    IN  on = {} \/ \E p \in on : Dynamic(p) /\ Key[p] \notin KeysOf(PlannedProviders)

\* validateContextBackupProviderRemovals: nothing that is not already Dangling.
InUse == \E p \in DOMAIN providers :
    /\ Dynamic(p) /\ Key[p] \notin KeysOf(PlannedProviders)
    /\ \E l \in PlannedLambdas : Key[p] \in KeysOf(plan.lambdas[l].on)

\* validateContextBackupProviderApply
StartUnderWay == \E p \in PlannedProviders : Status(p) = "starting"

\* Mutant: strategies are looked up when their lambdas are created.
Unknown_Late == FALSE

\* validateContextBackupLambdaApply: only the name is looked up.
Unknown == \E l \in PlannedLambdas : plan.lambdas[l].identifier.name \notin Registered

Refused ==
    \/ gone \/ TwoSpellings(DOMAIN plan.providers) \/ TwoSpellings(DOMAIN plan.lambdas)
    \/ Dangling \/ InUse \/ StartUnderWay \/ Unknown

\* Mutant: a restore adds to what is there.
Obsolete_None(names, kept) == {}

\* Instances and SanitizedProviderSpecs: copies, gone through without a lock.
Obsolete(names, kept) == {x \in names : Key[x] \notin KeysOf(kept)}

EnterPhase(next, work) == phase' = next /\ todo' = work /\ UNCHANGED managers
Fails == EnterPhase("failed", {})
Worked(x) == todo' = todo \ {x} /\ UNCHANGED phase

Preflight ==
    /\ phase = "preflight"
    /\ IF Refused THEN EnterPhase("rejected", {})
       ELSE EnterPhase("lambdas", Obsolete({l \in DOMAIN lambdas : Key[l] \notin baseline}, DOMAIN plan.lambdas))
    /\ UNCHANGED current

\* applyContextBackupPlan, loop by loop: an error ends it where it is.
RemoveLambdas ==
    /\ phase = "lambdas"
    /\ \/ todo = {} /\ EnterPhase("providers", Obsolete({p \in DOMAIN providers : Dynamic(p)}, PlannedProviders))
       \/ \E l \in todo : RemoveLambda(l) /\ Worked(l) /\ UNCHANGED <<providers, limits>>
    /\ UNCHANGED current

RemoveProviders ==
    /\ phase = "providers"
    /\ \/ todo = {} /\ EnterPhase("apply", PlannedProviders)
       \/ \E p \in todo :
            providers' = Lose(providers, p) /\ Worked(p) /\ UNCHANGED <<lambdas, baseline, limits>>
    /\ UNCHANGED current

Planned(p) == SanitizeProviderSpec(plan.providers[p])

\* A provider that is there is stopped, then updated; one that is not is created.
StopCurrent(p) ==
    /\ Status(p) # "absent"
    /\ providers' = [providers EXCEPT ![p].status = Halted(@)]
    /\ current' = p

ApplyProviders ==
    /\ phase = "apply" /\ current = Nil
    /\ \/ todo = {} /\ EnterPhase("prepare", PlannedLambdas) /\ UNCHANGED current
       \/ \E p \in todo :
            \/ StopCurrent(p) /\ Worked(p) /\ UNCHANGED <<lambdas, baseline, limits>>
            \/ /\ ~gone /\ CreateProvider(p, Planned(p)) /\ Worked(p)
               /\ UNCHANGED <<lambdas, baseline, limits, current>>
            \/ gone /\ Status(p) = "absent" /\ Fails /\ UNCHANGED current

UpdateCurrent ==
    /\ phase = "apply" /\ current # Nil /\ current' = Nil
    /\ \/ ~gone /\ UpdateProvider(current, Planned(current)) /\ UNCHANGED <<lambdas, baseline, limits, phase, todo>>
       \/ (gone \/ Status(current) \in {"absent", "starting"}) /\ Fails

PrepareLambdas ==
    /\ phase = "prepare"
    /\ \/ todo = {} /\ EnterPhase("create", PlannedLambdas)
       \/ \E l \in todo : RemoveLambda(l) /\ Worked(l) /\ UNCHANGED <<providers, limits>>
    /\ UNCHANGED current

CreateLambdas ==
    /\ phase = "create"
    /\ \/ todo = {} /\ EnterPhase("risk", {})
       \/ \E l \in todo :
            \/ CreateLambda(l, plan.lambdas[l]) /\ Worked(l) /\ UNCHANGED <<providers, limits>>
            \/ ~Creatable(l, plan.lambdas[l]) /\ Fails
    /\ UNCHANGED current

ApplyRisk ==
    /\ phase = "risk" /\ phase' = "done"
    /\ limits' = IF plan.limits = Nil THEN limits ELSE plan.limits
    /\ UNCHANGED <<providers, lambdas, baseline, todo, current>>

ApplyBackup ==
    /\ \/ Preflight \/ RemoveLambdas \/ RemoveProviders \/ ApplyProviders \/ UpdateCurrent
       \/ PrepareLambdas \/ CreateLambdas \/ ApplyRisk
    /\ mutated' = (mutated \/ managers' # managers)
    /\ UNCHANGED <<others, saved, plan, gone, calls, disturbed>>

BackupNext == OtherClients \/ TakeBackup \/ Leave \/ Receive \/ ApplyBackup
BackupSpec == BackupInit /\ [][BackupNext]_backupVars

-------------------------------------------------------------------------------
(* Properties *)

\* A restore that succeeds leaves of everything that no other client has touched, in any
\* spelling, since it began what the backup says, and nothing else; and each lambda it creates finds its
\* providers, whatever was there.  Excepted is a name that the backup, or what is there,
\* has in two spellings.  A lambda follows the identifier of the backup, which in an
\* export is the bare name: its selector is lost.
Names(backup) ==
    DOMAIN backup.providers \union DOMAIN backup.lambdas
        \union UNION {backup.lambdas[l].on : l \in DOMAIN backup.lambdas}
IsLeft(x) == Key[x] \notin disturbed
Untouched(f) == Restrict(f, {x \in DOMAIN f : IsLeft(x)})

Restored ==
    phase = "done" /\ ~TwoSpellings(Names(Export) \union Names(plan)) =>
        /\ Untouched(Export.providers) = Untouched([p \in PlannedProviders |-> Planned(p)])
        /\ Untouched(Export.lambdas) = Untouched([l \in PlannedLambdas |-> Ensured(plan.lambdas[l])])
        /\ plan.limits \in {Nil, limits} \/ "limits" \in disturbed
        /\ \A l \in {k \in PlannedLambdas : IsLeft(k)} : \A p \in lambdas[l].on :
             IsLeft(p) /\ Dynamic(p) => Status(p) # "absent"

\* A restore that fails has changed nothing, unless another client touched what it is
\* to restore or its own went away.  A reference whose name is known but which cannot
\* be resolved is the exception: only the creation finds that out.
FailureLeavesAlone ==
    phase = "failed" /\ mutated =>
        \/ gone \/ (\E x \in PlannedProviders \union PlannedLambdas : ~IsLeft(x))
        \/ \E l \in PlannedLambdas : plan.lambdas[l].identifier \in Unresolved
================================================================================
