---------------------------- MODULE MCLambdaManager ----------------------------
(* What the control API keeps, in one run: the lambda manager and the context backup.
   `side` says which of the two moves; the other stays in one initial state. *)
EXTENDS LambdaManager, BackupRestore, TLC

CONSTANTS base, p1, P1, boot, l1, L1

VARIABLE side

\* p1 and P1, and l1 and L1, differ in their spelling.
LowerCase == [x \in {base, p1, P1, boot, l1, L1} |-> IF x = P1 THEN p1 ELSE IF x = L1 THEN l1 ELSE x]
Ref(name, revision) == [name |-> name, revision |-> revision]
Lambda(on, ref) == [on |-> on, identifier |-> ref, selector |-> ref]
Pinned == Ref("grid", "old")
Lost == Ref("grid", "lost")
Strange == Ref("gone", Default)

\* A provider with its credentials, in either spelling; lambdas that can be restored,
\* that name another provider, or a strategy or a revision that is not there.
ABackup(p, l, given) ==
    [providers |-> p :> [version |-> "b", secret |-> TRUE], lambdas |-> l :> given, limits |-> Nil]
ByHand ==
    {ABackup(p1, l1, Lambda({p1, base}, ref)) : ref \in {Pinned, Lost, Strange}}
        \union {ABackup(P1, L1, Lambda({p1}, Pinned)), ABackup(base, l1, Lambda({p1}, Pinned)),
                ABackup(base, l1, Lambda({base}, Pinned))}

Creatables == {Lambda({p1}, Pinned)}
Configured == boot :> Lambda({base}, Ref("grid", Default))
Losts == {Lost}

LambdaInit ==
    /\ side \in {"lambda", "backup"}
    /\ Init /\ BackupInit
    /\ side # "backup" => DOMAIN providers = {base} /\ DOMAIN lambdas = {boot}
    /\ side = "backup" => DOMAIN providers \in {{base, p1}, {base, P1}} /\ L1 \notin DOMAIN lambdas

LambdaNext ==
    \/ side = "lambda" /\ Next /\ UNCHANGED <<side, backupVars>>
    \/ side = "backup" /\ BackupNext /\ UNCHANGED <<side, vars>>
    \/ Ended /\ UNCHANGED <<side, vars, backupVars>>  \* nobody need ask again

LambdaSpec == LambdaInit /\ [][LambdaNext]_<<side, vars, backupVars>>

\* Callers and revisions are interchangeable.
Symmetry == Permutations(Callers) \union Permutations(Hashes)
===============================================================================
