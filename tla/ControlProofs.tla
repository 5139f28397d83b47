----------------------------- MODULE ControlProofs -----------------------------
(* What the control API relies on.  First the registry of strategies: between        *)
(* requests it loads, and the instance runs what its selector stands for, for any    *)
(* revisions, tags and clients and any number of requests and failures.  Then the    *)
(* provider's starts and stops and the routes of the lambdas, for any lambdas, types *)
(* and symbols, number of starts and number of failures.                             *)
EXTENDS Routing, StrategyRegistry, TLAPS

-------------------------------------------------------------------------------
(* The registry of strategies *)

\* An entry of the registry, a specification of an instance, the steps of requests.
Entries == [tags : [Tags -> Revisions \union {None}], revs : [Revisions -> Tags \union {None}]]
Specs == [sel : Selectors, rev : Revisions]
RequestSteps == {"load", "check", "persist", "unlink", "write", "apply",
          "compile", "swap", "select", "resolve", "pin", "restart", "stop"}
Ops == {"upload", "assign", "untag", "remove", "refresh", "create"}
Jobs == [op : Ops, at : RequestSteps, sel : Selectors, tag : Selectors, rev : Revisions \union {None},
         keep : BOOLEAN, again : BOOLEAN, base : Entries, copy : Entries,
         todo : SUBSET (Revisions \union {None}), was : BOOLEAN, of : Specs \union {None},
         alone : BOOLEAN, stale : BOOLEAN]

\* The steps at which a request of each kind waits.
StepsOf(op) ==
    CASE op = "upload" -> {"persist", "write"}
      [] op \in {"assign", "untag"} -> {"write", "apply"}
      [] op = "remove" -> {"check", "load", "unlink", "write"}
      [] op = "create" -> {"resolve", "pin"}
      [] OTHER -> {"load", "compile", "swap", "select", "resolve", "pin", "restart", "stop"}

\* What a request is that has begun.
Formed(j) ==
    /\ j \in Jobs
    /\ j.at \in StepsOf(j.op)
    /\ j.op \in {"upload", "assign"} => j.rev \in Revisions
    /\ j.op \in {"assign", "untag"} => j.tag \in Tags
    /\ j.op = "create" => ~j.was
    /\ j.at = "pin" => j.rev \in Revisions
    /\ j.op = "refresh" /\ j.at \in {"resolve", "pin", "restart", "stop"} => j.of \in Specs
    /\ j.op = "refresh" /\ j.at = "resolve" => j.tag = j.of.sel /\ j.rev = j.of.rev
    /\ j.op = "refresh" /\ j.at = "pin" => j.todo = {j.of.rev} \ {j.rev}

StoreTypeOK ==
    /\ registry \in Entries
    /\ files \subseteq Revisions
    /\ mem \in [tags : [Tags -> Revisions \union {None}], mods : [Revisions -> Tags \union {None}],
                default : Revisions \union {None}]
    /\ cache \in [Selectors -> Revisions \union {None}]
    /\ spec \in Specs \union {None}
    /\ run \in Revisions \union {None}
    /\ calls \in 0..MaxCalls /\ breaks \in 0..MaxBreaks
    /\ muddled \in BOOLEAN /\ crossed \in BOOLEAN

RegistryTypeOK ==
    /\ StoreTypeOK
    /\ job \in [Clients -> Jobs \union {NoRequest}]
    /\ synced \in Selectors \union {None}

FormedJobs == \A c \in Clients : Busy(c) => Formed(job[c])

\* The cache holds what it would find.
CacheAgrees == \A s \in Selectors : cache[s] \in {None, Resolution(s)}

\* A request that is alone is the only one.
AloneHolds ==
    /\ \A c \in Clients : Busy(c) /\ job[c].alone =>
          ~job[c].stale /\ \A d \in Clients \ {c} : ~Busy(d)
    /\ synced # None => NoneUnderWay

LEMMA NoJob == NoRequest \notin Jobs
BY DEF NoRequest, Jobs, Ops

LEMMA EntryTyped == NoEntry \in Entries
BY DEF NoEntry, Entries

LEMMA TidyTyped == ASSUME NEW e \in Entries PROVE Tidy(e) \in Entries
BY EntryTyped DEF Tidy

LEMMA StoredTyped ==
    ASSUME NEW e \in Entries, NEW r \in Revisions
    PROVE  Stored(e, r) \in Entries
BY RegistryAssumption DEF Stored, Entries

LEMMA WithoutTyped ==
    ASSUME NEW e \in Entries, NEW gone
    PROVE  Without(e, gone) \in Entries
<1> DEFINE w == [tags |-> [t \in Tags |-> IF e.tags[t] \in gone THEN None ELSE e.tags[t]],
                 revs |-> [r \in Revisions |-> IF r \in gone THEN None ELSE e.revs[r]]]
<1>1. w \in Entries
  BY DEF Entries
<1> QED
  BY <1>1, TidyTyped DEF Without

LEMMA DefaultTyped ==
    ASSUME NEW e \in Entries
    PROVE  Default(e) \in Revisions \union {None}
<1>1. e.tags["latest"] \in Revisions \union {None}
  BY RegistryAssumption DEF Entries
<1> QED
  BY <1>1 DEF Default, Listed

LEMMA LoadedTyped ==
    ASSUME NEW e \in Entries
    PROVE  FromRegistry(e) \in [tags : [Tags -> Revisions \union {None}],
                                mods : [Revisions -> Tags \union {None}],
                                default : Revisions \union {None}]
BY DefaultTyped DEF FromRegistry, Entries, NoEntry

\* What a request is before it has begun.
Asking(j) ==
    /\ j \in Jobs /\ ~j.was /\ ~j.stale
    /\ j.at = CASE j.op = "remove" -> "check" [] j.op = "create" -> "resolve" [] OTHER -> "load"
    /\ j.op \in {"upload", "assign"} => j.rev \in Revisions
    /\ j.op \in {"assign", "untag"} => j.tag \in Tags

LEMMA RequestTyped ==
    ASSUME NEW op \in Ops, NEW at \in RequestSteps
    PROVE  /\ Request(op, at) \in Jobs
           /\ Request(op, at).op = op /\ Request(op, at).at = at /\ Request(op, at).tag \in Tags
           /\ ~Request(op, at).was /\ ~Request(op, at).stale
BY RegistryAssumption, EntryTyped DEF Request, Jobs, Selectors

LEMMA RequestsAsk == \A j \in Requests : Asking(j)
<1>1. ASSUME NEW j \in Upload PROVE Asking(j)
  <2> DEFINE q == Request("upload", "load")
  <2>1. q \in Jobs /\ q.op = "upload" /\ q.at = "load" /\ q.tag \in Tags /\ ~q.was /\ ~q.stale
    BY RequestTyped DEF Ops, RequestSteps
  <2>2. \E r \in Revisions : j = [q EXCEPT !.rev = r]
    BY DEF Upload
  <2> HIDE DEF q
  <2> QED
    BY <2>1, <2>2 DEF Asking, Jobs, Ops, RequestSteps, Selectors
<1>2. ASSUME NEW j \in PutTag PROVE Asking(j)
  <2> DEFINE q == Request("assign", "load")
  <2>1. q \in Jobs /\ q.op = "assign" /\ q.at = "load" /\ q.tag \in Tags /\ ~q.was /\ ~q.stale
    BY RequestTyped DEF Ops, RequestSteps
  <2>2. PICK t \in Tags, r \in Revisions, a \in BOOLEAN : j = Assign(t, r, a)
    BY DEF PutTag
  <2>3. j = [q EXCEPT !.tag = t, !.rev = r, !.again = a]
    BY <2>2 DEF Assign
  <2> HIDE DEF q
  <2> QED
    BY <2>1, <2>3 DEF Asking, Jobs, Ops, RequestSteps, Selectors
<1>3. ASSUME NEW j \in DeleteTag PROVE Asking(j)
  <2> DEFINE q == Request("untag", "load")
  <2>1. q \in Jobs /\ q.op = "untag" /\ q.at = "load" /\ q.tag \in Tags /\ ~q.was /\ ~q.stale
    BY RequestTyped DEF Ops, RequestSteps
  <2>2. PICK t \in Tags \ {"latest"}, k \in BOOLEAN : j = Untag(t, k)
    BY DEF DeleteTag
  <2>3. j = [q EXCEPT !.tag = t, !.keep = k]
    BY <2>2 DEF Untag
  <2> HIDE DEF q
  <2> QED
    BY <2>1, <2>3 DEF Asking, Jobs, Ops, RequestSteps, Selectors
<1>4. ASSUME NEW j \in DeleteModule PROVE Asking(j)
  <2> DEFINE q == Request("remove", "check")
  <2>1. q \in Jobs /\ q.op = "remove" /\ q.at = "check" /\ q.tag \in Tags /\ ~q.was /\ ~q.stale
    BY RequestTyped DEF Ops, RequestSteps
  <2>2. \E s \in Selectors : j = [q EXCEPT !.sel = s]
    BY DEF DeleteModule
  <2> HIDE DEF q
  <2> QED
    BY <2>1, <2>2 DEF Asking, Jobs, Ops, RequestSteps, Selectors
<1>5. ASSUME NEW j \in Refresh PROVE Asking(j)
  <2> DEFINE q == Request("refresh", "load")
  <2>1. q \in Jobs /\ q.op = "refresh" /\ q.at = "load" /\ q.tag \in Tags /\ ~q.was /\ ~q.stale
    BY RequestTyped DEF Ops, RequestSteps
  <2>2. \E s \in Selectors : j = [q EXCEPT !.sel = s]
    BY DEF Refresh
  <2> HIDE DEF q
  <2> QED
    BY <2>1, <2>2 DEF Asking, Jobs, Ops, RequestSteps, Selectors
<1>6. ASSUME NEW j \in PostInstance PROVE Asking(j)
  <2> DEFINE q == Request("create", "resolve")
  <2>1. q \in Jobs /\ q.op = "create" /\ q.at = "resolve" /\ q.tag \in Tags /\ ~q.was /\ ~q.stale
    BY RequestTyped DEF Ops, RequestSteps
  <2>2. \E s \in Selectors : j = [q EXCEPT !.sel = s]
    BY DEF PostInstance
  <2> HIDE DEF q
  <2> QED
    BY <2>1, <2>2 DEF Asking, Jobs, Ops, RequestSteps, Selectors
<1> QED
  BY <1>1, <1>2, <1>3, <1>4, <1>5, <1>6 DEF Requests

LEMMA RemovedTyped ==
    ASSUME NEW j \in Jobs
    PROVE  Removed(j) \subseteq Revisions
BY RegistryAssumption DEF Removed, Jobs, Entries, Selectors, Listed

LEMMA ChangeTyped ==
    ASSUME NEW j \in Jobs, j.op = "upload" => j.rev \in Revisions, j.op \in {"assign", "untag"} => j.tag \in Tags
    PROVE  Change(j) \in Entries
<1>1. j.base \in Entries
  BY DEF Jobs
<1>2. CASE j.op = "upload"
  BY <1>1, <1>2, StoredTyped DEF Change
<1>3. CASE j.op = "assign"
  BY <1>1, <1>3 DEF Change, Jobs, Entries
<1>4. CASE j.op = "untag"
  BY <1>1, <1>4 DEF Change, Entries
<1>5. CASE j.op = "remove"
  BY <1>1, <1>5, WithoutTyped DEF Change
<1> QED
  BY <1>1, <1>2, <1>3, <1>4, <1>5 DEF Change, Jobs, Ops

\* Every tag of an entry names one of its revisions.
TagsOK(e) == \A t \in Tags : e.tags[t] \in Listed(e) \union {None}

\* What a request that nobody has overtaken has read, and is to write.
Fresh(j) ==
    /\ j.at \in {"compile", "swap"} => j.base = registry
    /\ j.at \in {"persist", "unlink", "write"} =>
         /\ TagsOK(registry) => TagsOK(j.copy)
         /\ j.op = "upload" => Listed(j.copy) = Listed(registry) \union {j.rev}
         /\ j.op \in {"assign", "untag"} => Listed(j.copy) = Listed(registry)
         /\ j.op = "remove" =>
              /\ Listed(j.copy) \subseteq Listed(registry) \ j.todo
              /\ j.sel \in Revisions => Listed(registry) \subseteq Listed(j.copy) \union {j.sel}

LEMMA ListedStored ==
    ASSUME NEW e \in Entries, NEW r \in Revisions
    PROVE  /\ Listed(Stored(e, r)) = Listed(e) \union {r}
           /\ TagsOK(e) => TagsOK(Stored(e, r))
<1>1. BuildTag[r] \in Tags /\ BuildTag[r] # None
  BY RegistryAssumption
<1> DEFINE s == Stored(e, r)
<1>2. \A q \in Revisions : s.revs[q] = IF q = r THEN BuildTag[r] ELSE e.revs[q]
  BY <1>1 DEF Stored, Entries
<1>3. \A t \in Tags : s.tags[t] = e.tags[t] \/ s.tags[t] = r
  BY <1>1 DEF Stored, Entries
<1> QED
  BY <1>1, <1>2, <1>3 DEF Listed, TagsOK

LEMMA ListedWithout ==
    ASSUME NEW e \in Entries, NEW gone
    PROVE  /\ Listed(Without(e, gone)) = Listed(e) \ gone
           /\ TagsOK(e) => TagsOK(Without(e, gone))
<1> DEFINE w == [tags |-> [t \in Tags |-> IF e.tags[t] \in gone THEN None ELSE e.tags[t]],
                 revs |-> [r \in Revisions |-> IF r \in gone THEN None ELSE e.revs[r]]]
<1>1. Listed(w) = Listed(e) \ gone
  BY DEF Listed
<1>2. TagsOK(e) => TagsOK(w)
  BY <1>1 DEF TagsOK
<1>3. Listed(NoEntry) = {} /\ TagsOK(NoEntry)
  BY DEF Listed, NoEntry, TagsOK
<1>4. Without(e, gone) = IF Listed(w) = {} THEN NoEntry ELSE w
  BY DEF Without, Tidy
<1> HIDE DEF w
<1> QED
  BY <1>1, <1>2, <1>3, <1>4

LEMMA ChangeFresh ==
    ASSUME registry \in Entries, NEW j \in Jobs, j.base = registry,
           j.op = "upload" => j.rev \in Revisions,
           j.op = "assign" => j.tag \in Tags /\ j.rev \in Listed(registry),
           j.op = "untag" => j.tag \in Tags
    PROVE  /\ TagsOK(registry) => TagsOK(Change(j))
           /\ j.op = "upload" => Listed(Change(j)) = Listed(registry) \union {j.rev}
           /\ j.op \in {"assign", "untag"} => Listed(Change(j)) = Listed(registry)
           /\ j.op = "remove" => Listed(Change(j)) = Listed(registry) \ j.todo
<1>1. CASE j.op = "upload"
  BY <1>1, ListedStored DEF Change
<1>2. CASE j.op = "assign"
  <2>1. Change(j) = [registry EXCEPT !.tags[j.tag] = j.rev]
    BY <1>2 DEF Change
  <2>2. Change(j).revs = registry.revs /\ \A t \in Tags : Change(j).tags[t] \in {registry.tags[t], j.rev}
    BY <2>1, <1>2 DEF Entries
  <2> QED
    BY <1>2, <2>2 DEF Listed, TagsOK
<1>3. CASE j.op = "untag"
  <2>1. Change(j) = [registry EXCEPT !.tags[j.tag] = None]
    BY <1>3 DEF Change
  <2>2. Change(j).revs = registry.revs /\ \A t \in Tags : Change(j).tags[t] \in {registry.tags[t], None}
    BY <2>1, <1>3 DEF Entries
  <2> QED
    BY <1>3, <2>2 DEF Listed, TagsOK
<1>4. CASE j.op = "remove"
  BY <1>4, ListedWithout DEF Change
<1>5. CASE j.op \in {"refresh", "create"}
  BY <1>5 DEF Change
<1> QED
  BY <1>1, <1>2, <1>3, <1>4, <1>5 DEF Jobs, Ops

\* A request that has read the registry.
LEMMA ReadingRead ==
    ASSUME registry \in Entries, NEW j \in Jobs, j.op # "create",
           j.op \in {"upload", "assign"} => j.rev \in Revisions,
           j.op \in {"assign", "untag"} => j.tag \in Tags
    PROVE  Reading(j) = NoRequest \/
             /\ Formed(Reading(j)) /\ Fresh(Reading(j)) /\ ~Reading(j).stale
             /\ Reading(j).op = j.op /\ Reading(j).sel = j.sel /\ Reading(j).alone = j.alone
             /\ Reading(j).at \in {"persist", "unlink", "write", "compile"}
             /\ Reading(j).op = "upload" => Reading(j).at = "persist"
             /\ Reading(j).op = "remove" => Reading(j).at = "unlink"
<1> DEFINE read == [j EXCEPT !.base = registry, !.stale = FALSE]
           k == IF read.op = "remove" THEN [read EXCEPT !.todo = Removed(read)] ELSE read
           r == [k EXCEPT !.copy = Change(k), !.at = AfterLoad(k)]
<1>1. read \in Jobs /\ read.base = registry /\ ~read.stale /\ read.op = j.op /\ read.rev = j.rev
      /\ read.tag = j.tag /\ read.sel = j.sel /\ read.alone = j.alone
  BY DEF Jobs
<1>2. Removed(read) \subseteq Revisions /\ (read.sel \in Revisions => Removed(read) = {read.sel})
  BY <1>1, RemovedTyped, RegistryAssumption DEF Removed
<1>3. k \in Jobs /\ k.base = registry /\ ~k.stale /\ k.op = j.op /\ k.rev = j.rev
      /\ k.tag = j.tag /\ k.sel = j.sel /\ k.alone = j.alone
      /\ (k.op = "remove" => k.todo \subseteq Revisions /\ (k.sel \in Revisions => k.todo = {k.sel}))
  BY <1>1, <1>2 DEF Jobs
<1>4. Reading(j) = IF AfterLoad(k) = "end" THEN NoRequest ELSE r
  BY DEF Reading
<1> HIDE DEF read, k
<1>5. ASSUME AfterLoad(k) # "end"
      PROVE  /\ AfterLoad(k) = CASE k.op = "upload" -> "persist" [] k.op = "refresh" -> "compile"
                                 [] k.op = "remove" -> "unlink" [] OTHER -> "write"
             /\ k.op = "assign" => k.rev \in Listed(registry)
  BY <1>3, <1>5 DEF AfterLoad, Jobs, Ops
<1>6. SUFFICES ASSUME AfterLoad(k) # "end"
               PROVE  /\ Formed(r) /\ Fresh(r) /\ ~r.stale
                      /\ r.op = j.op /\ r.sel = j.sel /\ r.alone = j.alone
                      /\ r.at \in {"persist", "unlink", "write", "compile"}
                      /\ r.op = "upload" => r.at = "persist"
                      /\ r.op = "remove" => r.at = "unlink"
  BY <1>4
<1>7. Change(k) \in Entries
  BY <1>3, ChangeTyped
<1>8. /\ r \in Jobs /\ r.base = registry /\ ~r.stale /\ r.op = k.op /\ r.rev = k.rev
      /\ r.tag = k.tag /\ r.sel = k.sel /\ r.alone = k.alone /\ r.todo = k.todo
      /\ r.copy = Change(k) /\ r.at = AfterLoad(k)
  BY <1>3, <1>5, <1>6, <1>7 DEF Jobs, RequestSteps, Ops
<1> HIDE DEF r
<1>9. Formed(r)
  BY <1>3, <1>5, <1>6, <1>8 DEF Formed, StepsOf, Jobs, Ops
<1>10. /\ TagsOK(registry) => TagsOK(Change(k))
       /\ k.op = "upload" => Listed(Change(k)) = Listed(registry) \union {k.rev}
       /\ k.op \in {"assign", "untag"} => Listed(Change(k)) = Listed(registry)
       /\ k.op = "remove" => Listed(Change(k)) = Listed(registry) \ k.todo
  BY <1>3, <1>5, <1>6, ChangeFresh
<1>11. Fresh(r)
  BY <1>3, <1>5, <1>6, <1>8, <1>10 DEF Fresh, Listed, Jobs, Ops
<1> QED
  BY <1>3, <1>5, <1>6, <1>8, <1>9, <1>11 DEF Jobs, Ops

\* What a request that nobody has overtaken has read is still so.
FreshJobs == \A c \in Clients : Busy(c) /\ ~job[c].stale => Fresh(job[c])

TagsHold == ~muddled => TagsOK(registry)

\* A file that is missing is one that a removal takes out of the registry, unless a
\* removal has been overtaken, which nothing repairs.
Unlinking(c) == Busy(c) /\ job[c].op = "remove" /\ job[c].at \in {"unlink", "write"}
FilesHold ==
    ~muddled =>
      \/ \E c \in Clients : Unlinking(c) /\ job[c].stale
      \/ /\ \A r \in Listed(registry) \ files :
               \E c \in Clients : Unlinking(c) /\ r \notin Listed(job[c].copy)
         /\ \A c \in Clients : At(c, "write") /\ job[c].op = "upload" /\ ~job[c].stale =>
               job[c].rev \in files \/ \E d \in Clients : Unlinking(d)

\* What runs is what the specification says, or is about to be.
RunHolds ==
    /\ spec = None => run = None
    /\ ~crossed /\ run # None => run = spec.rev \/ \E c \in Clients : At(c, "restart")

\* A refresh that is alone finds memory, specification and instance as it left them.
Lone(c, op) == Busy(c) /\ job[c].alone /\ job[c].op = op
RefreshHolds ==
    \A c \in Clients : Lone(c, "refresh") =>
        /\ job[c].at \in {"select", "resolve", "pin", "restart", "stop"} => mem = FromRegistry(registry)
        /\ job[c].at \in {"resolve", "pin"} => spec = job[c].of /\ job[c].was = (run # None)
        /\ job[c].at \in {"pin", "restart"} => job[c].rev = Resolution(job[c].of.sel)
        /\ job[c].at = "restart" => spec # None /\ spec.rev = job[c].rev

\* A removal that is alone is not of what runs.
RemovalHolds ==
    \A c \in Clients :
        Lone(c, "remove") /\ job[c].at # "check" /\ job[c].sel \notin Tags /\ ~crossed /\ run # None =>
            job[c].sel \in Revisions \ {run}

\* Types, the requests that are under way and the cache.
Well == RegistryTypeOK /\ FormedJobs /\ CacheAgrees /\ AloneHolds

LEMMA BusyJob ==
    ASSUME RegistryTypeOK, FormedJobs, NEW c \in Clients
    PROVE  /\ Busy(c) <=> job[c] \in Jobs
           /\ Busy(c) => Formed(job[c])
           /\ ~Busy(c) <=> job[c] = NoRequest
BY NoJob DEF RegistryTypeOK, FormedJobs, Busy

\* One request goes on or ends, the others stay as they are.
LEMMA GoesOn ==
    ASSUME Well, NEW c \in Clients, Busy(c), NEW k \in Jobs, NEW step \in RequestSteps \union {"end"},
           Go(c, k, step), k.alone = job[c].alone, k.stale = job[c].stale \/ ~k.stale,
           step # "end" => Formed([k EXCEPT !.at = step])
    PROVE  /\ job' \in [Clients -> Jobs \union {NoRequest}]
           /\ FormedJobs'
           /\ \A d \in Clients : Busy(d)' /\ job'[d].alone =>
                 ~job'[d].stale /\ \A e \in Clients \ {d} : ~Busy(e)'
           /\ \A d \in Clients \ {c} : job'[d] = job[d] /\ (Busy(d)' <=> Busy(d))
           /\ job'[c] = IF step = "end" THEN NoRequest ELSE [k EXCEPT !.at = step]
           /\ Busy(c)' <=> step # "end"
           /\ synced = None
<1>1. job \in [Clients -> Jobs \union {NoRequest}]
  BY DEF Well, RegistryTypeOK
<1>2. job'[c] = IF step = "end" THEN NoRequest ELSE [k EXCEPT !.at = step]
  BY <1>1 DEF Go
<1>3. \A d \in Clients \ {c} : job'[d] = job[d]
  BY <1>1 DEF Go
<1>4. step # "end" => [k EXCEPT !.at = step] \in Jobs
  BY DEF Formed
<1>5. job' \in [Clients -> Jobs \union {NoRequest}]
  BY <1>1, <1>4 DEF Go
<1>6. Busy(c)' <=> step # "end"
  BY <1>2, <1>4, NoJob DEF Busy
<1>7. \A d \in Clients \ {c} : Busy(d)' <=> Busy(d)
  BY <1>3 DEF Busy
<1>8. \A d \in Clients : Busy(d)' => Formed(job'[d])
  BY <1>2, <1>3, <1>6, <1>7 DEF FormedJobs, Well
<1>9. step # "end" => /\ [k EXCEPT !.at = step].alone = k.alone
                      /\ [k EXCEPT !.at = step].stale = k.stale
  BY DEF Jobs
<1>10. \A d \in Clients : Busy(d)' /\ job'[d].alone =>
                 ~job'[d].stale /\ \A e \in Clients \ {d} : ~Busy(e)'
  BY <1>2, <1>3, <1>6, <1>7, <1>9 DEF Well, AloneHolds
<1>11. synced = None
  BY DEF Well, AloneHolds, NoneUnderWay
<1> QED
  BY <1>2, <1>3, <1>5, <1>6, <1>7, <1>8, <1>10, <1>11 DEF FormedJobs

LEMMA CacheKept ==
    ASSUME CacheAgrees, UNCHANGED memVars
    PROVE  CacheAgrees'
BY DEF CacheAgrees, memVars, Resolution, TagResolved, Loaded

LEMMA CacheForgotten ==
    ASSUME ForgetResolutions
    PROVE  CacheAgrees' /\ cache' \in [Selectors -> Revisions \union {None}]
BY DEF CacheAgrees, ForgetResolutions, EmptyCache

LEMMA ResolvedFound ==
    ASSUME Well, NEW s \in Selectors
    PROVE  /\ Resolved(s) = Resolution(s)
           /\ Resolution(s) \in Revisions \union {None}
           /\ Resolution(s) # None => Resolution(s) \in Loaded
           /\ s \in Revisions => Resolution(s) \in {s, None}
BY RegistryAssumption DEF Well, CacheAgrees, Resolved, Resolution, Loaded, Selectors

LEMMA CacheRemembers ==
    ASSUME Well, NEW s \in Selectors, Remember(s), UNCHANGED mem
    PROVE  CacheAgrees' /\ cache' \in [Selectors -> Revisions \union {None}]
<1>1. cache' = [cache EXCEPT ![s] = Resolution(s)] /\ Resolution(s) \in Revisions \union {None}
  BY ResolvedFound DEF Remember
<1>2. \A t \in Selectors : Resolution(t)' = Resolution(t)
  BY DEF Resolution, TagResolved, Loaded
<1>3. cache \in [Selectors -> Revisions \union {None}]
  BY DEF Well, RegistryTypeOK, StoreTypeOK
<1> QED
  BY <1>1, <1>2, <1>3 DEF Well, CacheAgrees

\* Such a step keeps what is well, if the rest of the state is.
LEMMA WellStep ==
    ASSUME Well, NEW c \in Clients, Busy(c), NEW k \in Jobs, NEW step \in RequestSteps \union {"end"},
           Go(c, k, step), k.alone = job[c].alone, k.stale = job[c].stale \/ ~k.stale,
           step # "end" => Formed([k EXCEPT !.at = step]),
           StoreTypeOK', CacheAgrees', synced' \in Selectors \union {None},
           synced' \in {synced, None} \/ (step = "end" /\ job[c].alone)
    PROVE  Well'
<1>1. /\ job' \in [Clients -> Jobs \union {NoRequest}]
      /\ FormedJobs'
      /\ \A d \in Clients : Busy(d)' /\ job'[d].alone =>
            ~job'[d].stale /\ \A e \in Clients \ {d} : ~Busy(e)'
      /\ \A d \in Clients \ {c} : job'[d] = job[d] /\ (Busy(d)' <=> Busy(d))
      /\ Busy(c)' <=> step # "end"
      /\ synced = None
  BY GoesOn
<1>2. synced' # None => NoneUnderWay'
  BY <1>1 DEF Well, AloneHolds, NoneUnderWay
<1> QED
  BY <1>1, <1>2 DEF Well, RegistryTypeOK, AloneHolds

\* The request of a step.
LEMMA AtJob ==
    ASSUME Well, NEW c \in Clients, NEW step, At(c, step)
    PROVE  Busy(c) /\ job[c] \in Jobs /\ Formed(job[c]) /\ job[c].at = step
BY BusyJob DEF Well, At, Formed

\* A request that has taken a step.
LEMMA FormedNext ==
    ASSUME NEW j, Formed(j), NEW step \in StepsOf(j.op),
           step \in {"write", "apply", "unlink", "load", "swap", "select"} 
           \/ (j.at = "pin" /\ step = "restart")
    PROVE  Formed([j EXCEPT !.at = step])
<1>1. [j EXCEPT !.at = step] \in Jobs
  BY DEF Formed, Jobs, StepsOf, RequestSteps, Ops
<1> QED
  BY <1>1 DEF Formed, StepsOf, Jobs

LEMMA PersistWell ==
    ASSUME Well, NEW c \in Clients, Persist(c)
    PROVE  Well'
<1>1. Busy(c) /\ job[c] \in Jobs /\ Formed(job[c]) /\ job[c].at = "persist"
  BY AtJob DEF Persist
<1>2. job[c].op = "upload"
  BY <1>1 DEF Formed, StepsOf, Jobs, Ops
<1>3. Formed([job[c] EXCEPT !.at = "write"])
  BY <1>1, <1>2, FormedNext DEF StepsOf
<1>4. StoreTypeOK'
  BY <1>1, <1>2 DEF Persist, Well, RegistryTypeOK, StoreTypeOK, memVars, runVars, Formed
<1>5. CacheAgrees'
  BY CacheKept DEF Persist, Well
<1> QED
  BY <1>1, <1>3, <1>4, <1>5, WellStep DEF Persist, RequestSteps, Well, RegistryTypeOK

LEMMA UnlinkWell ==
    ASSUME Well, NEW c \in Clients, Unlink(c)
    PROVE  Well'
<1>1. Busy(c) /\ job[c] \in Jobs /\ Formed(job[c]) /\ job[c].at = "unlink"
  BY AtJob DEF Unlink
<1>2. job[c].op = "remove"
  BY <1>1 DEF Formed, StepsOf, Jobs, Ops
<1>3. PICK r \in job[c].todo :
         /\ files' = files \ {r}
         /\ Go(c, [job[c] EXCEPT !.todo = job[c].todo \ {r}], IF job[c].todo \ {r} = {} THEN "write" ELSE "unlink")
  BY DEF Unlink
<1> DEFINE k == [job[c] EXCEPT !.todo = job[c].todo \ {r}]
           step == IF job[c].todo \ {r} = {} THEN "write" ELSE "unlink"
<1>4. Formed(k) /\ k \in Jobs /\ k.op = "remove" /\ k.alone = job[c].alone /\ k.stale = job[c].stale
  BY <1>1, <1>2 DEF Formed, StepsOf, Jobs
<1> HIDE DEF k
<1>5. Formed([k EXCEPT !.at = step])
  BY <1>4, FormedNext DEF StepsOf
<1>6. StoreTypeOK'
  BY <1>3 DEF Unlink, Well, RegistryTypeOK, StoreTypeOK, memVars, runVars
<1>7. CacheAgrees'
  BY CacheKept DEF Unlink, Well
<1>8. Go(c, k, step)
  BY <1>3 DEF k
<1> QED
  BY <1>1, <1>4, <1>5, <1>6, <1>7, <1>8, WellStep DEF Unlink, RequestSteps, Well, RegistryTypeOK

\* The request of a client that begins.
Started(n) ==
    /\ Formed(n) /\ Fresh(n) /\ ~n.stale /\ n.alone = NoneUnderWay
    /\ n.at \in {"persist", "unlink", "write", "compile", "check", "resolve"}
    /\ n.op = "upload" => n.at = "persist"
    /\ n.op = "refresh" => n.at = "compile"
    /\ n.op = "remove" => n.at = "check"

LEMMA BeginsWith ==
    ASSUME Well, NEW c \in Clients, Begin(c)
    PROVE  /\ ~Busy(c)
           /\ job' \in [Clients -> Jobs \union {NoRequest}]
           /\ job'[c] = NoRequest \/ Started(job'[c])
           /\ \A d \in Clients \ {c} :
                job'[d] = IF Busy(d) THEN [job[d] EXCEPT !.alone = FALSE] ELSE NoRequest
<1>1. PICK j \in Requests :
         LET k == [j EXCEPT !.alone = NoneUnderWay] IN
         job' = [d \in Clients |-> IF d = c THEN (IF j.at = "load" THEN Reading(k) ELSE k)
                                   ELSE IF Busy(d) THEN [job[d] EXCEPT !.alone = FALSE] ELSE NoRequest]
  BY DEF Begin
<1> DEFINE k == [j EXCEPT !.alone = NoneUnderWay]
           n == IF j.at = "load" THEN Reading(k) ELSE k
<1>2. Asking(j)
  BY RequestsAsk
<1>3. NoneUnderWay \in BOOLEAN
  BY DEF NoneUnderWay
<1>4. k \in Jobs /\ k.op = j.op /\ k.at = j.at /\ k.rev = j.rev /\ k.tag = j.tag /\ ~k.was /\ ~k.stale
      /\ k.alone = NoneUnderWay
  BY <1>2, <1>3 DEF Asking, Jobs
<1> HIDE DEF k
<1>5. j.at # "load" => Formed(k) /\ Fresh(k) /\ k.at \in {"check", "resolve"} /\ k.op \in {"remove", "create"}
      /\ (k.op = "remove" => k.at = "check")
  BY <1>2, <1>4 DEF Asking, Formed, Fresh, StepsOf, Jobs, Ops
<1>6. j.at = "load" => k.op \in {"upload", "assign", "untag", "refresh"}
  BY <1>2, <1>4 DEF Asking, Jobs, Ops
<1>7. registry \in Entries
  BY DEF Well, RegistryTypeOK, StoreTypeOK
<1>8. j.at = "load" => Reading(k) = NoRequest \/
             /\ Formed(Reading(k)) /\ Fresh(Reading(k)) /\ ~Reading(k).stale
             /\ Reading(k).op = k.op /\ Reading(k).sel = k.sel /\ Reading(k).alone = k.alone
             /\ Reading(k).at \in {"persist", "unlink", "write", "compile"}
             /\ Reading(k).op = "upload" => Reading(k).at = "persist"
             /\ Reading(k).op = "remove" => Reading(k).at = "unlink"
  BY <1>2, <1>4, <1>6, <1>7, ReadingRead DEF Asking
<1>9. n = NoRequest \/ Started(n)
  BY <1>4, <1>5, <1>6, <1>8 DEF Started, Formed, StepsOf
<1> HIDE DEF n
<1>10. n \in Jobs \union {NoRequest}
  BY <1>9 DEF Started, Formed
<1>11. \A d \in Clients : Busy(d) => [job[d] EXCEPT !.alone = FALSE] \in Jobs
  BY BusyJob DEF Well, Jobs
<1>12. job' = [d \in Clients |-> IF d = c THEN n
                                 ELSE IF Busy(d) THEN [job[d] EXCEPT !.alone = FALSE] ELSE NoRequest]
  BY <1>1 DEF n, k
<1>13. job'[c] = n /\ job' \in [Clients -> Jobs \union {NoRequest}]
  BY <1>10, <1>11, <1>12
<1>14. \A d \in Clients \ {c} :
         job'[d] = IF Busy(d) THEN [job[d] EXCEPT !.alone = FALSE] ELSE NoRequest
  BY <1>12
<1> QED
  BY <1>9, <1>13, <1>14 DEF Begin

\* Requests of others go on as they were but for `alone`.
LEMMA OthersFormed ==
    ASSUME NEW j, Formed(j), NEW b \in BOOLEAN
    PROVE  /\ Formed([j EXCEPT !.alone = b]) /\ Formed([j EXCEPT !.stale = b])
           /\ [j EXCEPT !.stale = b] \in Jobs /\ [j EXCEPT !.alone = b] \in Jobs
BY DEF Formed, StepsOf, Jobs

LEMMA BeginWell ==
    ASSUME Well, NEW c \in Clients, Begin(c)
    PROVE  Well'
<1>1. /\ ~Busy(c)
      /\ job' \in [Clients -> Jobs \union {NoRequest}]
      /\ job'[c] = NoRequest \/ Started(job'[c])
      /\ \A d \in Clients \ {c} :
           job'[d] = IF Busy(d) THEN [job[d] EXCEPT !.alone = FALSE] ELSE NoRequest
  BY BeginsWith
<1>2. \A d \in Clients \ {c} : Busy(d)' => Busy(d) /\ job'[d] = [job[d] EXCEPT !.alone = FALSE]
  BY <1>1 DEF Busy
<1>3. \A d \in Clients \ {c} : Busy(d)' => Formed(job'[d]) /\ ~job'[d].alone
  <2> TAKE d \in Clients \ {c}
  <2> HAVE Busy(d)'
  <2>1. Formed(job[d]) /\ job[d] \in Jobs /\ job'[d] = [job[d] EXCEPT !.alone = FALSE]
    BY <1>2, BusyJob DEF Well
  <2>2. Formed([job[d] EXCEPT !.alone = FALSE])
    BY <2>1, OthersFormed
  <2>3. ~[job[d] EXCEPT !.alone = FALSE].alone
    BY <2>1 DEF Jobs
  <2> QED
    BY <2>1, <2>2, <2>3
<1>4. Busy(c)' => Formed(job'[c]) /\ ~job'[c].stale /\ job'[c].alone = NoneUnderWay
  BY <1>1 DEF Busy, Started
<1>5. FormedJobs'
  BY <1>3, <1>4 DEF FormedJobs
<1>6. ASSUME NEW d \in Clients, Busy(d)', job'[d].alone
      PROVE  ~job'[d].stale /\ \A e \in Clients \ {d} : ~Busy(e)'
  <2>1. d = c
    BY <1>3, <1>6
  <2>2. NoneUnderWay
    BY <1>4, <1>6, <2>1
  <2> QED
    BY <1>2, <1>4, <1>6, <2>1, <2>2 DEF NoneUnderWay
<1>7. synced' = None /\ synced' \in Selectors \union {None}
  BY DEF Begin
<1>8. AloneHolds'
  BY <1>6, <1>7 DEF AloneHolds
<1>9. StoreTypeOK'
  BY RegistryAssumption DEF Begin, Well, RegistryTypeOK, StoreTypeOK, Counted, diskVars, memVars, runVars
<1>10. CacheAgrees'
  BY CacheKept DEF Begin, Well
<1> QED
  BY <1>1, <1>5, <1>7, <1>8, <1>9, <1>10 DEF Well, RegistryTypeOK

\* The request that has read the registry, for the one that has not.
Reread(n, j) ==
    /\ Formed(n) /\ Fresh(n) /\ ~n.stale
    /\ n.op = j.op /\ n.sel = j.sel /\ n.alone = j.alone
    /\ n.at \in {"unlink", "compile"}

LEMMA LoadWell ==
    ASSUME Well, NEW c \in Clients, Load(c)
    PROVE  /\ Well'
           /\ \A d \in Clients \ {c} : job'[d] = job[d] /\ (Busy(d)' <=> Busy(d))
           /\ Busy(c) /\ job[c] \in Jobs /\ Formed(job[c]) /\ job[c].at = "load"
           /\ job[c].op \in {"remove", "refresh"}
           /\ job'[c] = NoRequest \/ Reread(job'[c], job[c])
<1>1. Busy(c) /\ job[c] \in Jobs /\ Formed(job[c]) /\ job[c].at = "load"
  BY AtJob DEF Load
<1>2. job[c].op \in {"remove", "refresh"}
  BY <1>1 DEF Formed, StepsOf, Jobs, Ops
<1>3. registry \in Entries /\ job \in [Clients -> Jobs \union {NoRequest}]
  BY DEF Well, RegistryTypeOK, StoreTypeOK
<1>4. Reading(job[c]) = NoRequest \/
             /\ Formed(Reading(job[c])) /\ Fresh(Reading(job[c])) /\ ~Reading(job[c]).stale
             /\ Reading(job[c]).op = job[c].op /\ Reading(job[c]).sel = job[c].sel
             /\ Reading(job[c]).alone = job[c].alone
             /\ Reading(job[c]).at \in {"persist", "unlink", "write", "compile"}
             /\ Reading(job[c]).op = "remove" => Reading(job[c]).at = "unlink"
  BY <1>1, <1>2, <1>3, ReadingRead
<1>5. job' = [job EXCEPT ![c] = Reading(job[c])]
  BY DEF Load
<1>6. Reading(job[c]) \in Jobs \union {NoRequest}
  BY <1>4 DEF Formed
<1>7. job' \in [Clients -> Jobs \union {NoRequest}] /\ job'[c] = Reading(job[c])
      /\ \A d \in Clients \ {c} : job'[d] = job[d]
  BY <1>3, <1>5, <1>6
<1>8. \A d \in Clients \ {c} : Busy(d)' <=> Busy(d)
  BY <1>7 DEF Busy
<1>9. FormedJobs'
  <2>1. Busy(c)' => Formed(job'[c])
    BY <1>4, <1>7 DEF Busy
  <2>2. \A d \in Clients \ {c} : Busy(d)' => Formed(job'[d])
    BY <1>7, <1>8, BusyJob DEF Well
  <2> QED
    BY <2>1, <2>2 DEF FormedJobs
<1>10. AloneHolds'
  <2>1. Busy(c)' => job'[c].alone = job[c].alone /\ ~job'[c].stale
    BY <1>4, <1>7 DEF Busy
  <2>2. synced' = None
    BY <1>1 DEF Load, Well, AloneHolds, NoneUnderWay
  <2> QED
    BY <1>1, <1>7, <1>8, <2>1, <2>2 DEF Well, AloneHolds
<1>11. StoreTypeOK' /\ synced' = synced
  BY DEF Load, Well, RegistryTypeOK, StoreTypeOK, diskVars, memVars, runVars
<1>12. CacheAgrees'
  BY CacheKept DEF Load, Well
<1>13. Well'
  BY <1>7, <1>9, <1>10, <1>11, <1>12 DEF Well, RegistryTypeOK
<1>14. Reading(job[c]) # NoRequest => Reading(job[c]).at \in {"unlink", "compile"}
  BY <1>2, <1>4 DEF Formed, StepsOf
<1>15. job'[c] = NoRequest \/ Reread(job'[c], job[c])
  BY <1>4, <1>7, <1>14 DEF Reread
<1> QED
  BY <1>1, <1>2, <1>7, <1>8, <1>13, <1>15

\* Two requests that differ in what the history of others makes of them.
Alike(j, k) ==
    /\ j.op = k.op /\ j.at = k.at /\ j.sel = k.sel /\ j.tag = k.tag /\ j.rev = k.rev
    /\ j.base = k.base /\ j.copy = k.copy /\ j.todo = k.todo /\ j.was = k.was /\ j.of = k.of

LEMMA AlikeFresh ==
    ASSUME NEW j, NEW k, Alike(k, j), Fresh(j)
    PROVE  Fresh(k)
BY DEF Alike, Fresh

LEMMA WriteJobs ==
    ASSUME Well, NEW c \in Clients, Write(c)
    PROVE  /\ Busy(c) /\ job[c] \in Jobs /\ Formed(job[c]) /\ job[c].at = "write"
           /\ job[c].op \in {"upload", "assign", "untag", "remove"}
           /\ job' \in [Clients -> Jobs \union {NoRequest}]
           /\ job'[c] = IF job[c].op \in {"assign", "untag"} THEN [job[c] EXCEPT !.at = "apply"] ELSE NoRequest
           /\ Busy(c)' <=> job[c].op \in {"assign", "untag"}
           /\ \A d \in Clients \ {c} :
                /\ Busy(d)' <=> Busy(d)
                /\ Busy(d) => /\ Alike(job'[d], job[d]) /\ job'[d].stale /\ job'[d].alone = job[d].alone
                              /\ Formed(job'[d]) /\ Formed(job[d])
<1>1. Busy(c) /\ job[c] \in Jobs /\ Formed(job[c]) /\ job[c].at = "write"
  BY AtJob DEF Write
<1>2. job[c].op \in {"upload", "assign", "untag", "remove"}
  BY <1>1 DEF Formed, StepsOf, Jobs, Ops
<1>3. job' = [d \in Clients |-> IF d # c THEN (IF Busy(d) THEN [job[d] EXCEPT !.stale = TRUE] ELSE NoRequest)
                              ELSE IF AfterWrite(job[c]) = "end" THEN NoRequest
                              ELSE [job[c] EXCEPT !.at = "apply"]]
  BY DEF Write
<1>4. job[c].op \in {"assign", "untag"} => Formed([job[c] EXCEPT !.at = "apply"])
  BY <1>1, FormedNext DEF StepsOf
<1>5. job'[c] = IF job[c].op \in {"assign", "untag"} THEN [job[c] EXCEPT !.at = "apply"] ELSE NoRequest
  BY <1>3 DEF AfterWrite
<1>6. Busy(c)' <=> job[c].op \in {"assign", "untag"}
  BY <1>4, <1>5, NoJob DEF Busy, Formed
<1>7. ASSUME NEW d \in Clients \ {c}, Busy(d)
      PROVE  /\ Busy(d)' /\ Alike(job'[d], job[d]) /\ job'[d].stale /\ job'[d].alone = job[d].alone
             /\ Formed(job'[d]) /\ Formed(job[d]) /\ job'[d] \in Jobs
  <2>1. job'[d] = [job[d] EXCEPT !.stale = TRUE]
    BY <1>3, <1>7
  <2>2. Formed(job[d]) /\ job[d] \in Jobs
    BY <1>7, BusyJob DEF Well
  <2>3. Formed(job'[d]) /\ job'[d] \in Jobs
    BY <2>1, <2>2, OthersFormed
  <2>4. Alike(job'[d], job[d]) /\ job'[d].stale /\ job'[d].alone = job[d].alone
    BY <2>1, <2>2 DEF Alike, Jobs
  <2> QED
    BY <2>2, <2>3, <2>4, NoJob DEF Busy
<1>8. ASSUME NEW d \in Clients \ {c}, ~Busy(d)
      PROVE  ~Busy(d)' /\ job'[d] = NoRequest
  BY <1>3, <1>8 DEF Busy
<1>9. job' \in [Clients -> Jobs \union {NoRequest}]
  <2>1. \A d \in Clients : job'[d] \in Jobs \union {NoRequest}
    BY <1>4, <1>5, <1>7, <1>8 DEF Formed
  <2> DEFINE G(d) == IF d # c THEN (IF Busy(d) THEN [job[d] EXCEPT !.stale = TRUE] ELSE NoRequest)
                     ELSE IF AfterWrite(job[c]) = "end" THEN NoRequest
                     ELSE [job[c] EXCEPT !.at = "apply"]
  <2>2. job' = [d \in Clients |-> G(d)]
    BY <1>3
  <2> HIDE DEF G
  <2> QED
    BY <2>1, <2>2
<1> QED
  BY <1>1, <1>2, <1>5, <1>6, <1>7, <1>8, <1>9

LEMMA WriteWell ==
    ASSUME Well, NEW c \in Clients, Write(c)
    PROVE  Well'
<1>1. /\ Busy(c) /\ job[c] \in Jobs /\ Formed(job[c])
      /\ job' \in [Clients -> Jobs \union {NoRequest}]
      /\ job'[c] = IF job[c].op \in {"assign", "untag"} THEN [job[c] EXCEPT !.at = "apply"] ELSE NoRequest
      /\ Busy(c)' <=> job[c].op \in {"assign", "untag"}
      /\ \A d \in Clients \ {c} :
           /\ Busy(d)' <=> Busy(d)
           /\ Busy(d) => job'[d].stale /\ job'[d].alone = job[d].alone /\ Formed(job'[d])
  BY WriteJobs
<1>2. job[c].op \in {"assign", "untag"} =>
         /\ Formed([job[c] EXCEPT !.at = "apply"])
         /\ [job[c] EXCEPT !.at = "apply"].alone = job[c].alone
         /\ [job[c] EXCEPT !.at = "apply"].stale = job[c].stale
  BY <1>1, FormedNext DEF StepsOf, Jobs
<1>3. FormedJobs'
  BY <1>1, <1>2 DEF FormedJobs
<1>4. synced' = None
  BY <1>1 DEF Write, Well, AloneHolds, NoneUnderWay
<1>5. AloneHolds'
  BY <1>1, <1>2, <1>4 DEF Well, AloneHolds
<1>6. StoreTypeOK'
  BY <1>1 DEF Write, Well, RegistryTypeOK, StoreTypeOK, memVars, runVars, Jobs
<1>7. CacheAgrees'
  BY CacheKept DEF Write, Well
<1> QED
  BY <1>1, <1>3, <1>4, <1>5, <1>6, <1>7 DEF Well, RegistryTypeOK

LEMMA FailsWell ==
    ASSUME Well, NEW c \in Clients, Fails(c)
    PROVE  Well' /\ Busy(c) /\ job[c] \in Jobs /\ Formed(job[c]) /\ job[c].at \in {"persist", "unlink", "write"}
<1>1. Busy(c) /\ job[c] \in Jobs /\ Formed(job[c]) /\ job[c].at \in {"persist", "unlink", "write"}
  BY BusyJob DEF Fails, At, Well
<1>2. StoreTypeOK'
  BY RegistryAssumption DEF Fails, Break, Well, RegistryTypeOK, StoreTypeOK, diskVars, memVars, runVars
<1>3. CacheAgrees'
  BY CacheKept DEF Fails, Well
<1> QED
  BY <1>1, <1>2, <1>3, WellStep DEF Fails, Well, RegistryTypeOK

LEMMA ApplyWell ==
    ASSUME Well, NEW c \in Clients, Apply(c)
    PROVE  Well'
<1>1. Busy(c) /\ job[c] \in Jobs /\ Formed(job[c]) /\ job[c].at = "apply"
  BY AtJob DEF Apply
<1> DEFINE q == Request("refresh", "load")
           n == [q EXCEPT !.alone = job[c].alone]
<1>2. q \in Jobs /\ q.op = "refresh" /\ q.at = "load" /\ q.tag \in Tags /\ ~q.was /\ ~q.stale
  BY RequestTyped DEF Ops, RequestSteps
<1> HIDE DEF q
<1>3. n \in Jobs /\ n.alone = job[c].alone /\ ~n.stale /\ n.op = "refresh" /\ n.at = "load"
  BY <1>1, <1>2 DEF Jobs
<1> HIDE DEF n
<1>4. Formed(n)
  BY <1>3 DEF Formed, StepsOf
<1>5. Formed([n EXCEPT !.at = "load"])
  BY <1>3, <1>4, FormedNext DEF StepsOf
<1>6. StoreTypeOK'
  <2>1. job[c].copy \in Entries
    BY <1>1 DEF Jobs
  <2>2. mem' \in [tags : [Tags -> Revisions \union {None}], mods : [Revisions -> Tags \union {None}],
                default : Revisions \union {None}]
    BY <2>1, RegistryAssumption DEF Apply, ApplyTags, Well, RegistryTypeOK, StoreTypeOK, Entries, Loaded
  <2>3. cache' \in [Selectors -> Revisions \union {None}]
    BY CacheForgotten DEF Apply, ApplyTags
  <2> QED
    BY <2>2, <2>3 DEF Apply, Well, RegistryTypeOK, StoreTypeOK, diskVars, runVars
<1>7. CacheAgrees'
  BY CacheForgotten DEF Apply, ApplyTags
<1>8. synced' = synced /\ synced \in Selectors \union {None}
  BY DEF Apply, Well, RegistryTypeOK
<1>9. Go(c, n, "load") \/ Go(c, job[c], "end")
  BY DEF Apply, n, q
<1>10. CASE Go(c, n, "load")
  BY <1>1, <1>3, <1>5, <1>6, <1>7, <1>8, <1>10, WellStep DEF RequestSteps
<1>11. CASE Go(c, job[c], "end")
  BY <1>1, <1>6, <1>7, <1>8, <1>11, WellStep
<1> QED
  BY <1>9, <1>10, <1>11

LEMMA CheckUseWell ==
    ASSUME Well, NEW c \in Clients, CheckUse(c)
    PROVE  Well'
<1>1. Busy(c) /\ job[c] \in Jobs /\ Formed(job[c]) /\ job[c].at = "check"
  BY AtJob DEF CheckUse
<1>2. job[c].op = "remove" /\ job[c].sel \in Selectors
  BY <1>1 DEF Formed, StepsOf, Jobs, Ops
<1>3. Formed([job[c] EXCEPT !.at = "load"])
  BY <1>1, <1>2, FormedNext DEF StepsOf
<1>4. cache' \in [Selectors -> Revisions \union {None}] /\ CacheAgrees'
  <2>1. CASE job[c].sel = "name"
    BY <2>1, CacheKept DEF CheckUse, Well, RegistryTypeOK, StoreTypeOK, memVars
  <2>2. CASE job[c].sel # "name"
    BY <1>2, <2>2, CacheRemembers DEF CheckUse
  <2> QED
    BY <2>1, <2>2
<1>5. StoreTypeOK'
  BY <1>4 DEF CheckUse, Well, RegistryTypeOK, StoreTypeOK, diskVars, runVars
<1>6. synced' = synced /\ synced \in Selectors \union {None}
  BY DEF CheckUse, Well, RegistryTypeOK
<1>7. Go(c, job[c], "end") \/ Go(c, job[c], "load")
  BY DEF CheckUse
<1>8. CASE Go(c, job[c], "end")
  BY <1>1, <1>4, <1>5, <1>6, <1>8, WellStep
<1>9. CASE Go(c, job[c], "load")
  BY <1>1, <1>3, <1>4, <1>5, <1>6, <1>9, WellStep DEF RequestSteps
<1> QED
  BY <1>7, <1>8, <1>9

LEMMA CompileWell ==
    ASSUME Well, NEW c \in Clients, Compile(c)
    PROVE  Well' /\ Busy(c) /\ job[c] \in Jobs /\ Formed(job[c]) /\ job[c].at = "compile" /\ job[c].op = "refresh"
<1>1. Busy(c) /\ job[c] \in Jobs /\ Formed(job[c]) /\ job[c].at = "compile"
  BY AtJob DEF Compile
<1>2. job[c].op = "refresh"
  BY <1>1 DEF Formed, StepsOf, Jobs, Ops
<1>3. Formed([job[c] EXCEPT !.at = "swap"])
  BY <1>1, <1>2, FormedNext DEF StepsOf
<1>4. StoreTypeOK' /\ CacheAgrees' /\ synced' = synced /\ synced \in Selectors \union {None}
  BY CacheKept DEF Compile, Well, RegistryTypeOK, StoreTypeOK, diskVars, memVars, runVars
<1>5. Go(c, job[c], "end") \/ Go(c, job[c], "swap")
  BY DEF Compile
<1>6. CASE Go(c, job[c], "end")
  BY <1>1, <1>2, <1>4, <1>6, WellStep
<1>7. CASE Go(c, job[c], "swap")
  BY <1>1, <1>2, <1>3, <1>4, <1>7, WellStep DEF RequestSteps
<1> QED
  BY <1>5, <1>6, <1>7

LEMMA SwapWell ==
    ASSUME Well, NEW c \in Clients, Swap(c)
    PROVE  Well' /\ Busy(c) /\ job[c] \in Jobs /\ Formed(job[c]) /\ job[c].at = "swap" /\ job[c].op = "refresh"
<1>1. Busy(c) /\ job[c] \in Jobs /\ Formed(job[c]) /\ job[c].at = "swap"
  BY AtJob DEF Swap
<1>2. job[c].op = "refresh"
  BY <1>1 DEF Formed, StepsOf, Jobs, Ops
<1> DEFINE n == [job[c] EXCEPT !.base = NoEntry, !.copy = NoEntry]
<1>3. Formed(n) /\ n \in Jobs /\ n.op = "refresh" /\ n.alone = job[c].alone /\ n.stale = job[c].stale
  BY <1>1, <1>2, EntryTyped DEF Formed, StepsOf, Jobs
<1> HIDE DEF n
<1>4. Formed([n EXCEPT !.at = "select"])
  BY <1>3, FormedNext DEF StepsOf
<1>5. StoreTypeOK' /\ CacheAgrees' /\ synced' = synced /\ synced \in Selectors \union {None}
  <2>1. job[c].base \in Entries
    BY <1>1 DEF Jobs
  <2>2. mem' \in [tags : [Tags -> Revisions \union {None}], mods : [Revisions -> Tags \union {None}],
                default : Revisions \union {None}]
    BY <2>1, LoadedTyped DEF Swap
  <2>3. cache' \in [Selectors -> Revisions \union {None}] /\ CacheAgrees'
    BY CacheForgotten DEF Swap
  <2> QED
    BY <2>2, <2>3 DEF Swap, Well, RegistryTypeOK, StoreTypeOK, diskVars, runVars
<1>6. Go(c, n, "select")
  BY DEF Swap, n
<1> QED
  BY <1>1, <1>2, <1>3, <1>4, <1>5, <1>6, WellStep DEF RequestSteps

LEMMA SelectWell ==
    ASSUME Well, NEW c \in Clients, Select(c)
    PROVE  Well' /\ Busy(c) /\ job[c] \in Jobs /\ Formed(job[c]) /\ job[c].at = "select" /\ job[c].op = "refresh"
<1>1. Busy(c) /\ job[c] \in Jobs /\ Formed(job[c]) /\ job[c].at = "select"
  BY AtJob DEF Select
<1>2. job[c].op = "refresh"
  BY <1>1 DEF Formed, StepsOf, Jobs, Ops
<1> DEFINE n == [job[c] EXCEPT !.tag = spec.sel, !.rev = spec.rev, !.of = spec, !.was = run # None]
<1>3. StoreTypeOK' /\ CacheAgrees' /\ synced' = synced /\ synced \in Selectors \union {None}
  BY CacheKept DEF Select, Well, RegistryTypeOK, StoreTypeOK, diskVars, memVars, runVars
<1>4. CASE Go(c, job[c], "end")
  BY <1>1, <1>2, <1>3, <1>4, WellStep
<1>5. CASE spec # None /\ Go(c, n, "resolve")
  <2>1. spec \in Specs /\ spec.sel \in Selectors /\ spec.rev \in Revisions
    BY <1>5 DEF Well, RegistryTypeOK, StoreTypeOK, Specs
  <2>2. n \in Jobs /\ n.alone = job[c].alone /\ n.stale = job[c].stale
    BY <1>1, <2>1 DEF Jobs
  <2>3. n.op = "refresh" /\ n.of = spec /\ n.tag = spec.sel /\ n.rev = spec.rev
    BY <1>1, <1>2 DEF Jobs
  <2> HIDE DEF n
  <2>4. Formed([n EXCEPT !.at = "resolve"])
    <3>1. [n EXCEPT !.at = "resolve"] \in Jobs
      BY <2>2 DEF Jobs, RequestSteps
    <3> QED
      BY <2>1, <2>2, <2>3, <3>1 DEF Formed, StepsOf, Jobs
  <2> QED
    BY <1>1, <1>2, <1>3, <1>5, <2>2, <2>4, WellStep DEF RequestSteps
<1> QED
  BY <1>4, <1>5 DEF Select

LEMMA CanonicalTyped ==
    ASSUME Well, NEW s \in Selectors, Resolved(s) # None
    PROVE  Canonical(s, Resolved(s)) \in Selectors
<1>1. Resolved(s) \in Loaded
  BY ResolvedFound
<1> QED
  BY <1>1 DEF Canonical, Loaded, Well, RegistryTypeOK, StoreTypeOK, Selectors

\* The request whose selector has been resolved.
Found(j, s) ==
    [j EXCEPT !.todo = {j.rev} \ {Resolved(s)}, !.rev = Resolved(s),
              !.tag = IF Resolved(s) = None THEN @ ELSE Canonical(s, Resolved(s))]

LEMMA FoundTyped ==
    ASSUME Well, NEW j \in Jobs, NEW s \in Selectors
    PROVE  /\ Found(j, s) \in Jobs /\ Found(j, s).op = j.op /\ Found(j, s).alone = j.alone
           /\ Found(j, s).stale = j.stale /\ Found(j, s).rev = Resolved(s) /\ Found(j, s).of = j.of
           /\ Found(j, s).todo = {j.rev} \ {Resolved(s)} /\ Found(j, s).was = j.was
<1>1. Resolved(s) \in Revisions \union {None}
  BY ResolvedFound
<1>2. Resolved(s) # None => Canonical(s, Resolved(s)) \in Selectors
  BY CanonicalTyped
<1> QED
  BY <1>1, <1>2 DEF Found, Jobs

LEMMA ResolveJob ==
    ASSUME Well, NEW c \in Clients, Resolve(c)
    PROVE  /\ Busy(c) /\ job[c] \in Jobs /\ Formed(job[c]) /\ job[c].at = "resolve"
           /\ job[c].op \in {"refresh", "create"} /\ Asked(job[c]) \in Selectors
           /\ Go(c, Found(job[c], Asked(job[c])), AfterResolve(job[c], Resolved(Asked(job[c]))))
<1>1. Busy(c) /\ job[c] \in Jobs /\ Formed(job[c]) /\ job[c].at = "resolve"
  BY AtJob DEF Resolve
<1>2. job[c].op \in {"refresh", "create"}
  BY <1>1 DEF Formed, StepsOf, Jobs, Ops
<1>3. Asked(job[c]) \in Selectors
  BY <1>1, <1>2 DEF Asked, Jobs
<1> QED
  BY <1>1, <1>2, <1>3 DEF Resolve, Found

LEMMA ResolveWell ==
    ASSUME Well, NEW c \in Clients, Resolve(c)
    PROVE  Well'
<1> DEFINE j == job[c]
           s == Asked(j)
           n == Found(j, s)
           step == AfterResolve(j, Resolved(s))
<1>1. Busy(c) /\ j \in Jobs /\ Formed(j) /\ j.at = "resolve" /\ j.op \in {"refresh", "create"}
      /\ s \in Selectors /\ Go(c, n, step)
  BY ResolveJob
<1>2. n \in Jobs /\ n.op = j.op /\ n.alone = j.alone /\ n.stale = j.stale /\ n.rev = Resolved(s)
      /\ n.of = j.of /\ n.todo = {j.rev} \ {Resolved(s)} /\ n.was = j.was
  BY <1>1, FoundTyped
<1>3. Resolved(s) \in Revisions \union {None}
  BY <1>1, ResolvedFound
<1>4. /\ step \in {"end", "stop", "pin"}
      /\ step = "stop" => j.op = "refresh"
      /\ step = "pin" => Resolved(s) \in Revisions
  <2>1. CASE Resolved(s) = None
    <3>1. step = IF j.op = "create" THEN "end" ELSE "stop"
      BY <2>1 DEF AfterResolve
    <3> HIDE DEF step, s
    <3> QED
      BY <1>1, <3>1
  <2>2. CASE Resolved(s) # None
    <3>1. step = "pin"
      BY <2>2 DEF AfterResolve
    <3> HIDE DEF step, s
    <3> QED
      BY <1>3, <2>2, <3>1
  <2> HIDE DEF step, s
  <2> QED
    BY <2>1, <2>2
<1> HIDE DEF n, step
<1>5. step # "end" => Formed([n EXCEPT !.at = step])
  <2> SUFFICES ASSUME step # "end" PROVE Formed([n EXCEPT !.at = step])
    OBVIOUS
  <2>1. [n EXCEPT !.at = step] \in Jobs
    BY <1>2, <1>4 DEF Jobs, RequestSteps
  <2>2. [n EXCEPT !.at = step].at = step /\ [n EXCEPT !.at = step].op = j.op
        /\ [n EXCEPT !.at = step].rev = Resolved(s) /\ [n EXCEPT !.at = step].of = j.of
        /\ [n EXCEPT !.at = step].todo = {j.rev} \ {Resolved(s)}
        /\ [n EXCEPT !.at = step].was = j.was
    BY <1>2 DEF Jobs
  <2>3. (j.op = "refresh" => j.of \in Specs /\ j.rev = j.of.rev) /\ (j.op = "create" => ~j.was)
    BY <1>1 DEF Formed
  <2> HIDE DEF j, s
  <2> QED
    BY <1>1, <1>4, <2>1, <2>2, <2>3 DEF Formed, StepsOf
<1>6. Remember(s) /\ UNCHANGED mem
  BY DEF Resolve
<1>7. cache' \in [Selectors -> Revisions \union {None}] /\ CacheAgrees'
  BY <1>1, <1>6, CacheRemembers
<1>8. StoreTypeOK'
  BY <1>7 DEF Resolve, Well, RegistryTypeOK, StoreTypeOK, diskVars, runVars
<1>9. synced' = synced /\ synced \in Selectors \union {None}
  BY DEF Resolve, Well, RegistryTypeOK
<1> QED
  BY <1>1, <1>2, <1>4, <1>5, <1>7, <1>8, <1>9, WellStep DEF RequestSteps

LEMMA DoneTyped ==
    ASSUME NEW c \in Clients, Busy(c), Formed(job[c]), job[c].at \in {"pin", "restart", "stop"}, Done(job[c])
    PROVE  synced' \in Selectors \union {None} /\ (synced' # None => job[c].alone /\ job[c].op = "refresh")
<1>1. job[c].op = "refresh" => job[c].of \in Specs
  BY DEF Formed
<1> QED
  BY <1>1 DEF Done, Specs

LEMMA PinWell ==
    ASSUME Well, NEW c \in Clients, Pin(c)
    PROVE  /\ Well' /\ Busy(c) /\ job[c] \in Jobs /\ Formed(job[c]) /\ job[c].at = "pin"
           /\ job[c].op \in {"refresh", "create"} /\ job[c].rev \in Revisions
           /\ Restarts(job[c]) => job[c].op = "refresh"
<1>1. Busy(c) /\ job[c] \in Jobs /\ Formed(job[c]) /\ job[c].at = "pin"
  BY AtJob DEF Pin
<1>2. job[c].op \in {"refresh", "create"} /\ job[c].rev \in Revisions
  BY <1>1 DEF Formed, StepsOf, Jobs, Ops
<1>3. Restarts(job[c]) => job[c].op = "refresh"
  BY <1>1, <1>2 DEF Restarts, Formed
<1>4. spec' \in Specs \union {None}
  BY <1>1, <1>2 DEF Pin, Well, RegistryTypeOK, StoreTypeOK, Specs, Jobs
<1>5. StoreTypeOK'
  BY <1>4 DEF Pin, Well, RegistryTypeOK, StoreTypeOK, diskVars, memVars
<1>6. CacheAgrees'
  BY CacheKept DEF Pin, Well
<1>7. CASE Restarts(job[c])
  <2>1. Go(c, job[c], "restart") /\ synced' = synced
    BY <1>7 DEF Pin
  <2>2. Formed([job[c] EXCEPT !.at = "restart"])
    BY <1>1, <1>3, <1>7, FormedNext DEF StepsOf
  <2>3. Well'
    BY <1>1, <1>5, <1>6, <2>1, <2>2, WellStep DEF RequestSteps, Well, RegistryTypeOK
  <2> QED
    BY <1>1, <1>2, <1>3, <2>3
<1>8. CASE ~Restarts(job[c])
  <2>1. Go(c, job[c], "end") /\ Done(job[c])
    BY <1>8 DEF Pin
  <2>2. synced' \in Selectors \union {None} /\ (synced' # None => job[c].alone)
    BY <1>1, <2>1, DoneTyped
  <2>3. Well'
    BY <1>1, <1>5, <1>6, <2>1, <2>2, WellStep
  <2> QED
    BY <1>1, <1>2, <1>3, <2>3
<1> QED
  BY <1>7, <1>8

LEMMA StartTyped ==
    ASSUME StoreTypeOK, StartInstance
    PROVE  run' \in Revisions \union {None}
BY DEF StoreTypeOK, StartInstance, Specs

LEMMA RestartWell ==
    ASSUME Well, NEW c \in Clients, Restart(c) \/ StopRetired(c)
    PROVE  /\ Well' /\ Busy(c) /\ job[c] \in Jobs /\ Formed(job[c]) /\ job[c].op = "refresh"
           /\ job[c].at = IF Restart(c) THEN "restart" ELSE "stop"
<1>1. Busy(c) /\ job[c] \in Jobs /\ Formed(job[c]) /\ job[c].at = IF Restart(c) THEN "restart" ELSE "stop"
  BY AtJob DEF Restart, StopRetired
<1>2. job[c].at \in {"restart", "stop"} /\ job[c].op = "refresh"
  BY <1>1 DEF Formed, StepsOf, Jobs, Ops
<1>3. Go(c, job[c], "end") /\ Done(job[c])
  BY DEF Restart, StopRetired
<1>4. synced' \in Selectors \union {None} /\ (synced' # None => job[c].alone)
  BY <1>1, <1>2, <1>3, DoneTyped
<1>5. run' \in Revisions \union {None}
  BY StartTyped DEF Restart, StopRetired, Well, RegistryTypeOK
<1>6. StoreTypeOK'
  BY <1>5 DEF Restart, StopRetired, BeginsAnew, Well, RegistryTypeOK, StoreTypeOK, diskVars, memVars
<1>7. CacheAgrees'
  BY CacheKept DEF Restart, StopRetired, Well
<1>8. Well'
  BY <1>1, <1>3, <1>4, <1>6, <1>7, WellStep
<1> QED
  BY <1>1, <1>2, <1>8

\* The requests under way when the instance is started, stopped or removed.
LEMMA ControlJobs ==
    ASSUME Well, Control
    PROVE  /\ job' \in [Clients -> Jobs \union {NoRequest}]
           /\ \A c \in Clients :
                /\ Busy(c)' <=> Busy(c)
                /\ Busy(c) => /\ Alike(job'[c], job[c]) /\ job'[c].stale = job[c].stale /\ ~job'[c].alone
                              /\ Formed(job'[c]) /\ Formed(job[c])
<1>1. job' = [c \in Clients |-> IF Busy(c) THEN [job[c] EXCEPT !.alone = FALSE] ELSE NoRequest]
  BY DEF Control
<1>2. ASSUME NEW c \in Clients, Busy(c)
      PROVE  /\ Busy(c)' /\ Alike(job'[c], job[c]) /\ job'[c].stale = job[c].stale /\ ~job'[c].alone
             /\ Formed(job'[c]) /\ Formed(job[c]) /\ job'[c] \in Jobs
  <2>1. job'[c] = [job[c] EXCEPT !.alone = FALSE]
    BY <1>1, <1>2
  <2>2. Formed(job[c]) /\ job[c] \in Jobs
    BY <1>2, BusyJob DEF Well
  <2>3. Formed(job'[c]) /\ job'[c] \in Jobs
    BY <2>1, <2>2, OthersFormed
  <2>4. Alike(job'[c], job[c]) /\ job'[c].stale = job[c].stale /\ ~job'[c].alone
    BY <2>1, <2>2 DEF Alike, Jobs
  <2> QED
    BY <2>2, <2>3, <2>4, NoJob DEF Busy
<1>3. ASSUME NEW c \in Clients, ~Busy(c)
      PROVE  ~Busy(c)' /\ job'[c] = NoRequest
  BY <1>1, <1>3 DEF Busy
<1>4. job' \in [Clients -> Jobs \union {NoRequest}]
  <2> DEFINE G(c) == IF Busy(c) THEN [job[c] EXCEPT !.alone = FALSE] ELSE NoRequest
  <2>1. \A c \in Clients : job'[c] \in Jobs \union {NoRequest}
    BY <1>2, <1>3
  <2>2. job' = [c \in Clients |-> G(c)]
    BY <1>1
  <2> HIDE DEF G
  <2> QED
    BY <2>1, <2>2
<1> QED
  BY <1>2, <1>3, <1>4

LEMMA ControlWell ==
    ASSUME Well, Control
    PROVE  Well'
<1>1. /\ job' \in [Clients -> Jobs \union {NoRequest}]
      /\ \A c \in Clients : (Busy(c)' <=> Busy(c)) /\ (Busy(c) => ~job'[c].alone /\ Formed(job'[c]))
  BY ControlJobs
<1>2. FormedJobs'
  BY <1>1 DEF FormedJobs
<1>3. synced' = None
  BY DEF Control
<1>4. AloneHolds'
  BY <1>1, <1>3 DEF AloneHolds
<1>5. run' \in Revisions \union {None}
  BY StartTyped DEF Control, Well, RegistryTypeOK
<1>8. crossed' \in BOOLEAN
  BY DEF Control, BeginsAnew
<1>6. StoreTypeOK'
  BY <1>5, <1>8, RegistryAssumption
     DEF Control, Counted, Well, RegistryTypeOK, StoreTypeOK, diskVars, memVars
<1>7. CacheAgrees'
  BY CacheKept DEF Control, Well
<1> QED
  BY <1>1, <1>2, <1>3, <1>4, <1>6, <1>7 DEF Well, RegistryTypeOK

LEMMA InitialTyped == InitialEntries \subseteq Entries
<1>1. \A r \in Revisions : Stored(NoEntry, r) \in Entries
  BY EntryTyped, StoredTyped
<1>2. \A p \in Revisions \X Revisions : Stored(Stored(NoEntry, p[1]), p[2]) \in Entries
  BY <1>1, StoredTyped
<1> QED
  BY <1>1, <1>2, EntryTyped DEF InitialEntries

LEMMA InitWell ==
    ASSUME RegistryInit
    PROVE  Well
<1>1. registry \in Entries /\ mem = FromRegistry(registry)
  BY InitialTyped DEF RegistryInit
<1>2. mem \in [tags : [Tags -> Revisions \union {None}], mods : [Revisions -> Tags \union {None}],
               default : Revisions \union {None}]
  BY <1>1, LoadedTyped
<1>3. cache \in [Selectors -> Revisions \union {None}] /\ \A s \in Selectors : cache[s] = None
  BY DEF RegistryInit, EmptyCache
<1>4. ASSUME NEW s \in Selectors, Resolution(s) # None
      PROVE  Resolution(s) \in Revisions /\ Canonical(s, Resolution(s)) \in Selectors
  BY <1>2, <1>4 DEF Resolution, Loaded, Canonical, Selectors
<1>5. spec \in Specs \union {None} /\ run \in Revisions \union {None}
  <2>1. spec = None \/ \E s \in Selectors : Resolution(s) # None /\
           spec = [sel |-> Canonical(s, Resolution(s)), rev |-> Resolution(s)]
    BY DEF RegistryInit
  <2>2. spec \in Specs \union {None}
    BY <1>4, <2>1 DEF Specs
  <2> QED
    BY <2>2 DEF RegistryInit, Specs
<1>6. StoreTypeOK
  <2>1. files \subseteq Revisions
    BY DEF RegistryInit, Listed
  <2>2. calls = 0 /\ breaks = 0 /\ muddled = FALSE /\ crossed = FALSE
    BY DEF RegistryInit
  <2>3. calls \in 0..MaxCalls /\ breaks \in 0..MaxBreaks
    BY <2>2, RegistryAssumption
  <2> QED
    BY <1>1, <1>2, <1>3, <1>5, <2>1, <2>2, <2>3 DEF StoreTypeOK
<1>7. job = [c \in Clients |-> NoRequest] /\ synced = None /\ \A c \in Clients : ~Busy(c)
  BY DEF RegistryInit, Busy
<1> QED
  BY <1>3, <1>6, <1>7 DEF Well, RegistryTypeOK, FormedJobs, CacheAgrees, AloneHolds

LEMMA NextWell ==
    ASSUME Well, [RegistryNext]_registryVars
    PROVE  Well'
<1>1. CASE Control
  BY <1>1, ControlWell
<1>2. ASSUME NEW c \in Clients, Begin(c) PROVE Well'
  BY <1>2, BeginWell
<1>3. ASSUME NEW c \in Clients, Disk(c) PROVE Well'
  BY <1>3, LoadWell, PersistWell, UnlinkWell, WriteWell, FailsWell, ApplyWell, CheckUseWell DEF Disk
<1>4. ASSUME NEW c \in Clients, Reload(c) PROVE Well'
  BY <1>4, CompileWell, SwapWell, SelectWell, ResolveWell, PinWell, RestartWell DEF Reload
<1>5. CASE UNCHANGED registryVars
  <2>1. StoreTypeOK' /\ job' = job /\ synced' = synced
    BY <1>5 DEF Well, RegistryTypeOK, StoreTypeOK, registryVars, diskVars, memVars, runVars
  <2>2. CacheAgrees'
    BY <1>5, CacheKept DEF Well, registryVars
  <2> QED
    BY <2>1, <2>2 DEF Well, RegistryTypeOK, FormedJobs, AloneHolds, NoneUnderWay, Busy
<1> QED
  BY <1>1, <1>2, <1>3, <1>4, <1>5 DEF RegistryNext

\* Types of registry.json, the loader's memory, the instance and the requests.
THEOREM RegistryTypes == RegistrySpec => []RegistryTypeOK
<1>1. Well => RegistryTypeOK
  BY DEF Well
<1> QED
  BY <1>1, InitWell, NextWell, PTL DEF RegistrySpec

-----------------------------------------------------------------------------
\* The registry and its files.

OnDisk == FreshJobs /\ TagsHold /\ FilesHold

DiskSteps == {"persist", "unlink", "write", "compile", "swap"}

\* A step that leaves the registry and the files alone and keeps every removal that
\* is under way keeps what holds of them.
LEMMA DiskKept ==
    ASSUME OnDisk, UNCHANGED <<diskVars, muddled>>,
           \A d \in Clients : Busy(d)' /\ job'[d].at \in DiskSteps =>
              \/ Busy(d) /\ Alike(job'[d], job[d]) /\ job'[d].stale = job[d].stale
              \/ /\ job'[d].stale \/ Fresh(job'[d])
                 /\ job'[d].op = "upload" => job'[d].at # "write",
           \A d \in Clients : Unlinking(d) =>
              Unlinking(d)' /\ job'[d].copy = job[d].copy /\ job'[d].stale = job[d].stale
    PROVE  OnDisk'
<1>1. registry' = registry /\ files' = files /\ muddled' = muddled
  BY DEF diskVars
<1>2. FreshJobs'
  <2> SUFFICES ASSUME NEW d \in Clients, Busy(d)', ~job'[d].stale PROVE Fresh(job[d])'
    BY DEF FreshJobs
  <2>1. CASE job'[d].at \notin DiskSteps
    BY <2>1 DEF Fresh, DiskSteps
  <2>2. CASE Busy(d) /\ Alike(job'[d], job[d]) /\ job'[d].stale = job[d].stale
    <3>1. Fresh(job[d])
      BY <2>2 DEF OnDisk, FreshJobs
    <3>2. Fresh(job'[d])
      BY <2>2, <3>1, AlikeFresh
    <3> QED
      BY <1>1, <3>2 DEF Fresh, TagsOK, Listed
  <2>3. CASE Fresh(job'[d])
    BY <1>1, <2>3 DEF Fresh, TagsOK, Listed
  <2> QED
    BY <2>1, <2>2, <2>3
<1>3. TagsHold'
  BY <1>1 DEF OnDisk, TagsHold, TagsOK, Listed
<1>4. FilesHold'
  <2> SUFFICES ASSUME ~muddled, ~ \E d \in Clients : Unlinking(d)' /\ job'[d].stale
               PROVE  /\ \A r \in Listed(registry') \ files' :
                            \E d \in Clients : Unlinking(d)' /\ r \notin Listed(job'[d].copy)
                      /\ \A d \in Clients : At(d, "write")' /\ job'[d].op = "upload" /\ ~job'[d].stale =>
                            job'[d].rev \in files' \/ \E e \in Clients : Unlinking(e)'
    BY <1>1 DEF FilesHold, Listed
  <2>1. ~ \E d \in Clients : Unlinking(d) /\ job[d].stale
    OBVIOUS
  <2>2. /\ \A r \in Listed(registry) \ files :
              \E d \in Clients : Unlinking(d) /\ r \notin Listed(job[d].copy)
        /\ \A d \in Clients : At(d, "write") /\ job[d].op = "upload" /\ ~job[d].stale =>
              job[d].rev \in files \/ \E e \in Clients : Unlinking(e)
    BY <2>1 DEF OnDisk, FilesHold
  <2>3. \A r \in Listed(registry') \ files' :
                            \E d \in Clients : Unlinking(d)' /\ r \notin Listed(job'[d].copy)
    BY <1>1, <2>2
  <2>4. ASSUME NEW d \in Clients, At(d, "write")', job'[d].op = "upload", ~job'[d].stale
        PROVE  job'[d].rev \in files' \/ \E e \in Clients : Unlinking(e)'
    <3>1. Busy(d) /\ Alike(job'[d], job[d]) /\ job'[d].stale = job[d].stale
      BY <2>4 DEF At, DiskSteps
    <3>2. At(d, "write") /\ job[d].op = "upload" /\ ~job[d].stale /\ job'[d].rev = job[d].rev
      BY <2>4, <3>1 DEF At, Alike
    <3> QED
      BY <1>1, <2>2, <3>2
  <2> QED
    BY <2>3, <2>4
<1> QED
  BY <1>2, <1>3, <1>4 DEF OnDisk

\* The step of one request which neither comes to write nor stops a removal.
LEMMA DiskPassed ==
    ASSUME Well, OnDisk, NEW c \in Clients, Busy(c), NEW k \in Jobs, NEW step \in RequestSteps \union {"end"},
           Go(c, k, step), UNCHANGED <<diskVars, muddled>>, ~Unlinking(c),
           step \in DiskSteps => (k.stale \/ Fresh([k EXCEPT !.at = step])) /\ step # "write"
    PROVE  OnDisk'
<1>1. job \in [Clients -> Jobs \union {NoRequest}]
  BY DEF Well, RegistryTypeOK
<1>2. job'[c] = IF step = "end" THEN NoRequest ELSE [k EXCEPT !.at = step]
  BY <1>1 DEF Go
<1>3. \A d \in Clients \ {c} : job'[d] = job[d]
  BY <1>1 DEF Go
<1>4. ASSUME NEW d \in Clients, Busy(d)', job'[d].at \in DiskSteps
      PROVE  \/ Busy(d) /\ Alike(job'[d], job[d]) /\ job'[d].stale = job[d].stale
             \/ (job'[d].stale \/ Fresh(job'[d])) /\ (job'[d].op = "upload" => job'[d].at # "write")
  <2>1. CASE d # c
    BY <1>3, <1>4, <2>1 DEF Busy, Alike
  <2>2. CASE d = c
    <3>1. step # "end" /\ job'[c] = [k EXCEPT !.at = step]
      BY <1>2, <1>4, <2>2 DEF Busy
    <3>2. job'[c].stale = k.stale /\ job'[c].at = step
      BY <3>1 DEF Jobs
    <3> QED
      BY <1>4, <2>2, <3>1, <3>2
  <2> QED
    BY <2>1, <2>2
<1>5. \A d \in Clients : Unlinking(d) =>
              Unlinking(d)' /\ job'[d].copy = job[d].copy /\ job'[d].stale = job[d].stale
  BY <1>3 DEF Unlinking, Busy
<1> QED
  BY <1>4, <1>5, DiskKept

LEMMA BeginDisk ==
    ASSUME Well, OnDisk, NEW c \in Clients, Begin(c)
    PROVE  OnDisk'
<1>1. /\ ~Busy(c)
      /\ job'[c] = NoRequest \/ Started(job'[c])
      /\ \A d \in Clients \ {c} :
           job'[d] = IF Busy(d) THEN [job[d] EXCEPT !.alone = FALSE] ELSE NoRequest
  BY BeginsWith
<1>2. ASSUME NEW d \in Clients \ {c}, Busy(d)
      PROVE  Alike(job'[d], job[d]) /\ job'[d].stale = job[d].stale /\ Busy(d)'
  <2>1. job[d] \in Jobs /\ job'[d] = [job[d] EXCEPT !.alone = FALSE]
    BY <1>1, <1>2, BusyJob DEF Well
  <2>2. job'[d] \in Jobs
    BY <2>1 DEF Jobs
  <2> QED
    BY <2>1, <2>2, NoJob DEF Jobs, Alike, Busy
<1>3. \A d \in Clients \ {c} : ~Busy(d) => ~Busy(d)'
  BY <1>1 DEF Busy
<1>4. Busy(c)' => Fresh(job'[c]) /\ (job'[c].op = "upload" => job'[c].at # "write")
  BY <1>1 DEF Busy, Started
<1>5. \A d \in Clients : Unlinking(d) =>
              Unlinking(d)' /\ job'[d].copy = job[d].copy /\ job'[d].stale = job[d].stale
  BY <1>1, <1>2 DEF Unlinking, Alike
<1>6. UNCHANGED <<diskVars, muddled>>
  BY DEF Begin
<1> QED
  BY <1>2, <1>3, <1>4, <1>5, <1>6, DiskKept

LEMMA ControlDisk ==
    ASSUME Well, OnDisk, Control
    PROVE  OnDisk'
<1>1. \A c \in Clients : (Busy(c)' <=> Busy(c)) /\
                (Busy(c) => Alike(job'[c], job[c]) /\ job'[c].stale = job[c].stale)
  BY ControlJobs
<1>2. \A d \in Clients : Unlinking(d) =>
              Unlinking(d)' /\ job'[d].copy = job[d].copy /\ job'[d].stale = job[d].stale
  BY <1>1 DEF Unlinking, Alike
<1>3. UNCHANGED <<diskVars, muddled>>
  BY DEF Control
<1> QED
  BY <1>1, <1>2, <1>3, DiskKept

LEMMA LoadDisk ==
    ASSUME Well, OnDisk, NEW c \in Clients, Load(c)
    PROVE  OnDisk'
<1>1. /\ \A d \in Clients \ {c} : job'[d] = job[d] /\ (Busy(d)' <=> Busy(d))
      /\ job[c].at = "load"
      /\ job'[c] = NoRequest \/ Reread(job'[c], job[c])
  BY LoadWell
<1>2. \A d \in Clients \ {c} : Busy(d) => Alike(job'[d], job[d]) /\ job'[d].stale = job[d].stale
  BY <1>1 DEF Alike
<1>3. Busy(c)' => Fresh(job'[c]) /\ job'[c].at # "write"
  BY <1>1 DEF Busy, Reread
<1>4. \A d \in Clients : Unlinking(d) =>
              Unlinking(d)' /\ job'[d].copy = job[d].copy /\ job'[d].stale = job[d].stale
  BY <1>1, <1>2 DEF Unlinking, Alike
<1>5. UNCHANGED <<diskVars, muddled>>
  BY DEF Load
<1> QED
  BY <1>1, <1>2, <1>3, <1>4, <1>5, DiskKept

LEMMA PersistDisk ==
    ASSUME Well, OnDisk, NEW c \in Clients, Persist(c)
    PROVE  OnDisk'
<1>1. Busy(c) /\ job[c] \in Jobs /\ Formed(job[c]) /\ job[c].at = "persist"
  BY AtJob DEF Persist
<1>2. job[c].op = "upload"
  BY <1>1 DEF Formed, StepsOf, Jobs, Ops
<1>3. registry' = registry /\ muddled' = muddled /\ files' = files \union {job[c].rev}
  BY DEF Persist
<1>4. job \in [Clients -> Jobs \union {NoRequest}] /\ Go(c, job[c], "write")
  BY DEF Well, RegistryTypeOK, Persist
<1>5. job'[c] = [job[c] EXCEPT !.at = "write"] /\ \A d \in Clients \ {c} : job'[d] = job[d]
  BY <1>4 DEF Go
<1>6. /\ job'[c].at = "write" /\ job'[c].op = "upload" /\ job'[c].rev = job[c].rev
      /\ job'[c].copy = job[c].copy /\ job'[c].stale = job[c].stale
  BY <1>1, <1>2, <1>5 DEF Jobs
<1>7. \A d \in Clients : Unlinking(d)' <=> Unlinking(d)
  BY <1>1, <1>2, <1>5, <1>6 DEF Unlinking, Busy
<1>8. FreshJobs'
  <2>1. ~job[c].stale => Fresh(job[c])
    BY <1>1 DEF OnDisk, FreshJobs
  <2>2. ~job'[c].stale => Fresh(job[c])'
    BY <1>1, <1>2, <1>3, <1>6, <2>1 DEF Fresh, TagsOK, Listed
  <2>3. ASSUME NEW d \in Clients \ {c}, Busy(d)', ~job'[d].stale PROVE Fresh(job[d])'
    <3>1. Fresh(job[d]) /\ job'[d] = job[d]
      BY <1>5, <2>3 DEF OnDisk, FreshJobs, Busy
    <3> QED
      BY <1>3, <3>1 DEF Fresh, TagsOK, Listed
  <2> QED
    BY <2>2, <2>3 DEF FreshJobs
<1>9. TagsHold'
  BY <1>3 DEF OnDisk, TagsHold, TagsOK, Listed
<1>10. FilesHold'
  <2> SUFFICES ASSUME ~muddled, ~ \E d \in Clients : Unlinking(d)' /\ job'[d].stale
               PROVE  /\ \A r \in Listed(registry') \ files' :
                            \E d \in Clients : Unlinking(d)' /\ r \notin Listed(job'[d].copy)
                      /\ \A d \in Clients : At(d, "write")' /\ job'[d].op = "upload" /\ ~job'[d].stale =>
                            job'[d].rev \in files' \/ \E e \in Clients : Unlinking(e)'
    BY <1>3 DEF FilesHold, Listed
  <2>1. ~ \E d \in Clients : Unlinking(d) /\ job[d].stale
    BY <1>5, <1>7, <1>6
  <2>2. /\ \A r \in Listed(registry) \ files :
              \E d \in Clients : Unlinking(d) /\ r \notin Listed(job[d].copy)
        /\ \A d \in Clients : At(d, "write") /\ job[d].op = "upload" /\ ~job[d].stale =>
              job[d].rev \in files \/ \E e \in Clients : Unlinking(e)
    BY <2>1 DEF OnDisk, FilesHold
  <2>3. \A d \in Clients : job'[d].copy = job[d].copy
    BY <1>5, <1>6
  <2> QED
    BY <1>3, <1>5, <1>6, <1>7, <2>2, <2>3 DEF At, Busy
<1> QED
  BY <1>8, <1>9, <1>10 DEF OnDisk

LEMMA UnlinkDisk ==
    ASSUME Well, OnDisk, NEW c \in Clients, Unlink(c)
    PROVE  OnDisk'
<1>1. Busy(c) /\ job[c] \in Jobs /\ Formed(job[c]) /\ job[c].at = "unlink"
  BY AtJob DEF Unlink
<1>2. job[c].op = "remove"
  BY <1>1 DEF Formed, StepsOf, Jobs, Ops
<1>3. PICK r \in job[c].todo :
         /\ files' = files \ {r}
         /\ Go(c, [job[c] EXCEPT !.todo = job[c].todo \ {r}], IF job[c].todo \ {r} = {} THEN "write" ELSE "unlink")
  BY DEF Unlink
<1>4. registry' = registry /\ muddled' = muddled
  BY DEF Unlink
<1>5. job \in [Clients -> Jobs \union {NoRequest}]
  BY DEF Well, RegistryTypeOK
<1>6. \A d \in Clients \ {c} : job'[d] = job[d]
  BY <1>3, <1>5 DEF Go
<1>7. /\ job'[c] \in Jobs /\ job'[c].at \in {"write", "unlink"} /\ job'[c].op = "remove"
      /\ job'[c].copy = job[c].copy /\ job'[c].stale = job[c].stale /\ job'[c].sel = job[c].sel
      /\ job'[c].todo \subseteq job[c].todo
  <2> DEFINE k == [job[c] EXCEPT !.todo = job[c].todo \ {r}]
             step == IF job[c].todo \ {r} = {} THEN "write" ELSE "unlink"
  <2>1. /\ k \in Jobs /\ k.op = "remove" /\ k.copy = job[c].copy /\ k.stale = job[c].stale
        /\ k.sel = job[c].sel /\ k.todo \subseteq job[c].todo
    BY <1>1, <1>2 DEF Jobs
  <2>2. step \in {"write", "unlink"}
    OBVIOUS
  <2>3. Go(c, k, step)
    BY <1>3
  <2> HIDE DEF k, step
  <2>4. job'[c] = [k EXCEPT !.at = step]
    BY <1>5, <2>2, <2>3 DEF Go
  <2> QED
    BY <2>1, <2>2, <2>4 DEF Jobs, RequestSteps
<1>8. Unlinking(c) /\ Unlinking(c)'
  BY <1>1, <1>2, <1>7, NoJob DEF Unlinking, Busy
<1>9. \A d \in Clients : (Unlinking(d)' <=> Unlinking(d)) /\ job'[d].copy = job[d].copy
                         /\ job'[d].stale = job[d].stale
  BY <1>6, <1>7, <1>8 DEF Unlinking, Busy
<1>10. FreshJobs'
  <2>1. ~job[c].stale => Fresh(job[c])
    BY <1>1 DEF OnDisk, FreshJobs
  <2>2. ~job'[c].stale => Fresh(job[c])'
    BY <1>1, <1>2, <1>4, <1>7, <2>1 DEF Fresh, TagsOK, Listed
  <2>3. ASSUME NEW d \in Clients \ {c}, Busy(d)', ~job'[d].stale PROVE Fresh(job[d])'
    <3>1. Fresh(job[d]) /\ job'[d] = job[d]
      BY <1>6, <2>3 DEF OnDisk, FreshJobs, Busy
    <3> QED
      BY <1>4, <3>1 DEF Fresh, TagsOK, Listed
  <2> QED
    BY <2>2, <2>3 DEF FreshJobs
<1>11. TagsHold'
  BY <1>4 DEF OnDisk, TagsHold, TagsOK, Listed
<1>12. FilesHold'
  <2> SUFFICES ASSUME ~muddled, ~ \E d \in Clients : Unlinking(d)' /\ job'[d].stale
               PROVE  /\ \A q \in Listed(registry') \ files' :
                            \E d \in Clients : Unlinking(d)' /\ q \notin Listed(job'[d].copy)
                      /\ \E e \in Clients : Unlinking(e)'
    BY <1>4 DEF FilesHold, Listed
  <2>1. \A q \in Listed(registry) \ files :
              \E d \in Clients : Unlinking(d) /\ q \notin Listed(job[d].copy)
    BY <1>9 DEF OnDisk, FilesHold
  <2>2. ~job[c].stale
    BY <1>8, <1>9
  <2>3. Listed(job[c].copy) \subseteq Listed(registry) \ job[c].todo
    BY <1>1, <1>2, <2>2 DEF OnDisk, FreshJobs, Fresh
  <2>4. r \notin Listed(job[c].copy)
    BY <1>3, <2>3
  <2> QED
    BY <1>3, <1>4, <1>8, <1>9, <2>1, <2>4
<1> QED
  BY <1>10, <1>11, <1>12 DEF OnDisk

LEMMA WriteDisk ==
    ASSUME Well, OnDisk, NEW c \in Clients, Write(c)
    PROVE  OnDisk'
<1>1. /\ Busy(c) /\ job[c] \in Jobs /\ Formed(job[c]) /\ job[c].at = "write"
      /\ job[c].op \in {"upload", "assign", "untag", "remove"}
      /\ job'[c] = IF job[c].op \in {"assign", "untag"} THEN [job[c] EXCEPT !.at = "apply"] ELSE NoRequest
      /\ Busy(c)' <=> job[c].op \in {"assign", "untag"}
      /\ \A d \in Clients \ {c} :
           (Busy(d)' <=> Busy(d)) /\ (Busy(d) => Alike(job'[d], job[d]) /\ job'[d].stale)
  BY WriteJobs
<1>2. registry' = job[c].copy /\ files' = files /\ muddled' = (muddled \/ job[c].stale)
  BY DEF Write
<1>3. Busy(c)' => job'[c].at = "apply"
  BY <1>1 DEF Jobs
<1>4. FreshJobs'
  BY <1>1, <1>3 DEF FreshJobs, Fresh
<1>5. SUFFICES ASSUME ~muddled, ~job[c].stale
               PROVE  /\ TagsOK(registry)'
                      /\ \/ \E d \in Clients : Unlinking(d)' /\ job'[d].stale
                         \/ /\ Listed(registry') \subseteq files'
                            /\ \A d \in Clients : ~(At(d, "write")' /\ ~job'[d].stale)
  BY <1>2, <1>4 DEF OnDisk, TagsHold, FilesHold, Listed
<1>6. Fresh(job[c])
  BY <1>1, <1>5 DEF OnDisk, FreshJobs
<1>7. TagsOK(registry)'
  BY <1>1, <1>2, <1>5, <1>6 DEF OnDisk, TagsHold, Fresh, TagsOK, Listed
<1>8. \A d \in Clients : ~(At(d, "write")' /\ ~job'[d].stale)
  BY <1>1, <1>3 DEF At
<1>9. CASE \E d \in Clients \ {c} : Unlinking(d)
  BY <1>1, <1>7, <1>9 DEF Unlinking, Alike
<1>10. CASE ~ \E d \in Clients \ {c} : Unlinking(d)
  <2>1. /\ \A r \in Listed(registry) \ files :
              Unlinking(c) /\ r \notin Listed(job[c].copy)
        /\ \A d \in Clients : At(d, "write") /\ job[d].op = "upload" /\ ~job[d].stale =>
              job[d].rev \in files \/ Unlinking(c)
    BY <1>5, <1>10 DEF OnDisk, FilesHold
  <2>2. Listed(job[c].copy) \subseteq files
    <3>1. CASE job[c].op = "upload"
      <4>1. ~Unlinking(c)
        BY <3>1 DEF Unlinking
      <4>2. job[c].rev \in files
        BY <1>1, <1>5, <2>1, <3>1, <4>1 DEF At
      <4> QED
        BY <1>1, <1>6, <2>1, <3>1, <4>1, <4>2 DEF Fresh
    <3>2. CASE job[c].op \in {"assign", "untag"}
      <4>1. ~Unlinking(c)
        BY <3>2 DEF Unlinking
      <4> QED
        BY <1>1, <1>6, <2>1, <3>2, <4>1 DEF Fresh
    <3>3. CASE job[c].op = "remove"
      BY <1>1, <1>6, <2>1, <3>3 DEF Fresh
    <3> QED
      BY <1>1, <3>1, <3>2, <3>3
  <2> QED
    BY <1>2, <1>7, <1>8, <2>2
<1> QED
  BY <1>9, <1>10

LEMMA FailsDisk ==
    ASSUME Well, OnDisk, NEW c \in Clients, Fails(c)
    PROVE  OnDisk'
<1>1. Busy(c) /\ job[c] \in Jobs
  BY FailsWell
<1>2. Go(c, job[c], "end") /\ UNCHANGED diskVars /\ muddled' = (muddled \/ job[c].op = "remove")
  BY DEF Fails
<1>3. CASE job[c].op # "remove"
  <2>1. muddled' = muddled
    BY <1>2, <1>3 DEF Well, RegistryTypeOK, StoreTypeOK
  <2> QED
    BY <1>1, <1>2, <1>3, <2>1, DiskPassed DEF Unlinking, DiskSteps
<1>4. CASE job[c].op = "remove"
  <2>1. muddled'
    BY <1>2, <1>4
  <2>2. job \in [Clients -> Jobs \union {NoRequest}]
    BY DEF Well, RegistryTypeOK
  <2>3. \A d \in Clients \ {c} : job'[d] = job[d]
    BY <1>2, <2>2 DEF Go
  <2>4. ~Busy(c)'
    BY <1>2, <2>2 DEF Go, Busy
  <2>5. ASSUME NEW d \in Clients, Busy(d)', ~job'[d].stale PROVE Fresh(job[d])'
    <3>1. Fresh(job[d]) /\ job'[d] = job[d]
      BY <2>3, <2>4, <2>5 DEF OnDisk, FreshJobs, Busy
    <3> QED
      BY <1>2, <3>1 DEF Fresh, TagsOK, Listed, diskVars
  <2> QED
    BY <2>1, <2>5 DEF OnDisk, FreshJobs, TagsHold, FilesHold
<1> QED
  BY <1>3, <1>4

\* The other steps leave the registry and the files alone.
LEMMA ElseDisk ==
    ASSUME Well, OnDisk, NEW c \in Clients, Apply(c) \/ CheckUse(c) \/ Reload(c)
    PROVE  OnDisk'
<1>1. CASE Apply(c)
  <2> DEFINE q == Request("refresh", "load")
             n == [q EXCEPT !.alone = job[c].alone]
  <2>1. Busy(c) /\ job[c] \in Jobs /\ job[c].at = "apply"
    BY <1>1, AtJob DEF Apply
  <2>2. q \in Jobs
    BY RequestTyped DEF Ops, RequestSteps
  <2> HIDE DEF q
  <2>3. n \in Jobs
    BY <2>1, <2>2 DEF Jobs
  <2> HIDE DEF n
  <2>4. Go(c, n, "load") \/ Go(c, job[c], "end")
    BY <1>1 DEF Apply, n, q
  <2>5. ~Unlinking(c) /\ UNCHANGED <<diskVars, muddled>>
    BY <1>1, <2>1 DEF Apply, Unlinking
  <2>6. CASE Go(c, n, "load")
    BY <2>1, <2>3, <2>5, <2>6, DiskPassed DEF DiskSteps, RequestSteps
  <2>7. CASE Go(c, job[c], "end")
    BY <2>1, <2>5, <2>7, DiskPassed DEF DiskSteps
  <2> QED
    BY <2>4, <2>6, <2>7
<1>2. CASE CheckUse(c)
  <2>1. Busy(c) /\ job[c] \in Jobs /\ job[c].at = "check"
    BY <1>2, AtJob DEF CheckUse
  <2>2. ~Unlinking(c) /\ UNCHANGED <<diskVars, muddled>>
    BY <1>2, <2>1 DEF CheckUse, Unlinking
  <2>3. Go(c, job[c], "load") \/ Go(c, job[c], "end")
    BY <1>2 DEF CheckUse
  <2> QED
    BY <2>1, <2>2, <2>3, DiskPassed DEF DiskSteps, RequestSteps
<1>3. CASE Compile(c)
  <2>1. Busy(c) /\ job[c] \in Jobs /\ job[c].at = "compile"
    BY <1>3, AtJob DEF Compile
  <2>2. ~Unlinking(c) /\ UNCHANGED <<diskVars, muddled>>
    BY <1>3, <2>1 DEF Compile, Unlinking
  <2>3. CASE Go(c, job[c], "swap")
    <3>1. ~job[c].stale => Fresh(job[c])
      BY <2>1 DEF OnDisk, FreshJobs
    <3>2. ~job[c].stale => Fresh([job[c] EXCEPT !.at = "swap"])
      BY <2>1, <3>1 DEF Fresh, Jobs
    <3> QED
      BY <2>1, <2>2, <2>3, <3>2, DiskPassed DEF DiskSteps, RequestSteps
  <2>4. CASE Go(c, job[c], "end")
    BY <2>1, <2>2, <2>4, DiskPassed DEF DiskSteps, RequestSteps
  <2> QED
    BY <1>3, <2>3, <2>4 DEF Compile
<1>4. CASE Swap(c)
  <2> DEFINE n == [job[c] EXCEPT !.base = NoEntry, !.copy = NoEntry]
  <2>1. Busy(c) /\ job[c] \in Jobs /\ job[c].at = "swap"
    BY <1>4, AtJob DEF Swap
  <2>2. ~Unlinking(c) /\ UNCHANGED <<diskVars, muddled>> /\ Go(c, n, "select")
    BY <1>4, <2>1 DEF Swap, Unlinking
  <2>3. n \in Jobs
    BY <2>1, EntryTyped DEF Jobs
  <2> HIDE DEF n
  <2> QED
    BY <2>1, <2>2, <2>3, DiskPassed DEF DiskSteps, RequestSteps
<1>5. CASE Select(c)
  <2> DEFINE n == [job[c] EXCEPT !.tag = spec.sel, !.rev = spec.rev, !.of = spec, !.was = run # None]
  <2>1. Busy(c) /\ job[c] \in Jobs /\ job[c].at = "select"
    BY <1>5, AtJob DEF Select
  <2>2. ~Unlinking(c) /\ UNCHANGED <<diskVars, muddled>>
    BY <1>5, <2>1 DEF Select, Unlinking
  <2>3. CASE Go(c, job[c], "end")
    BY <2>1, <2>2, <2>3, DiskPassed DEF DiskSteps, RequestSteps
  <2>4. CASE spec # None /\ Go(c, n, "resolve")
    <3>1. spec \in Specs /\ spec.sel \in Selectors /\ spec.rev \in Revisions
      BY <2>4 DEF Well, RegistryTypeOK, StoreTypeOK, Specs
    <3>2. n \in Jobs
      BY <2>1, <3>1 DEF Jobs
    <3> HIDE DEF n
    <3> QED
      BY <2>1, <2>2, <2>4, <3>2, DiskPassed DEF DiskSteps, RequestSteps
  <2> QED
    BY <1>5, <2>3, <2>4 DEF Select
<1>6. CASE Resolve(c)
  <2> DEFINE j == job[c]
             n == Found(j, Asked(j))
             step == AfterResolve(j, Resolved(Asked(j)))
  <2>1. Busy(c) /\ j \in Jobs /\ j.at = "resolve" /\ Asked(j) \in Selectors /\ Go(c, n, step)
    BY <1>6, ResolveJob
  <2>2. ~Unlinking(c) /\ UNCHANGED <<diskVars, muddled>>
    BY <1>6, <2>1 DEF Resolve, Unlinking
  <2>3. n \in Jobs
    BY <2>1, FoundTyped
  <2>4. step \in {"end", "stop", "pin"}
    BY DEF AfterResolve
  <2> HIDE DEF n, step
  <2> QED
    BY <2>1, <2>2, <2>3, <2>4, DiskPassed DEF DiskSteps, RequestSteps
<1>7. CASE Pin(c) \/ Restart(c) \/ StopRetired(c)
  <2>1. Busy(c) /\ job[c] \in Jobs /\ job[c].at \in {"pin", "restart", "stop"}
    BY <1>7, AtJob DEF Pin, Restart, StopRetired
  <2>2. ~Unlinking(c) /\ UNCHANGED <<diskVars, muddled>>
    BY <1>7, <2>1 DEF Pin, Restart, StopRetired, Unlinking
  <2>3. Go(c, job[c], "restart") \/ Go(c, job[c], "end")
    BY <1>7 DEF Pin, Restart, StopRetired
  <2> QED
    BY <2>1, <2>2, <2>3, DiskPassed DEF DiskSteps, RequestSteps
<1> QED
  BY <1>1, <1>2, <1>3, <1>4, <1>5, <1>6, <1>7 DEF Reload

LEMMA InitDisk ==
    ASSUME RegistryInit
    PROVE  OnDisk
<1>1. \A c \in Clients : ~Busy(c)
  BY DEF RegistryInit, Busy
<1>2. files = Listed(registry) /\ registry \in InitialEntries
  BY DEF RegistryInit
<1>3. TagsOK(NoEntry)
  BY DEF TagsOK, NoEntry
<1>4. \A r \in Revisions : TagsOK(Stored(NoEntry, r)) /\ Stored(NoEntry, r) \in Entries
  BY <1>3, EntryTyped, StoredTyped, ListedStored
<1>5. \A p \in Revisions \X Revisions : TagsOK(Stored(Stored(NoEntry, p[1]), p[2]))
  BY <1>4, ListedStored
<1>6. TagsOK(registry)
  BY <1>2, <1>3, <1>4, <1>5 DEF InitialEntries
<1> QED
  BY <1>1, <1>2, <1>6 DEF OnDisk, FreshJobs, TagsHold, FilesHold, At

LEMMA NextDisk ==
    ASSUME Well, OnDisk, [RegistryNext]_registryVars
    PROVE  OnDisk'
<1>1. CASE Control
  BY <1>1, ControlDisk
<1>2. ASSUME NEW c \in Clients, Begin(c) PROVE OnDisk'
  BY <1>2, BeginDisk
<1>3. ASSUME NEW c \in Clients, Disk(c) PROVE OnDisk'
  BY <1>3, LoadDisk, PersistDisk, UnlinkDisk, WriteDisk, FailsDisk, ElseDisk DEF Disk
<1>4. ASSUME NEW c \in Clients, Reload(c) PROVE OnDisk'
  BY <1>4, ElseDisk
<1>5. CASE UNCHANGED registryVars
  <2>1. job' = job /\ UNCHANGED <<diskVars, muddled>>
    BY <1>5 DEF registryVars
  <2> QED
    BY <2>1, DiskKept DEF Busy, Alike, Unlinking
<1> QED
  BY <1>1, <1>2, <1>3, <1>4, <1>5 DEF RegistryNext

LEMMA Loads ==
    ASSUME Well, OnDisk
    PROVE  RegistryLoads
<1> SUFFICES ASSUME ~muddled, \A c \in Clients : ~Busy(c) \/ job[c].at \in {"load", "check"}
             PROVE  Compiles(registry) /\ TagsOK(registry)
  BY DEF RegistryLoads, TagsOK
<1>1. \A c \in Clients : ~Unlinking(c)
  BY DEF Unlinking
<1>2. Listed(registry) \subseteq files
  BY <1>1 DEF OnDisk, FilesHold
<1>3. TagsOK(registry)
  BY DEF OnDisk, TagsHold
<1> QED
  BY <1>2, <1>3, RegistryAssumption DEF Compiles, TagsOK

\* Between requests a refresh succeeds, and every tag names a revision.
THEOREM RegistryAlwaysLoads == RegistrySpec => []RegistryLoads
<1>1. RegistryInit => Well /\ OnDisk
  BY InitWell, InitDisk
<1>2. Well /\ OnDisk /\ [RegistryNext]_registryVars => (Well /\ OnDisk)'
  BY NextWell, NextDisk
<1>3. Well /\ OnDisk => RegistryLoads
  BY Loads
<1> QED
  BY <1>1, <1>2, <1>3, PTL DEF RegistrySpec

-----------------------------------------------------------------------------
\* What runs.

OnRun == RunHolds /\ RefreshHolds /\ RemovalHolds /\ RunsWhatIsTagged

\* What memory finds after it has been read from the registry is what the registry says.
Tagged(s) ==
    CASE s = "name" -> Default(registry)
      [] s \in Tags -> IF registry.tags[s] # None THEN registry.tags[s] ELSE Default(registry)
      [] OTHER -> s

LEMMA FoundTagged ==
    ASSUME mem = FromRegistry(registry), NEW s \in Selectors, Resolution(s) \in Revisions
    PROVE  Resolution(s) = Tagged(s)
<1>1. None \notin Revisions /\ "name" \notin Tags
  BY RegistryAssumption
<1>2. Loaded = Listed(registry) /\ mem.default = Default(registry)
  BY DEF Loaded, Listed, FromRegistry
<1>3. Resolution(s) \in Loaded
  BY <1>1 DEF Resolution
<1>4. mem.tags = registry.tags
  BY <1>2, <1>3 DEF FromRegistry
<1>5. CASE s = "name"
  BY <1>1, <1>2, <1>5 DEF Resolution, Tagged
<1>6. CASE s \in Tags
  <2>1. TagResolved(s) = Resolution(s) /\ s # "name"
    BY <1>1, <1>6 DEF Resolution
  <2>2. TagResolved(s) = IF registry.tags[s] # None THEN registry.tags[s]
                         ELSE IF s = "latest" THEN Default(registry) ELSE None
    BY <1>2, <1>4 DEF TagResolved
  <2>3. Tagged(s) = IF registry.tags[s] # None THEN registry.tags[s] ELSE Default(registry)
    BY <1>6, <2>1 DEF Tagged
  <2> QED
    BY <1>1, <2>1, <2>2, <2>3
<1>7. CASE s \notin Tags \union {"name"}
  BY <1>1, <1>7 DEF Resolution, Tagged
<1> QED
  BY <1>5, <1>6, <1>7

LEMMA TaggedStated ==
    RunsWhatIsTagged <=>
        (synced # None /\ run # None /\ spec # None =>
            spec.rev = Tagged(synced) /\ (crossed \/ run = spec.rev))
BY DEF RunsWhatIsTagged, Tagged

\* In the step of a request that has begun no other is alone.
LEMMA AloneMoves ==
    ASSUME Well, NEW c \in Clients, Busy(c), NEW d \in Clients \ {c}, Busy(d)
    PROVE  ~job[d].alone
BY DEF Well, AloneHolds

\* A step that leaves the instance alone keeps what runs, as far as no request is
\* alone and none comes to restart.
LEMMA RunKept ==
    ASSUME OnRun, UNCHANGED <<runVars, crossed>>, synced' = None,
           \A d \in Clients : At(d, "restart") => At(d, "restart")',
           \A d \in Clients : Lone(d, "refresh")' =>
              job'[d].at \notin {"select", "resolve", "pin", "restart", "stop"},
           \A d \in Clients : Lone(d, "remove")' /\ job'[d].at # "check" =>
              Lone(d, "remove") /\ job[d].at # "check" /\ job'[d].sel = job[d].sel
    PROVE  OnRun'
<1>1. spec' = spec /\ run' = run /\ crossed' = crossed
  BY DEF runVars
<1>2. RunHolds'
  BY <1>1 DEF OnRun, RunHolds
<1>3. RefreshHolds'
  BY DEF RefreshHolds
<1>4. RemovalHolds'
  BY <1>1 DEF OnRun, RemovalHolds
<1>5. RunsWhatIsTagged'
  BY DEF RunsWhatIsTagged
<1> QED
  BY <1>2, <1>3, <1>4, <1>5 DEF OnRun

LEMMA BeginRun ==
    ASSUME Well, OnRun, NEW c \in Clients, Begin(c)
    PROVE  OnRun'
<1>1. /\ ~Busy(c)
      /\ job'[c] = NoRequest \/ Started(job'[c])
      /\ \A d \in Clients \ {c} :
           job'[d] = IF Busy(d) THEN [job[d] EXCEPT !.alone = FALSE] ELSE NoRequest
  BY BeginsWith
<1>2. ASSUME NEW d \in Clients \ {c}
      PROVE  /\ At(d, "restart") => At(d, "restart")'
             /\ Busy(d)' => ~job'[d].alone
  <2>1. CASE ~Busy(d)
    BY <1>1, <2>1 DEF Busy, At
  <2>2. CASE Busy(d)
    <3>1. job[d] \in Jobs /\ job'[d] = [job[d] EXCEPT !.alone = FALSE]
      BY <1>1, <2>2, BusyJob DEF Well
    <3>2. job'[d] \in Jobs /\ job'[d].at = job[d].at /\ ~job'[d].alone
      BY <3>1 DEF Jobs
    <3> QED
      BY <3>2, NoJob DEF At, Busy
  <2> QED
    BY <2>1, <2>2
<1>3. Busy(c)' => /\ job'[c].op = "refresh" => job'[c].at = "compile"
                  /\ job'[c].op = "remove" => job'[c].at = "check"
  BY <1>1 DEF Busy, Started
<1>4. UNCHANGED <<runVars, crossed>> /\ synced' = None
  BY DEF Begin
<1> QED
  BY <1>1, <1>2, <1>3, <1>4, RunKept DEF Lone, At

LEMMA ControlRun ==
    ASSUME Well, OnRun, Control
    PROVE  OnRun'
<1>1. \A c \in Clients : (Busy(c)' <=> Busy(c)) /\ (Busy(c) => ~job'[c].alone)
  BY ControlJobs
<1>2. RefreshHolds' /\ RemovalHolds'
  BY <1>1 DEF RefreshHolds, RemovalHolds, Lone
<1>3. (spec' = None => run' = None) /\ (run' # None => run' = spec'.rev)
  BY DEF Control, StartInstance
<1>4. RunHolds'
  BY <1>3 DEF RunHolds
<1>5. RunsWhatIsTagged'
  BY DEF Control, RunsWhatIsTagged
<1> QED
  BY <1>2, <1>4, <1>5 DEF OnRun

LEMMA LoadRun ==
    ASSUME Well, OnRun, NEW c \in Clients, Load(c)
    PROVE  OnRun'
<1>1. /\ \A d \in Clients \ {c} : job'[d] = job[d] /\ (Busy(d)' <=> Busy(d))
      /\ job[c].at = "load" /\ Busy(c)
      /\ job'[c] = NoRequest \/ Reread(job'[c], job[c])
  BY LoadWell
<1>2. \A d \in Clients \ {c} : Busy(d)' => ~job'[d].alone
  BY <1>1, AloneMoves
<1>3. Busy(c)' => /\ job'[c].at \in {"unlink", "compile"} /\ job'[c].sel = job[c].sel
                  /\ job'[c].op = job[c].op /\ job'[c].alone = job[c].alone
  BY <1>1 DEF Busy, Reread
<1>4. UNCHANGED <<runVars, crossed>> /\ synced' = synced
  BY DEF Load
<1>5. synced = None
  BY <1>1 DEF Well, AloneHolds, NoneUnderWay
<1>6. \A d \in Clients : At(d, "restart") => At(d, "restart")'
  BY <1>1 DEF At
<1> QED
  BY <1>1, <1>2, <1>3, <1>4, <1>5, <1>6, RunKept DEF Lone

LEMMA WriteRun ==
    ASSUME Well, OnRun, NEW c \in Clients, Write(c)
    PROVE  OnRun'
<1>1. /\ Busy(c) /\ job[c] \in Jobs /\ job[c].at = "write"
      /\ job[c].op \in {"upload", "assign", "untag", "remove"}
      /\ job'[c] = IF job[c].op \in {"assign", "untag"} THEN [job[c] EXCEPT !.at = "apply"] ELSE NoRequest
      /\ Busy(c)' <=> job[c].op \in {"assign", "untag"}
      /\ \A d \in Clients \ {c} :
           /\ Busy(d)' <=> Busy(d)
           /\ Busy(d) => Alike(job'[d], job[d]) /\ job'[d].alone = job[d].alone
  BY WriteJobs
<1>2. \A d \in Clients \ {c} : Busy(d)' => ~job'[d].alone
  BY <1>1, AloneMoves
<1>3. Busy(c)' => job'[c].op \in {"assign", "untag"}
  BY <1>1 DEF Jobs
<1>4. UNCHANGED <<runVars, crossed>> /\ synced' = synced
  BY DEF Write
<1>5. synced = None
  BY <1>1 DEF Well, AloneHolds, NoneUnderWay
<1>6. \A d \in Clients : At(d, "restart") => At(d, "restart")'
  BY <1>1 DEF At, Alike
<1> QED
  BY <1>1, <1>2, <1>3, <1>4, <1>5, <1>6, RunKept DEF Lone

\* The step of one request that leaves the instance alone, up to "select".
LEMMA RunPassed ==
    ASSUME Well, OnRun, NEW c \in Clients, Busy(c), NEW k \in Jobs, NEW step \in RequestSteps \union {"end"},
           Go(c, k, step), UNCHANGED <<runVars, crossed>>, synced' = synced, job[c].at # "restart",
           k.alone = job[c].alone,
           k.op = "refresh" => step \notin {"select", "resolve", "pin", "restart", "stop"},
           k.op = "remove" => job[c].op = "remove" /\ k.sel = job[c].sel /\ job[c].at # "check"
    PROVE  OnRun'
<1>1. job \in [Clients -> Jobs \union {NoRequest}]
  BY DEF Well, RegistryTypeOK
<1>2. job'[c] = IF step = "end" THEN NoRequest ELSE [k EXCEPT !.at = step]
  BY <1>1 DEF Go
<1>3. \A d \in Clients \ {c} : job'[d] = job[d] /\ (Busy(d)' <=> Busy(d))
  BY <1>1 DEF Go, Busy
<1>4. Busy(c)' => job'[c].op = k.op /\ job'[c].at = step /\ job'[c].sel = k.sel /\ job'[c].alone = k.alone
  BY <1>2 DEF Busy, Jobs
<1>5. \A d \in Clients \ {c} : Busy(d)' => ~job'[d].alone
  BY <1>3, AloneMoves
<1>6. synced = None
  BY DEF Well, AloneHolds, NoneUnderWay
<1>7. \A d \in Clients : At(d, "restart") => At(d, "restart")'
  BY <1>3 DEF At
<1>8. ASSUME NEW d \in Clients, Lone(d, "refresh")'
      PROVE  job'[d].at \notin {"select", "resolve", "pin", "restart", "stop"}
  BY <1>4, <1>5, <1>8 DEF Lone
<1>9. ASSUME NEW d \in Clients, Lone(d, "remove")'
      PROVE  Lone(d, "remove") /\ job[d].at # "check" /\ job'[d].sel = job[d].sel
  BY <1>4, <1>5, <1>9 DEF Lone
<1> QED
  BY <1>6, <1>7, <1>8, <1>9, RunKept

LEMMA CheckUseRun ==
    ASSUME Well, OnRun, NEW c \in Clients, CheckUse(c)
    PROVE  OnRun'
<1>1. Busy(c) /\ job[c] \in Jobs /\ Formed(job[c]) /\ job[c].at = "check"
  BY AtJob DEF CheckUse
<1>2. job[c].op = "remove" /\ job[c].sel \in Selectors
  BY <1>1 DEF Formed, StepsOf, Jobs, Ops
<1>3. job \in [Clients -> Jobs \union {NoRequest}] /\ synced = None
  BY <1>1 DEF Well, RegistryTypeOK, AloneHolds, NoneUnderWay
<1>4. \A d \in Clients \ {c} : job'[d] = job[d] /\ (Busy(d)' <=> Busy(d))
  BY <1>3 DEF CheckUse, Go, Busy
<1>5. spec' = spec /\ run' = run /\ crossed' = crossed /\ synced' = None
  BY <1>3 DEF CheckUse, runVars
<1>6. \A d \in Clients \ {c} : Busy(d)' => ~job'[d].alone
  BY <1>1, <1>4, AloneMoves
<1>7. \A d \in Clients : At(d, "restart") => At(d, "restart")'
  BY <1>1, <1>4 DEF At
<1>8. RunHolds'
  BY <1>5, <1>7 DEF OnRun, RunHolds
<1>9. Busy(c)' => /\ ~InUse(job[c].sel)
                  /\ job[c].sel = "name" \/ Resolved(job[c].sel) # None
                  /\ job'[c].op = "remove" /\ job'[c].sel = job[c].sel /\ job'[c].alone = job[c].alone
  BY <1>1, <1>2, <1>3 DEF CheckUse, Go, Busy, Jobs
<1>10. RefreshHolds'
  BY <1>6, <1>9 DEF RefreshHolds, Lone
<1>11. RemovalHolds'
  <2> SUFFICES ASSUME NEW d \in Clients, Lone(d, "remove")', job'[d].sel \notin Tags, ~crossed, run # None
               PROVE  job'[d].sel \in Revisions \ {run}
    BY <1>5 DEF RemovalHolds
  <2>1. d = c /\ Busy(c)' /\ job[c].alone
    BY <1>6, <1>9 DEF Lone
  <2>2. spec # None
    BY DEF OnRun, RunHolds
  <2>3. ~ \E e \in Clients : At(e, "restart")
    BY <1>1, <2>1 DEF Well, AloneHolds, At
  <2>4. run = spec.rev
    BY <2>3 DEF OnRun, RunHolds
  <2>5. job[c].sel # "name" /\ Resolved(job[c].sel) # None /\ spec.rev # Resolved(job[c].sel)
    BY <1>9, <2>1, <2>2 DEF InUse
  <2>6. job[c].sel \in Revisions
    BY <1>2, <1>9, <2>1, <2>5 DEF Selectors
  <2>7. Resolved(job[c].sel) = job[c].sel
    BY <1>2, <2>5, <2>6, ResolvedFound
  <2> QED
    BY <1>9, <2>1, <2>4, <2>5, <2>6, <2>7
<1>12. RunsWhatIsTagged'
  BY <1>5 DEF RunsWhatIsTagged
<1> QED
  BY <1>8, <1>10, <1>11, <1>12 DEF OnRun

LEMMA ElseRun ==
    ASSUME Well, OnRun, NEW c \in Clients, Persist(c) \/ Unlink(c) \/ Fails(c) \/ Apply(c) \/ Compile(c)
    PROVE  OnRun'
<1>1. CASE Persist(c)
  <2>1. Busy(c) /\ job[c] \in Jobs /\ Formed(job[c]) /\ job[c].at = "persist"
    BY <1>1, AtJob DEF Persist
  <2>2. job[c].op = "upload"
    BY <2>1 DEF Formed, StepsOf, Jobs, Ops
  <2>3. Go(c, job[c], "write") /\ UNCHANGED <<runVars, crossed>> /\ synced' = synced
    BY <1>1 DEF Persist
  <2> QED
    BY <2>1, <2>2, <2>3, RunPassed DEF RequestSteps
<1>2. CASE Unlink(c)
  <2>1. Busy(c) /\ job[c] \in Jobs /\ Formed(job[c]) /\ job[c].at = "unlink"
    BY <1>2, AtJob DEF Unlink
  <2>2. job[c].op = "remove"
    BY <2>1 DEF Formed, StepsOf, Jobs, Ops
  <2>3. PICK r \in job[c].todo :
           Go(c, [job[c] EXCEPT !.todo = job[c].todo \ {r}], IF job[c].todo \ {r} = {} THEN "write" ELSE "unlink")
    BY <1>2 DEF Unlink
  <2> DEFINE k == [job[c] EXCEPT !.todo = job[c].todo \ {r}]
             step == IF job[c].todo \ {r} = {} THEN "write" ELSE "unlink"
  <2>4. k \in Jobs /\ k.op = "remove" /\ k.alone = job[c].alone /\ k.sel = job[c].sel
    BY <2>1, <2>2 DEF Jobs
  <2>5. step \in {"write", "unlink"} /\ Go(c, k, step)
    BY <2>3
  <2>6. UNCHANGED <<runVars, crossed>> /\ synced' = synced
    BY <1>2 DEF Unlink
  <2> HIDE DEF k, step
  <2> QED
    BY <2>1, <2>2, <2>4, <2>5, <2>6, RunPassed DEF RequestSteps
<1>3. CASE Fails(c)
  <2>1. Busy(c) /\ job[c] \in Jobs /\ job[c].at \in {"persist", "unlink", "write"}
    BY <1>3, FailsWell
  <2>2. Go(c, job[c], "end") /\ UNCHANGED <<runVars, crossed>> /\ synced' = synced
    BY <1>3 DEF Fails
  <2> QED
    BY <2>1, <2>2, RunPassed DEF RequestSteps
<1>4. CASE Apply(c)
  <2> DEFINE q == Request("refresh", "load")
             n == [q EXCEPT !.alone = job[c].alone]
  <2>1. Busy(c) /\ job[c] \in Jobs /\ Formed(job[c]) /\ job[c].at = "apply"
    BY <1>4, AtJob DEF Apply
  <2>2. q \in Jobs /\ q.op = "refresh"
    BY RequestTyped DEF Ops, RequestSteps
  <2> HIDE DEF q
  <2>3. n \in Jobs /\ n.op = "refresh" /\ n.alone = job[c].alone
    BY <2>1, <2>2 DEF Jobs
  <2> HIDE DEF n
  <2>4. Go(c, n, "load") \/ Go(c, job[c], "end")
    BY <1>4 DEF Apply, n, q
  <2>5. UNCHANGED <<runVars, crossed>> /\ synced' = synced
    BY <1>4 DEF Apply
  <2>6. CASE Go(c, n, "load")
    BY <2>1, <2>3, <2>5, <2>6, RunPassed DEF RequestSteps
  <2>7. CASE Go(c, job[c], "end")
    BY <2>1, <2>5, <2>7, RunPassed DEF RequestSteps
  <2> QED
    BY <2>4, <2>6, <2>7
<1>5. CASE Compile(c)
  <2>1. Busy(c) /\ job[c] \in Jobs /\ job[c].at = "compile" /\ job[c].op = "refresh"
    BY <1>5, CompileWell
  <2>2. UNCHANGED <<runVars, crossed>> /\ synced' = synced /\ (Go(c, job[c], "swap") \/ Go(c, job[c], "end"))
    BY <1>5 DEF Compile
  <2> QED
    BY <2>1, <2>2, RunPassed DEF RequestSteps
<1> QED
  BY <1>1, <1>2, <1>3, <1>4, <1>5

\* The step of a request after which only what it itself is about has changed.
Elsewhere(c) ==
    \A d \in Clients \ {c} :
        /\ job'[d] = job[d] /\ (Busy(d)' <=> Busy(d)) /\ (Busy(d)' => ~job'[d].alone)
        /\ At(d, "restart") <=> At(d, "restart")'

Became(n, k, step) ==
    /\ step # "end" /\ n.op = k.op /\ n.at = step /\ n.sel = k.sel
    /\ n.alone = k.alone /\ n.rev = k.rev /\ n.of = k.of /\ n.was = k.was

LEMMA Moves ==
    ASSUME Well, NEW c \in Clients, Busy(c), NEW k \in Jobs, NEW step \in RequestSteps \union {"end"},
           Go(c, k, step), k.alone = job[c].alone
    PROVE  /\ synced = None
           /\ Elsewhere(c)
           /\ Busy(c)' => Became(job'[c], k, step)
           /\ step # "end" => Busy(c)'
<1>1. job \in [Clients -> Jobs \union {NoRequest}]
  BY DEF Well, RegistryTypeOK
<1>2. job'[c] = IF step = "end" THEN NoRequest ELSE [k EXCEPT !.at = step]
  BY <1>1 DEF Go
<1>3. \A d \in Clients \ {c} : job'[d] = job[d] /\ (Busy(d)' <=> Busy(d))
  BY <1>1 DEF Go, Busy
<1>4. [k EXCEPT !.at = step].op = k.op /\ [k EXCEPT !.at = step].at = step
      /\ [k EXCEPT !.at = step].sel = k.sel /\ [k EXCEPT !.at = step].rev = k.rev
      /\ [k EXCEPT !.at = step].of = k.of /\ [k EXCEPT !.at = step].was = k.was
      /\ [k EXCEPT !.at = step].alone = k.alone /\ [k EXCEPT !.at = step].op \in Ops
  BY DEF Jobs
<1>5. Busy(c)' <=> step # "end"
  BY <1>2, <1>4 DEF Busy, NoRequest, Ops
<1>6. \A d \in Clients \ {c} : Busy(d)' => ~job'[d].alone
  BY <1>3, AloneMoves
<1>7. synced = None
  BY DEF Well, AloneHolds, NoneUnderWay
<1> QED
  BY <1>2, <1>3, <1>4, <1>5, <1>6, <1>7 DEF At, Elsewhere, Became

LEMMA SwapRun ==
    ASSUME Well, OnDisk, OnRun, NEW c \in Clients, Swap(c)
    PROVE  OnRun'
<1> DEFINE k == [job[c] EXCEPT !.base = NoEntry, !.copy = NoEntry]
<1>1. Busy(c) /\ job[c] \in Jobs /\ job[c].at = "swap" /\ job[c].op = "refresh"
  BY SwapWell
<1>2. k \in Jobs /\ k.op = "refresh" /\ k.alone = job[c].alone
  BY <1>1, EntryTyped DEF Jobs
<1>3. Go(c, k, "select") /\ mem' = FromRegistry(job[c].base) /\ UNCHANGED <<diskVars, runVars, crossed>> /\ synced' = synced
  BY DEF Swap
<1> HIDE DEF k
<1>4. synced = None /\ Elsewhere(c) /\ (Busy(c)' => Became(job'[c], k, "select"))
  BY <1>1, <1>2, <1>3, Moves DEF RequestSteps
<1>5. RunHolds'
  BY <1>1, <1>3, <1>4 DEF OnRun, RunHolds, At, runVars, Elsewhere
<1>6. RefreshHolds'
  <2>1. job[c].alone => job[c].base = registry
    BY <1>1 DEF Well, AloneHolds, OnDisk, FreshJobs, Fresh
  <2>2. job[c].alone => mem' = FromRegistry(registry')
    BY <1>3, <2>1 DEF diskVars
  <2>3. mem' = FromRegistry(registry') => (mem = FromRegistry(registry))'
    BY DEF FromRegistry, Default, Listed, NoEntry
  <2> QED
    BY <1>2, <1>4, <2>2, <2>3 DEF RefreshHolds, Lone, Elsewhere, Became
<1>7. RemovalHolds'
  BY <1>2, <1>4 DEF RemovalHolds, Lone, Elsewhere, Became
<1>8. RunsWhatIsTagged'
  BY <1>3, <1>4 DEF RunsWhatIsTagged
<1> QED
  BY <1>5, <1>6, <1>7, <1>8 DEF OnRun

LEMMA MemoryKept ==
    ASSUME UNCHANGED <<diskVars, mem>>
    PROVE  /\ mem = FromRegistry(registry) <=> (mem = FromRegistry(registry))'
           /\ \A s : Resolution(s)' = Resolution(s)
BY DEF diskVars, FromRegistry, Default, Listed, NoEntry, Resolution, TagResolved, Loaded

LEMMA SelectRun ==
    ASSUME Well, OnRun, NEW c \in Clients, Select(c)
    PROVE  OnRun'
<1> DEFINE n == [job[c] EXCEPT !.tag = spec.sel, !.rev = spec.rev, !.of = spec, !.was = run # None]
<1>1. Busy(c) /\ job[c] \in Jobs /\ job[c].at = "select" /\ job[c].op = "refresh"
  BY SelectWell
<1>2. spec' = spec /\ run' = run /\ crossed' = crossed /\ UNCHANGED <<diskVars, mem>> /\ synced' = synced
  BY DEF Select, runVars, memVars
<1>3. CASE Go(c, job[c], "end")
  BY <1>1, <1>2, <1>3, RunPassed DEF RequestSteps, runVars
<1>4. CASE spec # None /\ Go(c, n, "resolve")
  <2>1. spec \in Specs /\ spec.sel \in Selectors /\ spec.rev \in Revisions
    BY <1>4 DEF Well, RegistryTypeOK, StoreTypeOK, Specs
  <2>2. n \in Jobs /\ n.alone = job[c].alone /\ n.op = "refresh" /\ n.of = spec /\ n.was = (run # None)
    BY <1>1, <2>1 DEF Jobs
  <2> HIDE DEF n
  <2>3. synced = None /\ Elsewhere(c) /\ (Busy(c)' => Became(job'[c], n, "resolve"))
    BY <1>1, <1>4, <2>2, Moves DEF RequestSteps
  <2>4. RunHolds'
    BY <1>1, <1>2, <2>3 DEF OnRun, RunHolds, At, Elsewhere
  <2>5. job[c].alone => (mem = FromRegistry(registry))'
    BY <1>1, <1>2, MemoryKept DEF OnRun, RefreshHolds, Lone
  <2>6. RefreshHolds'
    BY <1>2, <2>2, <2>3, <2>5 DEF RefreshHolds, Lone, Elsewhere, Became
  <2>7. RemovalHolds'
    BY <2>2, <2>3 DEF RemovalHolds, Lone, Elsewhere, Became
  <2>8. RunsWhatIsTagged'
    BY <1>2, <2>3 DEF RunsWhatIsTagged
  <2> QED
    BY <2>4, <2>6, <2>7, <2>8 DEF OnRun
<1> QED
  BY <1>3, <1>4 DEF Select

LEMMA ResolveRun ==
    ASSUME Well, OnRun, NEW c \in Clients, Resolve(c)
    PROVE  OnRun'
<1> DEFINE j == job[c]
           s == Asked(j)
           n == Found(j, s)
           step == AfterResolve(j, Resolved(s))
<1>1. Busy(c) /\ j \in Jobs /\ Formed(j) /\ j.at = "resolve" /\ j.op \in {"refresh", "create"}
      /\ s \in Selectors /\ Go(c, n, step)
  BY ResolveJob
<1>2. n \in Jobs /\ n.op = j.op /\ n.alone = j.alone /\ n.rev = Resolved(s) /\ n.of = j.of /\ n.was = j.was
  BY <1>1, FoundTyped
<1>3. step \in {"end", "stop", "pin"}
  BY DEF AfterResolve
<1>4. spec' = spec /\ run' = run /\ crossed' = crossed /\ UNCHANGED <<diskVars, mem>> /\ synced' = synced
  BY DEF Resolve, runVars
<1>5. j.op = "refresh" => s = j.of.sel
  BY <1>1 DEF Asked, Formed
<1>6. Resolved(s) = Resolution(s)
  BY <1>1, ResolvedFound
<1> HIDE DEF n, step, s
<1>7. synced = None /\ Elsewhere(c) /\ (Busy(c)' => Became(job'[c], n, step))
  BY <1>1, <1>2, <1>3, Moves DEF RequestSteps
<1>8. RunHolds'
  BY <1>1, <1>4, <1>7 DEF OnRun, RunHolds, At, Elsewhere
<1>9. Lone(c, "refresh") => /\ (mem = FromRegistry(registry))'
                            /\ spec = j.of /\ j.was = (run # None)
  BY <1>1, <1>4, MemoryKept DEF OnRun, RefreshHolds
<1>10. RefreshHolds'
  <2> SUFFICES ASSUME NEW d \in Clients, Lone(d, "refresh")'
               PROVE  /\ (mem = FromRegistry(registry))'
                      /\ spec' = job'[d].of /\ job'[d].was = (run' # None)
                      /\ job'[d].at # "restart"
                      /\ job'[d].at = "pin" => job'[d].rev = Resolution(job'[d].of.sel)
    BY <1>4, MemoryKept DEF RefreshHolds
  <2>1. d = c /\ Lone(c, "refresh") /\ Busy(c)' /\ j.op = "refresh"
    BY <1>1, <1>2, <1>7 DEF Lone, Elsewhere, Became
  <2> QED
    BY <1>2, <1>3, <1>4, <1>5, <1>6, <1>7, <1>9, <2>1 DEF Became
<1>11. RemovalHolds'
  BY <1>1, <1>2, <1>7 DEF RemovalHolds, Lone, Elsewhere, Became
<1>12. RunsWhatIsTagged'
  BY <1>4, <1>7 DEF RunsWhatIsTagged
<1> QED
  BY <1>8, <1>10, <1>11, <1>12 DEF OnRun

LEMMA SpecIsNot == None \notin Specs
BY RegistryAssumption DEF Specs, Selectors

LEMMA PinRun ==
    ASSUME Well, OnRun, NEW c \in Clients, Pin(c)
    PROVE  OnRun'
<1> DEFINE j == job[c]
<1>1. /\ Busy(c) /\ j \in Jobs /\ Formed(j) /\ j.at = "pin"
      /\ j.op \in {"refresh", "create"} /\ j.rev \in Revisions
      /\ Restarts(j) => j.op = "refresh"
  BY PinWell
<1>2. run' = run /\ crossed' = (crossed \/ (j.op = "refresh" /\ <<spec, run # None>> # <<j.of, j.was>>))
      /\ UNCHANGED <<diskVars, mem>>
  BY DEF Pin, memVars
<1>3. spec' = IF j.op = "create" /\ spec # None THEN spec ELSE [sel |-> j.tag, rev |-> j.rev]
  BY DEF Pin
<1>4. IF Restarts(j) THEN Go(c, j, "restart") /\ synced' = synced ELSE Go(c, j, "end") /\ Done(j)
  BY DEF Pin
<1> DEFINE step == IF Restarts(j) THEN "restart" ELSE "end"
<1>5. Go(c, j, step) /\ step \in RequestSteps \union {"end"}
  BY <1>4 DEF RequestSteps
<1>6. /\ synced = None /\ Elsewhere(c)
      /\ Busy(c)' => Became(job'[c], j, step)
      /\ step # "end" => Busy(c)'
  BY <1>1, <1>5, Moves
<1>7. j.op = "refresh" => j.todo = {j.of.rev} \ {j.rev}
  BY <1>1 DEF Formed
<1>8. spec' # None
  <2>1. CASE j.op = "create" /\ spec # None
    BY <1>3, <2>1
  <2>2. CASE ~(j.op = "create" /\ spec # None)
    <3>1. spec' \in Specs
      BY <1>1, <1>3, <2>2 DEF Specs, Jobs, Formed, Well, RegistryTypeOK
    <3> QED
      BY <3>1, SpecIsNot
  <2> QED
    BY <2>1, <2>2
<1>9. j.op = "refresh" => spec'.rev = j.rev
  BY <1>3
<1> HIDE DEF j
<1>10. j.op = "refresh" /\ ~crossed' => ~crossed /\ spec = j.of /\ j.was = (run # None)
  <2>1. crossed \in BOOLEAN
    BY DEF Well, RegistryTypeOK, StoreTypeOK
  <2> QED
    BY <1>2, <2>1
<1>11. \A d \in Clients : d # c /\ At(d, "restart") => At(d, "restart")'
  BY <1>6 DEF Elsewhere
<1>12. ~At(c, "restart")
  BY <1>1 DEF At, j
<1>13. RunHolds'
  <2> SUFFICES ASSUME ~crossed', run # None
               PROVE  run = spec'.rev \/ \E d \in Clients : At(d, "restart")'
    BY <1>2, <1>8 DEF RunHolds
  <2>1. ~crossed /\ spec # None
    BY <1>2 DEF OnRun, RunHolds
  <2>2. run = spec.rev \/ \E d \in Clients : At(d, "restart")'
    BY <1>11, <1>12, <2>1 DEF OnRun, RunHolds
  <2>3. CASE j.op = "create"
    BY <1>3, <2>1, <2>2, <2>3 DEF j
  <2>4. CASE j.op = "refresh" /\ Restarts(j)
    BY <1>6, <2>4 DEF At, Became
  <2>5. CASE j.op = "refresh" /\ ~Restarts(j)
    <3>1. j.rev = spec.rev
      BY <1>7, <1>10, <2>5 DEF Restarts
    <3> QED
      BY <1>9, <2>2, <2>5, <3>1
  <2> QED
    BY <1>1, <2>3, <2>4, <2>5
<1>14. Lone(c, "refresh") => /\ mem = FromRegistry(registry) /\ spec = j.of /\ j.was = (run # None)
                             /\ j.rev = Resolution(j.of.sel)
  BY <1>1 DEF OnRun, RefreshHolds, j
<1>15. RefreshHolds'
  <2> SUFFICES ASSUME NEW d \in Clients, Lone(d, "refresh")'
               PROVE  /\ (mem = FromRegistry(registry))'
                      /\ job'[d].at = "restart"
                      /\ job'[d].rev = Resolution(job'[d].of.sel)
                      /\ spec'.rev = job'[d].rev
    BY <1>2, <1>8, MemoryKept DEF RefreshHolds
  <2>1. d = c
    BY <1>6 DEF Lone, Elsewhere
  <2>2. Lone(c, "refresh") /\ Became(job'[c], j, "restart")
    BY <1>1, <1>6, <2>1 DEF Lone, Became, j
  <2>3. j.op = "refresh"
    BY <2>2 DEF Lone, j
  <2> QED
    BY <1>2, <1>9, <1>14, <2>1, <2>2, <2>3, MemoryKept DEF Became
<1>16. RemovalHolds'
  BY <1>1, <1>6 DEF RemovalHolds, Lone, Elsewhere, Became
<1>17. RunsWhatIsTagged'
  <2> SUFFICES ASSUME synced' # None, run # None
               PROVE  spec'.rev = Tagged(synced') /\ (~crossed' => run = spec'.rev)
    BY <1>2 DEF RunsWhatIsTagged, Tagged, Default, Listed, diskVars
  <2>1. ~Restarts(j) /\ Lone(c, "refresh") /\ j.op = "refresh" /\ synced' = j.of.sel
    BY <1>1, <1>4, <1>6 DEF Done, Lone, j
  <2>2. mem = FromRegistry(registry) /\ spec = j.of /\ j.rev = Resolution(j.of.sel) /\ j.rev = spec.rev
    BY <1>7, <1>14, <2>1 DEF Restarts
  <2>3. ~ \E d \in Clients : At(d, "restart")
    BY <1>12, <2>1 DEF Well, AloneHolds, Lone, At
  <2>4. ~crossed' => run = spec.rev
    BY <1>10, <2>1, <2>3 DEF OnRun, RunHolds
  <2>5. j.of.sel \in Selectors
    BY <1>1, <2>1 DEF Formed, Specs
  <2>6. Resolution(j.of.sel) = Tagged(j.of.sel)
    BY <1>1, <2>2, <2>5, FoundTagged
  <2> QED
    BY <1>9, <2>1, <2>2, <2>4, <2>6
<1> QED
  BY <1>13, <1>15, <1>16, <1>17 DEF OnRun

LEMMA RestartRun ==
    ASSUME Well, OnRun, NEW c \in Clients, Restart(c) \/ StopRetired(c)
    PROVE  OnRun'
<1> DEFINE j == job[c]
<1>1. Busy(c) /\ j \in Jobs /\ Formed(j) /\ j.op = "refresh" /\ j.at = IF Restart(c) THEN "restart" ELSE "stop"
  BY RestartWell
<1>2. Go(c, j, "end") /\ Done(j) /\ spec' = spec /\ UNCHANGED <<diskVars, mem>>
  BY DEF Restart, StopRetired, memVars
<1>3. synced = None /\ Elsewhere(c) /\ ~Busy(c)'
  BY <1>1, <1>2, Moves DEF RequestSteps, Became
<1>4. (spec = None => run' = None) /\ (run' # None => run' = spec.rev /\ Restart(c))
  BY DEF Restart, StopRetired, StartInstance
<1>5. RunHolds'
  BY <1>2, <1>4 DEF RunHolds
<1>6. RefreshHolds' /\ RemovalHolds'
  BY <1>3 DEF RefreshHolds, RemovalHolds, Lone, Elsewhere
<1>7. RunsWhatIsTagged'
  <2> SUFFICES ASSUME synced' # None, run' # None
               PROVE  spec.rev = Tagged(synced') /\ run' = spec.rev
    BY <1>2 DEF RunsWhatIsTagged, Tagged, Default, Listed, diskVars
  <2>1. Lone(c, "refresh") /\ synced' = j.of.sel /\ j.at = "restart"
    BY <1>1, <1>2, <1>4 DEF Done, Lone
  <2>2. mem = FromRegistry(registry) /\ j.rev = Resolution(j.of.sel) /\ spec.rev = j.rev
    BY <2>1 DEF OnRun, RefreshHolds
  <2>3. j.of \in Specs
    BY <1>1, <2>1 DEF Formed
  <2>4. spec.rev \in Revisions /\ j.of.sel \in Selectors
    BY <1>4, <2>3 DEF Well, RegistryTypeOK, StoreTypeOK, Specs, StartInstance
  <2>5. Resolution(j.of.sel) = Tagged(j.of.sel)
    BY <2>2, <2>4, FoundTagged
  <2> QED
    BY <1>4, <2>1, <2>2, <2>5
<1> QED
  BY <1>5, <1>6, <1>7 DEF OnRun

LEMMA InitRun ==
    ASSUME RegistryInit
    PROVE  OnRun
<1>1. \A c \in Clients : ~Busy(c)
  BY DEF RegistryInit, Busy
<1>2. run \in {None} \/ (spec # None /\ run = spec.rev)
  BY DEF RegistryInit
<1>3. (spec = None => run = None) /\ (run # None => run = spec.rev)
  BY DEF RegistryInit
<1>4. synced = None
  BY DEF RegistryInit
<1> QED
  BY <1>1, <1>3, <1>4 DEF OnRun, RunHolds, RefreshHolds, RemovalHolds, RunsWhatIsTagged, Lone

LEMMA NextRun ==
    ASSUME Well, OnDisk, OnRun, [RegistryNext]_registryVars
    PROVE  OnRun'
<1>1. CASE Control
  BY <1>1, ControlRun
<1>2. ASSUME NEW c \in Clients, Begin(c) PROVE OnRun'
  BY <1>2, BeginRun
<1>3. ASSUME NEW c \in Clients, Disk(c) PROVE OnRun'
  BY <1>3, LoadRun, WriteRun, CheckUseRun, ElseRun DEF Disk
<1>4. ASSUME NEW c \in Clients, Reload(c) PROVE OnRun'
  BY <1>4, SwapRun, SelectRun, ResolveRun, PinRun, RestartRun, ElseRun DEF Reload
<1>5. CASE UNCHANGED registryVars
  <2>1. job' = job /\ spec' = spec /\ run' = run /\ crossed' = crossed /\ synced' = synced
        /\ UNCHANGED <<diskVars, mem>>
    BY <1>5 DEF registryVars, runVars, memVars
  <2>2. RunHolds' /\ RemovalHolds'
    BY <2>1 DEF OnRun, RunHolds, RemovalHolds, Lone, At, Busy
  <2>3. RefreshHolds'
    BY <2>1, MemoryKept DEF OnRun, RefreshHolds, Lone, Busy
  <2>4. RunsWhatIsTagged'
    BY <2>1 DEF OnRun, RunsWhatIsTagged, Default, Listed, diskVars
  <2> QED
    BY <2>2, <2>3, <2>4 DEF OnRun
<1> QED
  BY <1>1, <1>2, <1>3, <1>4, <1>5 DEF RegistryNext

\* After a refresh that nothing overlaps, in whatever state overlapping requests before it
\* have left the registry, the files and the memory, the specification of a running
\* instance has the revision its selector has in registry.json; so has the instance,
\* unless it has been running since a refresh crossed another change (Pin, Restart).
THEOREM RefreshFollows == RegistrySpec => []RunsWhatIsTagged
<1>1. RegistryInit => Well /\ OnDisk /\ OnRun
  BY InitWell, InitDisk, InitRun
<1>2. Well /\ OnDisk /\ OnRun /\ [RegistryNext]_registryVars => (Well /\ OnDisk /\ OnRun)'
  BY NextWell, NextDisk, NextRun
<1>3. Well /\ OnDisk /\ OnRun => RunsWhatIsTagged
  BY DEF OnRun
<1> QED
  BY <1>1, <1>2, <1>3, PTL DEF RegistrySpec

\* Only a write changes the registry.
LEMMA RegistryWritten ==
    ASSUME [RegistryNext]_registryVars, registry' # registry
    PROVE  \E c \in Clients : Write(c)
BY DEF RegistryNext, Disk, Reload, Control, Begin, Load, Persist, Unlink, Fails, Apply, CheckUse,
       Compile, Swap, Select, Resolve, Pin, Restart, StopRetired, registryVars, diskVars

\* A removal by name or by hash that nothing overlaps never takes away what an instance
\* runs that has not been running since a refresh crossed another change (CheckUse,
\* Write).  Removals by tag and removals that something overlaps may.
THEOREM RemovalSpares == RegistrySpec => RunningStays
<1> DEFINE Spares == \A c \in Clients :
          At(c, "write") /\ job[c].op = "remove" /\ job[c].sel \notin Tags /\ job[c].alone /\ ~crossed
          /\ registry' # registry /\ run \in Listed(registry) => run \in Listed(registry')
<1>1. RegistryInit => Well /\ OnDisk /\ OnRun
  BY InitWell, InitDisk, InitRun
<1>2. Well /\ OnDisk /\ OnRun /\ [RegistryNext]_registryVars => (Well /\ OnDisk /\ OnRun)'
  BY NextWell, NextDisk, NextRun
<1>3. Well /\ OnDisk /\ OnRun /\ [RegistryNext]_registryVars => Spares
  <2> SUFFICES ASSUME Well, OnDisk, OnRun, [RegistryNext]_registryVars, NEW c \in Clients,
                      At(c, "write"), job[c].op = "remove", job[c].sel \notin Tags, job[c].alone, ~crossed,
                      registry' # registry, run \in Listed(registry)
               PROVE  run \in Listed(registry')
    OBVIOUS
  <2>1. PICK d \in Clients : Write(d)
    BY RegistryWritten
  <2>2. Busy(c) /\ Busy(d)
    BY <2>1, WriteJobs DEF At
  <2>3. d = c
    BY <2>2, AloneMoves
  <2>4. registry' = job[c].copy
    BY <2>1, <2>3 DEF Write
  <2>5. Fresh(job[c]) /\ job[c].at = "write"
    BY <2>2 DEF OnDisk, FreshJobs, Well, AloneHolds, At
  <2>6. run \in Revisions /\ run # None
    BY RegistryAssumption DEF Listed
  <2>7. job[c].sel \in Revisions \ {run}
    BY <2>2, <2>5, <2>6 DEF OnRun, RemovalHolds, Lone
  <2> QED
    BY <2>4, <2>5, <2>7 DEF Fresh
<1>4. Spares => [Spares]_registryVars
  OBVIOUS
<1>5. RunningStays <=> [][Spares]_registryVars
  BY DEF RunningStays
<1> HIDE DEF Spares
<1> QED
  BY <1>1, <1>2, <1>3, <1>5, PTL DEF RegistrySpec

-------------------------------------------------------------------------------
(* The provider and the routes *)

USE RoutingAssumption DEF Starts, vars, lambdaVars, workerVars, providerVars,
                          startVars, subVars, history

SPcs == {"none", "create", "reapply", "done", "over"}

\* What the name of the provider and its starts have to do with each other:
\* unless it was removed while it was starting, the one start whose adapter is
\* being made is the last, and then there is no instance.
StartInv ==
    /\ starts \in 0..MaxStarts
    /\ spc \in [Starts -> SPcs]
    /\ cur \in 0..MaxStarts
    /\ cancelled \subseteq Starts
    /\ \A g \in Starts : g > starts => spc[g] = "none"
    /\ cur # 0 <=> status = "running"
    /\ ~overtaken => \A g \in Starts : spc[g] = "create" => status = "starting" /\ g = starts
    /\ NoOrphan
    /\ StartIsUnderWay

LEMMA StartInit == Init => StartInv
BY DEF Init, StartInv, NoOrphan, StartIsUnderWay, SPcs

\* A step that leaves the provider and its starts alone.
LEMMA StartUntouched ==
    ASSUME StartInv, UNCHANGED <<starts, spc, status, cur, cancelled, overtaken>>
    PROVE  StartInv'
BY DEF StartInv, NoOrphan, StartIsUnderWay

LEMMA ActivationsLeaveHistory ==
    ASSUME NEW a, Subscribing(a) \/ CallFails(a) \/ Known(a) \/ Record(a) \/ Drop(a) \/ Adrift(a)
    PROVE  UNCHANGED overtaken
BY DEF Subscribing, Remove, Add, CallFails, Known, Record, Drop, Adrift, Fault, NoFault

LEMMA RegistrarLeavesStarts ==
    ASSUME StartInv, Registrar
    PROVE  StartInv'
<1>1. CASE Wake
  BY <1>1, StartUntouched DEF Wake
<1>2. CASE WorkerStep
  BY <1>2, StartUntouched, ActivationsLeaveHistory DEF WorkerStep
<1>3. CASE Routed
  BY <1>3, StartUntouched, ActivationsLeaveHistory DEF Routed
<1>4. ASSUME NEW t \in Types, Skip(t) \/ ActivateRoute(t) \/ DeactivateRoute(t)
      PROVE  StartInv'
  BY <1>4, StartUntouched DEF Skip, ActivateRoute, DeactivateRoute
<1> QED
  BY <1>1, <1>2, <1>3, <1>4 DEF Registrar

LEMMA PrepareStep ==
    ASSUME StartInv, Prepare
    PROVE  StartInv'
<1>1. starts' \in 1..MaxStarts /\ starts' = starts + 1
  BY DEF Prepare, StartInv
<1>2. spc' \in [Starts -> SPcs] /\ spc'[starts'] = "create"
  BY <1>1 DEF Prepare, StartInv, SPcs
<1>3. \A g \in Starts : g # starts' => spc'[g] = spc[g]
  BY <1>1 DEF Prepare, StartInv
<1>4. ~overtaken => \A g \in Starts : spc[g] # "create"
  BY DEF Prepare, Startable, StartInv
<1>5. cur = 0
  BY DEF Prepare, Startable, StartInv
<1>6. NoOrphan'
  BY <1>2, <1>3 DEF Prepare, StartInv, NoOrphan
<1> QED
  BY <1>1, <1>2, <1>3, <1>4, <1>5, <1>6 DEF Prepare, StartInv, StartIsUnderWay

LEMMA StopStep ==
    ASSUME StartInv, Stop
    PROVE  StartInv'
<1>1. /\ cancelled' = cancelled \union {cur} /\ cur' = 0 /\ status' = "stopped"
      /\ UNCHANGED <<starts, spc, overtaken>>
  BY DEF Stop, Cancel, NoInstance
<1>2. cur \in Starts /\ status = "running"
  BY DEF Stop, StartInv
<1>3. NoOrphan'
  BY <1>1 DEF StartInv, NoOrphan
<1>4. ~overtaken => \A g \in Starts : spc[g] # "create"
  BY <1>2 DEF StartInv
<1> QED
  BY <1>1, <1>2, <1>3, <1>4 DEF StartInv, StartIsUnderWay

LEMMA DeleteStep ==
    ASSUME StartInv, Delete
    PROVE  StartInv'
<1>1. /\ cancelled' = cancelled \union ({cur} \ {0}) /\ cur' = 0 /\ status' = "absent"
      /\ overtaken' = (overtaken \/ status = "starting")
      /\ UNCHANGED <<starts, spc>>
  BY DEF Delete, Cancel, NoInstance, StartInv
<1>2. cancelled' \subseteq Starts
  BY <1>1 DEF StartInv
<1>3. NoOrphan'
  BY <1>1 DEF StartInv, NoOrphan
<1>4. ~overtaken' => \A g \in Starts : spc[g] # "create"
  BY <1>1 DEF StartInv
<1> QED
  BY <1>1, <1>2, <1>3, <1>4 DEF StartInv, StartIsUnderWay

LEMMA MakeFailsStep ==
    ASSUME StartInv, NEW g \in Starts, MakeFails(g)
    PROVE  StartInv'
<1>1. spc' \in [Starts -> SPcs] /\ spc'[g] = "over" /\ \A h \in Starts \ {g} : spc'[h] = spc[h]
  BY DEF MakeFails, Forget, SGoto, StartInv, SPcs
<1>2. overtaken' = overtaken /\ (status = "absent" \/ (status' = "failed" /\ cur' = 0))
  BY DEF MakeFails, Fault, StartFailed, NoInstance
<1>3. NoOrphan'
  BY <1>1, <1>2 DEF MakeFails, StartInv, NoOrphan
<1>4. g <= starts
  BY DEF MakeFails, StartInv
<1> QED
  BY <1>1, <1>2, <1>3, <1>4 DEF MakeFails, StartInv, StartIsUnderWay

LEMMA RecordStartStep ==
    ASSUME StartInv, NEW g \in Starts, RecordStart(g)
    PROVE  StartInv'
<1>1. UNCHANGED <<starts, overtaken>> /\ spc[g] = "create" /\ g <= starts
  BY DEF RecordStart, StartInv
<1>2. CASE status = "absent"
  <2>1. /\ spc' = [spc EXCEPT ![g] = "over"] /\ cancelled' = cancelled \union {g}
        /\ UNCHANGED <<status, cur>>
    BY <1>2 DEF RecordStart, Forget, SGoto
  <2>2. overtaken
    BY <1>1, <1>2 DEF StartInv
  <2> QED
    BY <1>1, <1>2, <2>1, <2>2 DEF StartInv, NoOrphan, StartIsUnderWay, SPcs
<1>3. CASE status # "absent"
  <2>1. spc' = [spc EXCEPT ![g] = "reapply"] /\ status' = "running" /\ cur' = g
        /\ cancelled' = cancelled
    BY <1>3 DEF RecordStart, SGoto
  <2>2. ~overtaken => cur = 0 /\ g = starts
    BY <1>1 DEF StartInv
  <2> QED
    BY <1>1, <2>1, <2>2 DEF StartInv, NoOrphan, StartIsUnderWay, SPcs
<1> QED
  BY <1>2, <1>3

LEMMA ClearStep ==
    ASSUME StartInv, NEW g \in Starts, Clear(g)
    PROVE  StartInv'
<1>1. UNCHANGED <<starts, status, cur, cancelled, overtaken>> /\ spc[g] = "reapply"
      /\ spc' = [spc EXCEPT ![g] = "done"]
  BY DEF Clear, SGoto
<1> QED
  BY <1>1 DEF StartInv, NoOrphan, StartIsUnderWay, SPcs

LEMMA StartsStep ==
    ASSUME StartInv, NEW g \in Starts, Start(g)
    PROVE  StartInv'
<1>1. CASE Reapply(g)
  BY <1>1, StartUntouched DEF Reapply
<1>2. CASE StartStep(g)
  BY <1>2, StartUntouched, ActivationsLeaveHistory DEF StartStep
<1> QED
  BY <1>1, <1>2, MakeFailsStep, RecordStartStep, ClearStep DEF Start

LEMMA StartInvStep ==
    ASSUME StartInv, [Next]_vars
    PROVE  StartInv'
<1>1. CASE \E l \in Lambdas : Unregister(l) \/ \E routes \in Asks[l] : Register(l, routes)
  BY <1>1, StartUntouched DEF Unregister, Register
<1>2. CASE Create
  BY <1>2 DEF Create, StartInv, NoOrphan, StartIsUnderWay
<1>3. CASE UNCHANGED vars
  BY <1>3, StartUntouched
<1> QED
  BY <1>1, <1>2, <1>3, RegistrarLeavesStarts, PrepareStep, StopStep, DeleteStep, StartsStep DEF Next

LEMMA StartInvariant == Spec => []StartInv
<1>1. StartInv /\ [Next]_vars => StartInv'
  BY StartInvStep
<1> QED
  BY <1>1, StartInit, PTL DEF Spec

\* However starts, stops, updates and failures of the provider interleave, a
\* started adapter is the provider's instance or has been cancelled, as long as
\* nobody removes the provider while it is starting.
THEOREM NoAdapterIsOrphaned == Spec => []NoOrphan
<1>1. StartInv => NoOrphan
  BY DEF StartInv
<1> QED
  BY <1>1, StartInvariant, PTL

\* A provider that is starting has a start under way (prepareProviderStart,
\* recordProviderStartFailure and recordProviderStartSuccess), removals included.
THEOREM StartingIsSettled == Spec => []StartIsUnderWay
<1>1. StartInv => StartIsUnderWay
  BY DEF StartInv
<1> QED
  BY <1>1, StartInvariant, PTL

-------------------------------------------------------------------------------
(* The routes of a provider *)

\* What holds of the activations and of the instances, whatever fails or overlaps:
\* an instance streams nothing before its start is recorded, and only then, by
\* its own start or by the worker, are routes activated on it.
InstanceInv ==
    /\ \A g \in Starts : act[g] # Idle => spc[g] = "reapply" /\ act[g].on = g
    /\ act[Worker] # Idle => spc[act[Worker].on] \in {"reapply", "done"}
    /\ \A g \in Starts : spc[g] \in {"none", "create"} =>
          g \notin cancelled /\ active[g] = NoRoutes /\ venue[g] = NoRoutes
    /\ cur # 0 => spc[cur] \in {"reapply", "done"} /\ cur \notin cancelled

\* Types whose routes are those of the table, and routes that have what the table has.
Bound(t) == t \notin broken /\ (table[t] # {} \/ t \notin astray)
Covers(routes) == \A t \in Types : Bound(t) => table[t] = routes[t]

\* How far an activation has come: the route recorded and the route streamed.
Progress(s, recorded, streamed) ==
    \/ s.at = "known" /\ recorded = s.route /\ streamed = s.route
    \/ s.at = "remove" /\ recorded = s.old /\ streamed = s.old
    \/ s.at = "add" /\ recorded = s.old /\ streamed = s.old \intersect s.route
    \/ s.at = "record" /\ streamed = s.route
    \/ s.at = "drop" /\ recorded = {} /\ streamed = s.old /\ s.route = {}

Treating(a, t) == act[a] # Idle /\ act[a].type = t
Untreated(t) == \A a \in Actors : ~Treating(a, t)

\* Only one of the worker and the last start is at work.
OneAtWork ==
    /\ ~overtaken
    /\ \A g \in Starts : Starting(g) => g = starts /\ todo = {}
    /\ \A g \in Starts : spc[g] = "reapply" => g = cur
    /\ act[Worker] # Idle => act[Worker].type \in todo /\ act[Worker].on = cur /\ cur # 0

\* The venue streams what is recorded, but for the type being treated.
VenueFollows ==
    /\ \A a \in Actors : act[a] # Idle /\ act[a].type \notin broken =>
          Progress(act[a], active[act[a].on][act[a].type], venue[act[a].on][act[a].type])
    /\ cur # 0 => \A t \in Types : Untreated(t) /\ t \notin broken => active[cur][t] = venue[cur][t]

\* The table follows too; while there is no instance the routes it names are the
\* ones kept, and while an instance starts they are kept or active already.
TableFollows ==
    /\ status = "absent" => table = NoRoutes
    /\ cur = 0 => Covers(cached)
    /\ \A g \in Starts : spc[g] = "create" => kept[g] = cached
    /\ cur # 0 /\ ~AnyStarting =>
          \A t \in Types : Bound(t) => Treating(Worker, t) \/ table[t] = active[cur][t]

\* The table follows the lambdas, but for what the worker has still to treat, and that it
\* treats as they ask.
LambdasFollowed ==
    /\ act[Worker] # Idle => act[Worker].route = want[act[Worker].type]
    /\ ~signal => \A t \in Types :
          IF t \in todo THEN want[t] = Desired[t]
          ELSE t \in astray \union broken \/ table[t] = Desired[t]

Reapplied(g) ==
    /\ Covers(kept[g])
    /\ act[g] # Idle => act[g].route = kept[g][act[g].type] /\ act[g].type \notin left[g]
    /\ \A t \in Types \ broken : t \in left[g] \/ Treating(g, t) \/ active[g][t] = kept[g][t]

CalmInv ==
    /\ OneAtWork
    /\ VenueFollows
    /\ TableFollows
    /\ LambdasFollowed
    /\ \A g \in Starts : spc[g] = "reapply" => Reapplied(g)

RouteInv == RoutingTypeOK /\ StartInv /\ InstanceInv /\ (calm => CalmInv)

HIDE DEF Starts

LEMMA NoRoutesTyped == NoRoutes \in Routes
BY DEF NoRoutes, Routes

LEMMA DesiredTyped ==
    ASSUME reg \in [Lambdas -> Routes]
    PROVE  Desired \in Routes
<1>1. ASSUME NEW t \in Types PROVE UNION {reg[l][t] : l \in Lambdas} \in SUBSET Symbols
  <2>1. \A l \in Lambdas : reg[l][t] \subseteq Symbols
    BY DEF Routes
  <2> QED
    BY <2>1
<1> QED
  BY <1>1 DEF Desired, Routes

\* An actor that is not idle is in an activation, and no actor is 0 and a start.
LEMMA ActorsTyped ==
    ASSUME RoutingTypeOK
    PROVE  /\ Worker \in Actors /\ Starts \subseteq Actors /\ Worker \notin Starts
           /\ \A a \in Actors : act[a] # Idle <=> act[a] \in Steps
           /\ \A a \in Actors : act[a].at # "idle" => act[a] \in Steps
           /\ DOMAIN act = Actors
<1>1. Idle.at = "idle" /\ \A s \in Steps : s.at # "idle"
  BY DEF Idle, Steps
<1> QED
  BY <1>1 DEF RoutingTypeOK, Actors, Worker, Starts

\* What the steps of an activation do to the activation and to the routes.
LEMMA EnterTyped ==
    ASSUME RoutingTypeOK, NEW a \in Actors, NEW s \in Steps \union {Idle}, Enter(a, s)
    PROVE  /\ act' \in [Actors -> Steps \union {Idle}]
           /\ act'[a] = s
           /\ \A b \in Actors : b # a => act'[b] = act[b]
BY DEF RoutingTypeOK, Enter

LEMMA ToTyped ==
    ASSUME RoutingTypeOK, NEW a \in Actors, act[a] \in Steps,
           NEW pc \in {"known", "remove", "add", "record", "drop"}, To(a, pc)
    PROVE  /\ act' \in [Actors -> Steps \union {Idle}]
           /\ act'[a] \in Steps /\ act'[a].at = pc
           /\ act'[a].on = act[a].on /\ act'[a].type = act[a].type
           /\ act'[a].route = act[a].route /\ act'[a].old = act[a].old
           /\ \A b \in Actors : b # a => act'[b] = act[b]
<1> DEFINE s == [act[a] EXCEPT !.at = pc]
<1>1. /\ s \in Steps /\ s.at = pc
      /\ s.on = act[a].on /\ s.type = act[a].type /\ s.route = act[a].route /\ s.old = act[a].old
  BY DEF Steps
<1>2. Enter(a, s)
  BY DEF To
<1> HIDE DEF s
<1> QED
  BY <1>1, <1>2, EnterTyped

LEMMA StreamTyped ==
    ASSUME RoutingTypeOK, NEW a \in Actors, act[a] \in Steps, NEW S \in SUBSET Symbols, Stream(a, S)
    PROVE  /\ venue' \in [Starts -> Routes]
           /\ venue'[act[a].on][act[a].type] = S
           /\ \A k \in Starts : k # act[a].on => venue'[k] = venue[k]
           /\ \A k \in Starts : \A u \in Types :
                 k # act[a].on \/ u # act[a].type => venue'[k][u] = venue[k][u]
<1>1. PICK g \in Starts, t \in Types : g = act[a].on /\ t = act[a].type
  BY DEF Steps
<1>2. venue \in [Starts -> Routes]
  BY DEF RoutingTypeOK
<1>3. venue' = [venue EXCEPT ![g][t] = S]
  BY <1>1 DEF Stream
<1>4. /\ venue' \in [Starts -> Routes]
      /\ venue'[g][t] = S
      /\ \A k \in Starts : k # g => venue'[k] = venue[k]
      /\ \A k \in Starts : \A u \in Types : k # g \/ u # t => venue'[k][u] = venue[k][u]
  <2>1. [venue[g] EXCEPT ![t] = S] \in Routes /\ venue[g] \in [Types -> SUBSET Symbols]
    BY <1>2 DEF Routes
  <2> QED
    BY <1>2, <1>3, <2>1
<1> QED
  BY <1>1, <1>4

LEMMA StreamedTyped ==
    ASSUME RoutingTypeOK, NEW a \in Actors, act[a] \in Steps
    PROVE  /\ Streamed(a) \in SUBSET Symbols
           /\ act[a].on \in Starts /\ act[a].type \in Types
           /\ act[a].route \in SUBSET Symbols /\ act[a].old \in SUBSET Symbols
<1>1. /\ act[a].on \in Starts /\ act[a].type \in Types
      /\ act[a].route \in SUBSET Symbols /\ act[a].old \in SUBSET Symbols
  BY DEF Steps
<1>2. venue[act[a].on] \in Routes
  BY <1>1 DEF RoutingTypeOK
<1> QED
  BY <1>1, <1>2 DEF Streamed, Routes

\* The effects of one request to the venue, or of recording the route.
LEMMA RemoveEffect ==
    ASSUME RoutingTypeOK, NEW a \in Actors, Remove(a)
    PROVE  /\ act[a] \in Steps /\ act[a].at = "remove" /\ act[a].on \notin cancelled
           /\ venue' \in [Starts -> Routes]
           /\ venue'[act[a].on][act[a].type] = Streamed(a) \ (act[a].old \ act[a].route)
           /\ \A k \in Starts : k # act[a].on => venue'[k] = venue[k]
           /\ \A k \in Starts : \A u \in Types :
                 k # act[a].on \/ u # act[a].type => venue'[k][u] = venue[k][u]
           /\ act' \in [Actors -> Steps \union {Idle}] /\ act'[a] \in Steps
           /\ act'[a].at = IF act[a].route \subseteq act[a].old THEN "record" ELSE "add"
           /\ act'[a].on = act[a].on /\ act'[a].type = act[a].type
           /\ act'[a].route = act[a].route /\ act'[a].old = act[a].old
           /\ \A b \in Actors : b # a => act'[b] = act[b]
           /\ UNCHANGED <<active, history>>
<1>1. act[a] \in Steps /\ act[a].at = "remove" /\ act[a].on \notin cancelled
  BY ActorsTyped DEF Remove, Attached
<1>2. Streamed(a) \ (act[a].old \ act[a].route) \in SUBSET Symbols
  BY <1>1, StreamedTyped
<1>3. Stream(a, Streamed(a) \ (act[a].old \ act[a].route))
  BY DEF Remove, Removals
<1>4. PICK pc \in {"record", "add"} :
         pc = (IF act[a].route \subseteq act[a].old THEN "record" ELSE "add") /\ To(a, pc)
  BY DEF Remove, Additions
<1>5. UNCHANGED <<active, history>>
  BY DEF Remove, NoFault
<1> QED
  BY <1>1, <1>2, <1>3, <1>4, <1>5, StreamTyped, ToTyped

LEMMA AddEffect ==
    ASSUME RoutingTypeOK, NEW a \in Actors, Add(a)
    PROVE  /\ act[a] \in Steps /\ act[a].at = "add" /\ act[a].on \notin cancelled
           /\ venue' \in [Starts -> Routes]
           /\ venue'[act[a].on][act[a].type] = Streamed(a) \union (act[a].route \ act[a].old)
           /\ \A k \in Starts : k # act[a].on => venue'[k] = venue[k]
           /\ \A k \in Starts : \A u \in Types :
                 k # act[a].on \/ u # act[a].type => venue'[k][u] = venue[k][u]
           /\ act' \in [Actors -> Steps \union {Idle}] /\ act'[a] \in Steps
           /\ act'[a].at = "record"
           /\ act'[a].on = act[a].on /\ act'[a].type = act[a].type
           /\ act'[a].route = act[a].route /\ act'[a].old = act[a].old
           /\ \A b \in Actors : b # a => act'[b] = act[b]
           /\ UNCHANGED <<active, history>>
<1>1. act[a] \in Steps /\ act[a].at = "add" /\ act[a].on \notin cancelled
  BY ActorsTyped DEF Add, Attached
<1>2. Streamed(a) \union (act[a].route \ act[a].old) \in SUBSET Symbols
  BY <1>1, StreamedTyped
<1>3. Stream(a, Streamed(a) \union (act[a].route \ act[a].old))
  BY DEF Add, Additions
<1>4. To(a, "record") /\ UNCHANGED <<active, history>>
  BY DEF Add, NoFault
<1> QED
  BY <1>1, <1>2, <1>3, <1>4, StreamTyped, ToTyped

\* A request that fails touches no route.
Returns(a) == Known(a) \/ Record(a) \/ Drop(a) \/ CallFails(a) \/ Adrift(a)

LEMMA RecordEffect ==
    ASSUME RoutingTypeOK, NEW a \in Actors, Record(a)
    PROVE  /\ act[a] \in Steps /\ act[a].at = "record" /\ act[a].on \notin cancelled
           /\ active' \in [Starts -> Routes]
           /\ active'[act[a].on][act[a].type] = act[a].route
           /\ \A k \in Starts : k # act[a].on => active'[k] = active[k]
           /\ \A k \in Starts : \A u \in Types :
                 k # act[a].on \/ u # act[a].type => active'[k][u] = active[k][u]
           /\ UNCHANGED <<venue, history>>
<1>1. act[a] \in Steps /\ act[a].at = "record" /\ act[a].on \notin cancelled
  BY ActorsTyped DEF Record, Attached
<1>2. PICK g \in Starts, t \in Types, S \in SUBSET Symbols :
         g = act[a].on /\ t = act[a].type /\ S = act[a].route
  BY <1>1, StreamedTyped
<1>3. active \in [Starts -> Routes]
  BY DEF RoutingTypeOK
<1>4. active' = [active EXCEPT ![g][t] = S]
  BY <1>2 DEF Record
<1>5. /\ active' \in [Starts -> Routes]
      /\ active'[g][t] = S
      /\ \A k \in Starts : k # g => active'[k] = active[k]
      /\ \A k \in Starts : \A u \in Types : k # g \/ u # t => active'[k][u] = active[k][u]
  <2>1. [active[g] EXCEPT ![t] = S] \in Routes /\ active[g] \in [Types -> SUBSET Symbols]
    BY <1>3 DEF Routes
  <2> QED
    BY <1>3, <1>4, <2>1
<1>6. UNCHANGED <<venue, history>>
  BY DEF Record, NoFault
<1> QED
  BY <1>1, <1>2, <1>5, <1>6

LEMMA DropEffect ==
    ASSUME RoutingTypeOK, NEW a \in Actors, Drop(a)
    PROVE  /\ act[a] \in Steps /\ act[a].at = "drop" /\ act[a].on \notin cancelled
           /\ venue' \in [Starts -> Routes]
           /\ venue'[act[a].on][act[a].type] = Streamed(a) \ act[a].old
           /\ \A k \in Starts : k # act[a].on => venue'[k] = venue[k]
           /\ \A k \in Starts : \A u \in Types :
                 k # act[a].on \/ u # act[a].type => venue'[k][u] = venue[k][u]
           /\ UNCHANGED <<active, history>>
<1>1. act[a] \in Steps /\ act[a].at = "drop" /\ act[a].on \notin cancelled
  BY ActorsTyped DEF Drop, Attached
<1>2. Streamed(a) \ act[a].old \in SUBSET Symbols
  BY <1>1, StreamedTyped
<1>3. Stream(a, Streamed(a) \ act[a].old) /\ UNCHANGED <<active, history>>
  BY DEF Drop, NoFault
<1> QED
  BY <1>1, <1>2, <1>3, StreamTyped

LEMMA ReturnTyped ==
    ASSUME RoutingTypeOK, NEW a \in Actors, Returns(a)
    PROVE  /\ act[a] \in Steps
           /\ active' \in [Starts -> Routes] /\ venue' \in [Starts -> Routes]
           /\ faults' \in 0..MaxFaults /\ broken' \subseteq Types /\ broken \subseteq broken'
           /\ UNCHANGED <<calm, overtaken>>
           /\ \A k \in Starts : k # act[a].on => active'[k] = active[k] /\ venue'[k] = venue[k]
<1>1. active \in [Starts -> Routes] /\ venue \in [Starts -> Routes]
      /\ faults \in 0..MaxFaults /\ broken \subseteq Types /\ faults \in Nat
  BY DEF RoutingTypeOK
<1>2. CASE Record(a)
  BY <1>1, <1>2, RecordEffect
<1>3. CASE Drop(a)
  BY <1>1, <1>3, DropEffect
<1>4. CASE Known(a)
  BY <1>1, <1>4, ActorsTyped DEF Known, Attached, NoFault
<1>5. CASE Adrift(a)
  BY <1>1, <1>5, ActorsTyped DEF Adrift, NoFault
<1>6. CASE CallFails(a)
  <2>1. act[a] \in Steps
    BY <1>6, ActorsTyped DEF CallFails, Attached
  <2>2. faults' = faults + 1 /\ faults < MaxFaults /\ broken' = broken \union {act[a].type}
        /\ UNCHANGED <<active, venue, calm, overtaken>>
    BY <1>6 DEF CallFails, Fault
  <2>3. faults' \in 0..MaxFaults /\ broken' \subseteq Types
    BY <1>1, <2>1, <2>2, StreamedTyped
  <2> QED
    BY <1>1, <2>1, <2>2, <2>3
<1> QED
  BY <1>2, <1>3, <1>4, <1>5, <1>6 DEF Returns

LEMMA ActivateEffect ==
    ASSUME RoutingTypeOK, NEW a \in Actors, NEW g \in Starts, NEW t \in Types,
           NEW route \in SUBSET Symbols, Activate(a, g, t, route)
    PROVE  /\ act' \in [Actors -> Steps \union {Idle}]
           /\ act'[a] \in Steps /\ act'[a].on = g /\ act'[a].type = t
           /\ act'[a].route = route /\ act'[a].old = active[g][t]
           /\ \/ act'[a].at = "known" /\ active[g][t] = route
              \/ act'[a].at = "add" /\ active[g][t] \subseteq route
              \/ act'[a].at = "remove"
           /\ \A b \in Actors : b # a => act'[b] = act[b]
<1>1. active[g][t] \in SUBSET Symbols
  BY DEF RoutingTypeOK, Routes
<1> DEFINE pc == IF active[g][t] = route THEN "known"
                 ELSE IF active[g][t] \subseteq route THEN "add" ELSE "remove"
           s == [on |-> g, type |-> t, route |-> route, old |-> active[g][t], at |-> pc]
<1>2. s \in Steps
  BY <1>1 DEF Steps
<1>3. Enter(a, s)
  BY DEF Activate
<1>4. s.on = g /\ s.type = t /\ s.route = route /\ s.old = active[g][t] /\ s.at = pc
  OBVIOUS
<1>5. \/ s.at = "known" /\ active[g][t] = route
      \/ s.at = "add" /\ active[g][t] \subseteq route
      \/ s.at = "remove"
  BY <1>4
<1> HIDE DEF s, pc
<1> QED
  BY <1>2, <1>3, <1>4, <1>5, EnterTyped

Structure == RoutingTypeOK /\ StartInv /\ InstanceInv

LEMMA StructureInit == Init => RoutingTypeOK /\ InstanceInv
<1> SUFFICES ASSUME Init PROVE RoutingTypeOK /\ InstanceInv
  OBVIOUS
<1>1. cached \in Routes
  <2>1. \A l \in Lambdas : Asks[l] \subseteq Routes
    OBVIOUS
  <2>2. (\E l \in Lambdas : cached \in Asks[l]) \/ cached = NoRoutes
    BY DEF Init
  <2>3. CASE cached = NoRoutes
    BY <2>3, NoRoutesTyped
  <2>4. ASSUME NEW l \in Lambdas, cached \in Asks[l] PROVE cached \in Routes
    BY <2>1, <2>4
  <2> QED
    BY <2>2, <2>3, <2>4
<1>2. cur = 0 /\ status \in {"absent", "stopped"} /\ starts = 0 /\ 0 \in 0..MaxStarts /\ 0 \in 0..MaxFaults
  BY DEF Init
<1>3. act = [a \in Actors |-> Idle] /\ Starts \subseteq Actors /\ Worker \in Actors
  BY DEF Init, Actors
<1>4. RoutingTypeOK
  <2>1. act \in [Actors -> Steps \union {Idle}]
    BY <1>3
  <2>2. /\ reg \in [Lambdas -> Routes] /\ kept \in [Starts -> Routes] /\ left \in [Starts -> SUBSET Types]
        /\ active \in [Starts -> Routes] /\ venue \in [Starts -> Routes]
        /\ spc \in [Starts -> {"none", "create", "reapply", "done", "over"}]
    BY NoRoutesTyped DEF Init
  <2>3. table \in Routes /\ want \in Routes /\ todo \subseteq Types /\ signal \in BOOLEAN
        /\ cancelled \subseteq Starts /\ calm \in BOOLEAN /\ overtaken \in BOOLEAN /\ faults = 0
        /\ astray \subseteq Types /\ broken \subseteq Types
    BY NoRoutesTyped DEF Init
  <2>4. cur \in 0..starts /\ starts \in 0..MaxStarts /\ faults \in 0..MaxFaults /\ (cur # 0 <=> status = "running")
        /\ status \in {"absent", "pending", "starting", "running", "stopped", "failed"}
    BY <1>2, <2>3
  <2> QED
    BY <1>1, <2>1, <2>2, <2>3, <2>4 DEF RoutingTypeOK
<1>5. InstanceInv
  BY <1>2, <1>3 DEF Init, InstanceInv
<1> QED
  BY <1>4, <1>5

\* A step that leaves the activations, the instances and their starts alone.
LEMMA InstanceUntouched ==
    ASSUME InstanceInv, UNCHANGED <<spc, cur, cancelled, active, venue, act>>
    PROVE  InstanceInv'
BY DEF InstanceInv

LEMMA TurnFacts ==
    ASSUME Structure, NEW t \in Types, Turn(t)
    PROVE  /\ act[Worker] = Idle /\ t \in todo
           /\ cur # 0 => cur \in Starts /\ spc[cur] \in {"reapply", "done"} /\ cur \notin cancelled
           /\ Treated(t) => todo' \subseteq Types /\ want' \in Routes
BY NoRoutesTyped DEF Structure, Turn, Treated, RoutingTypeOK, StartInv, InstanceInv, Starts

LEMMA LambdasTyped ==
    ASSUME Structure, NEW l \in Lambdas, Unregister(l) \/ \E routes \in Asks[l] : Register(l, routes)
    PROVE  /\ reg' \in [Lambdas -> Routes] /\ signal' = TRUE
           /\ UNCHANGED <<workerVars, providerVars, startVars, subVars, history>>
<1>1. reg \in [Lambdas -> Routes] /\ Asks[l] \subseteq Routes
  BY DEF Structure, RoutingTypeOK
<1>2. CASE Unregister(l)
  BY <1>1, <1>2, NoRoutesTyped DEF Unregister
<1>3. ASSUME NEW routes \in Asks[l], Register(l, routes)
      PROVE  /\ reg' \in [Lambdas -> Routes] /\ signal' = TRUE
             /\ UNCHANGED <<workerVars, providerVars, startVars, subVars, history>>
  BY <1>1, <1>3 DEF Register
<1> QED
  BY <1>2, <1>3

LEMMA StructureLambdas ==
    ASSUME Structure, NEW l \in Lambdas, Unregister(l) \/ \E routes \in Asks[l] : Register(l, routes)
    PROVE  RoutingTypeOK' /\ InstanceInv'
<1>1. InstanceInv'
  BY LambdasTyped, InstanceUntouched DEF Structure
<1>2. RoutingTypeOK'
  BY LambdasTyped DEF Structure, RoutingTypeOK
<1> QED
  BY <1>1, <1>2

LEMMA StructureWake ==
    ASSUME Structure, Wake
    PROVE  RoutingTypeOK' /\ InstanceInv'
<1>1. InstanceInv'
  BY InstanceUntouched DEF Wake, Structure
<1>2. Desired \in Routes
  BY DesiredTyped DEF Structure, RoutingTypeOK
<1>3. /\ todo' \subseteq Types /\ want' \in Routes /\ astray' \subseteq Types
      /\ signal' \in BOOLEAN /\ calm' \in BOOLEAN
  BY <1>2, NoRoutesTyped DEF Wake, Structure, RoutingTypeOK
<1>4. UNCHANGED <<reg, table, providerVars, startVars, subVars, faults, broken, overtaken>>
  BY DEF Wake
<1>5. RoutingTypeOK'
  BY <1>3, <1>4 DEF Structure, RoutingTypeOK
<1> QED
  BY <1>1, <1>5

LEMMA StructureSkip ==
    ASSUME Structure, NEW t \in Types, Skip(t)
    PROVE  RoutingTypeOK' /\ InstanceInv'
<1>1. InstanceInv'
  BY InstanceUntouched DEF Skip, Structure
<1>2. todo' \subseteq Types /\ want' \in Routes /\ astray' \subseteq Types
  BY TurnFacts DEF Skip, Structure, RoutingTypeOK
<1>3. UNCHANGED <<lambdaVars, table, providerVars, startVars, subVars, history>>
  BY DEF Skip
<1>4. RoutingTypeOK'
  BY <1>2, <1>3 DEF Structure, RoutingTypeOK
<1> QED
  BY <1>1, <1>4

LEMMA StructureActivate ==
    ASSUME Structure, NEW t \in Types, ActivateRoute(t)
    PROVE  RoutingTypeOK' /\ InstanceInv'
<1>1. cur \in Starts /\ spc[cur] \in {"reapply", "done"}
  BY TurnFacts DEF ActivateRoute
<1>2. want[t] \in SUBSET Symbols /\ Activate(Worker, cur, t, want[t])
  BY DEF ActivateRoute, Structure, RoutingTypeOK, Routes
<1>3. UNCHANGED <<lambdaVars, workerVars, providerVars, startVars, active, venue, history>>
  BY DEF ActivateRoute
<1>4. RoutingTypeOK /\ Worker \in Actors /\ Worker \notin Starts /\ Starts \subseteq Actors
  BY ActorsTyped DEF Structure
<1>5. /\ act' \in [Actors -> Steps \union {Idle}]
      /\ act'[Worker].on = cur
      /\ \A b \in Actors : b # Worker => act'[b] = act[b]
  BY <1>1, <1>2, <1>4, ActivateEffect
<1>6. RoutingTypeOK'
  BY <1>3, <1>5 DEF Structure, RoutingTypeOK
<1>7. \A g \in Starts : act'[g] = act[g]
  BY <1>4, <1>5
<1>8. InstanceInv'
  BY <1>1, <1>3, <1>5, <1>7 DEF Structure, InstanceInv
<1> QED
  BY <1>6, <1>8

\* What Deactivate does to the routes recorded.
LEMMA DeactivateEffect ==
    ASSUME Structure, NEW t \in Types, DeactivateRoute(t)
    PROVE  /\ cur \in Starts /\ spc[cur] \in {"reapply", "done"} /\ cur \notin cancelled
           /\ active' \in [Starts -> Routes] /\ active'[cur][t] = {}
           /\ \A k \in Starts : k # cur => active'[k] = active[k]
           /\ \A u \in Types : u # t => active'[cur][u] = active[cur][u]
<1>1. cur \in Starts /\ spc[cur] \in {"reapply", "done"} /\ cur \notin cancelled
  BY TurnFacts DEF DeactivateRoute
<1>2. active \in [Starts -> Routes] /\ active[cur] \in [Types -> SUBSET Symbols]
  BY <1>1 DEF Structure, RoutingTypeOK, Routes
<1>3. active' = [active EXCEPT ![cur][t] = {}]
  BY DEF DeactivateRoute
<1>4. [active[cur] EXCEPT ![t] = {}] \in Routes
  BY <1>2 DEF Routes
<1> QED
  BY <1>1, <1>2, <1>3, <1>4

LEMMA StructureDeactivate ==
    ASSUME Structure, NEW t \in Types, DeactivateRoute(t)
    PROVE  RoutingTypeOK' /\ InstanceInv'
<1>1. RoutingTypeOK /\ Worker \in Actors /\ Worker \notin Starts /\ Starts \subseteq Actors
  BY ActorsTyped DEF Structure
<1>2. UNCHANGED <<lambdaVars, providerVars, startVars, venue, history>> /\ Turn(t)
  BY DEF DeactivateRoute
<1>3. /\ act' \in [Actors -> Steps \union {Idle}]
      /\ act'[Worker] # Idle => act'[Worker].on = cur
      /\ \A b \in Actors : b # Worker => act'[b] = act[b]
  <2>1. CASE active[cur][t] = {}
    <3>1. UNCHANGED act
      BY <2>1 DEF DeactivateRoute
    <3> QED
      BY <1>1, <1>2, <3>1, TurnFacts DEF RoutingTypeOK
  <2>2. CASE active[cur][t] # {}
    <3> DEFINE s == [at |-> "drop", on |-> cur, type |-> t, route |-> {}, old |-> active[cur][t]]
    <3>1. cur \in Starts
      BY DeactivateEffect
    <3>2. s \in Steps /\ s.on = cur
      BY <3>1 DEF Steps, Structure, RoutingTypeOK, Routes
    <3>3. Enter(Worker, s)
      BY <2>2 DEF DeactivateRoute
    <3> HIDE DEF s
    <3> QED
      BY <1>1, <3>2, <3>3, EnterTyped
  <2> QED
    BY <2>1, <2>2
<1>4. table' \in Routes /\ todo' \subseteq Types /\ want' \in Routes /\ astray' \subseteq Types
  <2>1. CASE active[cur][t] = {}
    <3>1. Treated(t) /\ table' = [table EXCEPT ![t] = {}] /\ astray' \subseteq astray
      BY <2>1 DEF DeactivateRoute, Follow
    <3> QED
      BY <1>2, <3>1, TurnFacts DEF Structure, RoutingTypeOK, Routes
  <2>2. CASE active[cur][t] # {}
    <3>1. UNCHANGED workerVars
      BY <2>2 DEF DeactivateRoute
    <3> QED
      BY <3>1 DEF Structure, RoutingTypeOK
  <2> QED
    BY <2>1, <2>2
<1>5. RoutingTypeOK'
  BY <1>2, <1>3, <1>4, DeactivateEffect DEF Structure, RoutingTypeOK
<1>6. \A g \in Starts : act'[g] = act[g]
  BY <1>1, <1>3
<1>7. \A g \in Starts : spc[g] \in {"none", "create"} => active'[g] = active[g]
  BY DeactivateEffect
<1>8. InstanceInv'
  BY <1>2, <1>3, <1>6, <1>7, DeactivateEffect DEF Structure, InstanceInv
<1> QED
  BY <1>5, <1>8

\* The steps of an activation leave it on its instance, and other instances alone.
LEMMA SubscribingStructure ==
    ASSUME RoutingTypeOK, InstanceInv, NEW a \in Actors, Subscribing(a),
           UNCHANGED <<spc, cur, cancelled>>
    PROVE  /\ act' \in [Actors -> Steps \union {Idle}] /\ venue' \in [Starts -> Routes]
           /\ InstanceInv'
           /\ UNCHANGED <<active, history>>
<1>1. /\ act[a] \in Steps /\ act' \in [Actors -> Steps \union {Idle}] /\ venue' \in [Starts -> Routes]
      /\ \A k \in Starts : k # act[a].on => venue'[k] = venue[k]
      /\ act'[a] # Idle /\ act'[a].on = act[a].on
      /\ \A b \in Actors : b # a => act'[b] = act[b]
      /\ UNCHANGED <<active, history>>
  <2>1. CASE Remove(a)
    BY <2>1, RemoveEffect DEF Idle, Steps
  <2>2. CASE Add(a)
    BY <2>2, AddEffect DEF Idle, Steps
  <2> QED
    BY <2>1, <2>2 DEF Subscribing
<1>2. act[a] # Idle /\ Worker \in Actors /\ Starts \subseteq Actors /\ (a = Worker \/ a \in Starts)
  BY <1>1, ActorsTyped DEF Actors, Worker
<1>3. spc[act[a].on] \in {"reapply", "done"} /\ act[a].on \in Starts
  BY <1>1, <1>2, StreamedTyped DEF InstanceInv
<1>4. \A g \in Starts : spc[g] \in {"none", "create"} => venue'[g] = venue[g] /\ active'[g] = active[g]
  BY <1>1, <1>3
<1>5. \A b \in Actors : act'[b] # Idle => act[b] # Idle /\ act'[b].on = act[b].on
  BY <1>1, <1>2
<1>6. InstanceInv'
  BY <1>2, <1>4, <1>5 DEF InstanceInv
<1> QED
  BY <1>1, <1>6

LEMMA ReturnStructure ==
    ASSUME RoutingTypeOK, InstanceInv, NEW a \in Actors, Returns(a), Enter(a, Idle),
           UNCHANGED <<spc, cur, cancelled>>
    PROVE  /\ act' \in [Actors -> Steps \union {Idle}]
           /\ active' \in [Starts -> Routes] /\ venue' \in [Starts -> Routes]
           /\ faults' \in 0..MaxFaults /\ broken' \subseteq Types /\ UNCHANGED <<calm, overtaken>>
           /\ InstanceInv'
<1>1. /\ act[a] \in Steps
      /\ active' \in [Starts -> Routes] /\ venue' \in [Starts -> Routes]
      /\ faults' \in 0..MaxFaults /\ broken' \subseteq Types /\ UNCHANGED <<calm, overtaken>>
      /\ \A k \in Starts : k # act[a].on => active'[k] = active[k] /\ venue'[k] = venue[k]
  BY ReturnTyped
<1>2. act[a] # Idle /\ Worker \in Actors /\ Starts \subseteq Actors /\ (a = Worker \/ a \in Starts)
  BY <1>1, ActorsTyped DEF Actors, Worker
<1>3. /\ act' \in [Actors -> Steps \union {Idle}] /\ act'[a] = Idle
      /\ \A b \in Actors : b # a => act'[b] = act[b]
  BY EnterTyped
<1>4. spc[act[a].on] \in {"reapply", "done"} /\ act[a].on \in Starts
  BY <1>1, <1>2, StreamedTyped DEF InstanceInv
<1>5. \A g \in Starts : spc[g] \in {"none", "create"} => venue'[g] = venue[g] /\ active'[g] = active[g]
  BY <1>1, <1>4
<1>6. \A b \in Actors : act'[b] # Idle => act'[b] = act[b]
  BY <1>3
<1>7. InstanceInv'
  BY <1>2, <1>5, <1>6 DEF InstanceInv
<1> QED
  BY <1>1, <1>3, <1>7

LEMMA StructureWorkerStep ==
    ASSUME Structure, WorkerStep
    PROVE  RoutingTypeOK' /\ InstanceInv'
<1>1. RoutingTypeOK /\ InstanceInv /\ Worker \in Actors
  BY DEF Structure, Actors
<1>2. Subscribing(Worker) /\ UNCHANGED <<lambdaVars, workerVars, providerVars, startVars>>
  BY DEF WorkerStep
<1>3. /\ act' \in [Actors -> Steps \union {Idle}] /\ venue' \in [Starts -> Routes]
      /\ InstanceInv' /\ UNCHANGED <<active, history>>
  BY <1>1, <1>2, SubscribingStructure
<1> QED
  BY <1>2, <1>3 DEF Structure, RoutingTypeOK

LEMMA StructureRouted ==
    ASSUME Structure, Routed
    PROVE  RoutingTypeOK' /\ InstanceInv'
<1>1. RoutingTypeOK /\ InstanceInv /\ Worker \in Actors
  BY DEF Structure, Actors
<1>2. /\ Returns(Worker) /\ Enter(Worker, Idle) /\ UNCHANGED <<lambdaVars, providerVars, startVars>>
      /\ table' = table \/ table' = [table EXCEPT ![act[Worker].type] = act[Worker].route]
      /\ astray' \subseteq astray /\ Treated(act[Worker].type)
  BY DEF Routed, Returns, Follow
<1>3. /\ act' \in [Actors -> Steps \union {Idle}]
      /\ active' \in [Starts -> Routes] /\ venue' \in [Starts -> Routes]
      /\ faults' \in 0..MaxFaults /\ broken' \subseteq Types /\ UNCHANGED <<calm, overtaken>>
      /\ InstanceInv'
  BY <1>1, <1>2, ReturnStructure
<1>4. act[Worker].type \in Types /\ act[Worker].route \in SUBSET Symbols
  BY <1>1, <1>2, ReturnTyped, StreamedTyped
<1>5. table' \in Routes /\ astray' \subseteq Types
  BY <1>2, <1>4 DEF Structure, RoutingTypeOK, Routes
<1>6. todo' \subseteq Types /\ want' \in Routes
  BY <1>2, NoRoutesTyped DEF Treated, Structure, RoutingTypeOK
<1> QED
  BY <1>2, <1>3, <1>5, <1>6 DEF Structure, RoutingTypeOK

LEMMA StructureStartStep ==
    ASSUME Structure, NEW g \in Starts, StartStep(g)
    PROVE  RoutingTypeOK' /\ InstanceInv'
<1>1. RoutingTypeOK /\ InstanceInv /\ g \in Actors
  BY DEF Structure, Actors
<1>2. UNCHANGED <<lambdaVars, workerVars, providerVars, startVars>>
  BY DEF StartStep
<1>3. CASE Subscribing(g)
  <2>1. /\ act' \in [Actors -> Steps \union {Idle}] /\ venue' \in [Starts -> Routes]
        /\ InstanceInv' /\ UNCHANGED <<active, history>>
    BY <1>1, <1>2, <1>3, SubscribingStructure
  <2> QED
    BY <1>2, <2>1 DEF Structure, RoutingTypeOK
<1>4. CASE Returns(g) /\ Enter(g, Idle)
  <2>1. /\ act' \in [Actors -> Steps \union {Idle}]
        /\ active' \in [Starts -> Routes] /\ venue' \in [Starts -> Routes]
        /\ faults' \in 0..MaxFaults /\ broken' \subseteq Types /\ UNCHANGED <<calm, overtaken>>
        /\ InstanceInv'
    BY <1>1, <1>2, <1>4, ReturnStructure
  <2> QED
    BY <1>2, <2>1 DEF Structure, RoutingTypeOK
<1> QED
  BY <1>3, <1>4 DEF StartStep, Returns

LEMMA StructureCreate ==
    ASSUME Structure, Create
    PROVE  RoutingTypeOK' /\ InstanceInv'
<1>1. InstanceInv'
  BY InstanceUntouched DEF Create, Structure
<1>2. RoutingTypeOK'
  BY NoRoutesTyped DEF Create, Structure, RoutingTypeOK
<1> QED
  BY <1>1, <1>2

LEMMA StructurePrepare ==
    ASSUME Structure, Prepare
    PROVE  RoutingTypeOK' /\ InstanceInv'
<1>1. starts \in Nat /\ cur = 0 /\ starts' = starts + 1 /\ starts' \in Starts /\ starts' \in 0..MaxStarts
  BY DEF Prepare, Startable, Structure, RoutingTypeOK, Starts
<1>2. spc[starts'] = "none"
  BY <1>1 DEF Structure, StartInv
<1>3. /\ spc' \in [Starts -> {"none", "create", "reapply", "done", "over"}]
      /\ spc'[starts'] = "create" /\ \A g \in Starts : g # starts' => spc'[g] = spc[g]
      /\ kept' \in [Starts -> Routes] /\ calm' \in BOOLEAN /\ status' = "starting"
      /\ UNCHANGED <<left, cur, cached, cancelled, lambdaVars, workerVars, subVars, faults, broken, overtaken>>
  BY <1>1 DEF Prepare, Structure, RoutingTypeOK
<1>4. RoutingTypeOK'
  BY <1>1, <1>3 DEF Structure, RoutingTypeOK
<1>5. InstanceInv'
  BY <1>1, <1>2, <1>3, StreamedTyped, ActorsTyped DEF Structure, InstanceInv
<1> QED
  BY <1>4, <1>5

LEMMA CancelEffect ==
    ASSUME Structure, NEW g \in Starts, Cancel(g)
    PROVE  /\ cancelled' = cancelled \union {g} /\ cancelled' \subseteq Starts
           /\ active' \in [Starts -> Routes] /\ venue' \in [Starts -> Routes]
           /\ active'[g] = NoRoutes /\ venue'[g] = NoRoutes
           /\ \A k \in Starts : k # g => active'[k] = active[k] /\ venue'[k] = venue[k]
BY NoRoutesTyped DEF Cancel, Structure, RoutingTypeOK

LEMMA StructureStop ==
    ASSUME Structure, Stop
    PROVE  RoutingTypeOK' /\ InstanceInv'
<1>1. cur \in Starts /\ spc[cur] \in {"reapply", "done"}
  BY DEF Stop, Structure, StartInv, InstanceInv, Starts
<1>2. /\ Cancel(cur) /\ cur' = 0 /\ status' = "stopped" /\ cached' = active[cur] /\ calm' \in BOOLEAN
      /\ UNCHANGED <<lambdaVars, workerVars, startVars, act, faults, broken, overtaken>>
  BY DEF Stop, Kept, NoInstance, Structure, RoutingTypeOK
<1>3. cached' \in Routes /\ cur' \in 0..starts'
  BY <1>1, <1>2 DEF Structure, RoutingTypeOK
<1>4. RoutingTypeOK'
  BY <1>1, <1>2, <1>3, CancelEffect DEF Structure, RoutingTypeOK
<1>5. InstanceInv'
  BY <1>1, <1>2, CancelEffect DEF Structure, InstanceInv
<1> QED
  BY <1>4, <1>5

LEMMA StructureDelete ==
    ASSUME Structure, Delete
    PROVE  RoutingTypeOK' /\ InstanceInv'
<1>1. /\ cur' = 0 /\ status' = "absent" /\ cached' = NoRoutes
      /\ calm' \in BOOLEAN /\ overtaken' \in BOOLEAN /\ astray' \subseteq Types
      /\ UNCHANGED <<lambdaVars, table, want, todo, startVars, act, faults, broken>>
  BY DEF Delete, NoInstance, Structure, RoutingTypeOK
<1>2. cached' \in Routes /\ cur' \in 0..starts'
  BY <1>1, NoRoutesTyped DEF Structure, RoutingTypeOK
<1>3. CASE cur = 0
  <2>1. UNCHANGED <<cancelled, active, venue>>
    BY <1>3 DEF Delete
  <2> QED
    BY <1>1, <1>2, <2>1 DEF Structure, RoutingTypeOK, InstanceInv
<1>4. CASE cur # 0
  <2>1. cur \in Starts /\ spc[cur] \in {"reapply", "done"} /\ Cancel(cur)
    BY <1>4 DEF Delete, Structure, StartInv, InstanceInv, Starts
  <2>2. RoutingTypeOK'
    BY <1>1, <1>2, <2>1, CancelEffect DEF Structure, RoutingTypeOK
  <2>3. InstanceInv'
    BY <1>1, <2>1, CancelEffect DEF Structure, InstanceInv
  <2> QED
    BY <2>2, <2>3
<1> QED
  BY <1>3, <1>4

\* Where the worker is, and the provider's instance.
LEMMA PlacesTyped ==
    ASSUME Structure
    PROVE  /\ act[Worker] # Idle => act[Worker].on \in Starts
           /\ cur # 0 => cur \in Starts
<1>1. act[Worker] # Idle => act[Worker] \in Steps
  BY ActorsTyped DEF Structure
<1> QED
  BY <1>1 DEF Structure, StartInv, Steps, Starts

\* An instance whose adapter is being made has no activation.
LEMMA CreatingIsIdle ==
    ASSUME Structure, NEW g \in Starts, spc[g] = "create"
    PROVE  /\ act[g] = Idle /\ g \notin cancelled /\ cur # g
           /\ act[Worker] # Idle => act[Worker].on # g
BY DEF Structure, InstanceInv, Starts

LEMMA StructureMakeFails ==
    ASSUME Structure, NEW g \in Starts, MakeFails(g)
    PROVE  RoutingTypeOK' /\ InstanceInv'
<1>1. /\ spc' \in [Starts -> {"none", "create", "reapply", "done", "over"}]
      /\ spc'[g] = "over" /\ \A h \in Starts : h # g => spc'[h] = spc[h]
      /\ kept' \in [Starts -> Routes] /\ spc[g] = "create"
      /\ UNCHANGED <<starts, left, cached, cancelled, lambdaVars, workerVars, subVars, broken, calm, overtaken>>
  BY NoRoutesTyped DEF MakeFails, Forget, SGoto, Fault, Structure, RoutingTypeOK
<1>2. faults' = faults + 1 /\ faults < MaxFaults /\ faults \in 0..MaxFaults
  BY DEF MakeFails, Fault, Structure, RoutingTypeOK
<1>3. faults' \in 0..MaxFaults
  BY <1>2
<1>4. \/ status = "absent" /\ UNCHANGED <<status, cur>>
      \/ status' = "failed" /\ cur' = 0
  BY DEF MakeFails, StartFailed, NoInstance
<1>7. cur' \in 0..starts' /\ (cur' # 0 <=> status' = "running")
      /\ status' \in {"absent", "pending", "starting", "running", "stopped", "failed"}
  BY <1>1, <1>4 DEF Structure, RoutingTypeOK
<1>5. RoutingTypeOK'
  BY <1>1, <1>2, <1>3, <1>7 DEF Structure, RoutingTypeOK
<1>6. InstanceInv'
  BY <1>1, <1>4, CreatingIsIdle, PlacesTyped DEF Structure, InstanceInv
<1> QED
  BY <1>5, <1>6

LEMMA StructureRecordStart ==
    ASSUME Structure, NEW g \in Starts, RecordStart(g)
    PROVE  RoutingTypeOK' /\ InstanceInv'
<1>1. /\ spc[g] = "create" /\ UNCHANGED <<starts, cached, lambdaVars, workerVars, subVars, history>>
      /\ g \in 0..starts /\ g # 0
  BY DEF RecordStart, Structure, StartInv, RoutingTypeOK, Starts
<1>2. CASE status = "absent"
  <2>1. /\ spc' \in [Starts -> {"none", "create", "reapply", "done", "over"}]
        /\ spc'[g] = "over" /\ \A h \in Starts : h # g => spc'[h] = spc[h]
        /\ kept' \in [Starts -> Routes] /\ cancelled' = cancelled \union {g}
        /\ UNCHANGED <<left, status, cur>>
    BY <1>2, NoRoutesTyped DEF RecordStart, Forget, SGoto, Structure, RoutingTypeOK
  <2>2. RoutingTypeOK'
    BY <1>1, <2>1 DEF Structure, RoutingTypeOK
  <2>3. InstanceInv'
    BY <1>1, <2>1, CreatingIsIdle, PlacesTyped DEF Structure, InstanceInv
  <2> QED
    BY <2>2, <2>3
<1>3. CASE status # "absent"
  <2>1. /\ spc' \in [Starts -> {"none", "create", "reapply", "done", "over"}]
        /\ spc'[g] = "reapply" /\ \A h \in Starts : h # g => spc'[h] = spc[h]
        /\ left' \in [Starts -> SUBSET Types] /\ cur' = g /\ status' = "running"
        /\ UNCHANGED <<cancelled, kept>>
    BY <1>3 DEF RecordStart, SGoto, Structure, RoutingTypeOK
  <2>2. RoutingTypeOK'
    BY <1>1, <2>1 DEF Structure, RoutingTypeOK
  <2>3. InstanceInv'
    BY <1>1, <2>1, CreatingIsIdle, PlacesTyped DEF Structure, InstanceInv
  <2> QED
    BY <2>2, <2>3
<1> QED
  BY <1>2, <1>3

LEMMA StructureReapply ==
    ASSUME Structure, NEW g \in Starts, Reapply(g)
    PROVE  RoutingTypeOK' /\ InstanceInv'
<1>1. PICK t \in left[g] : left' = [left EXCEPT ![g] = @ \ {t}] /\ Activate(g, g, t, kept[g][t])
  BY DEF Reapply
<1>2. /\ spc[g] = "reapply"
      /\ UNCHANGED <<spc, starts, kept, active, venue, lambdaVars, workerVars, providerVars, history>>
  BY DEF Reapply
<1>3. RoutingTypeOK /\ t \in Types /\ kept[g][t] \in SUBSET Symbols /\ g \in Actors
      /\ left' \in [Starts -> SUBSET Types] /\ Worker \in Actors /\ Starts \subseteq Actors /\ Worker # g
  BY <1>1, ActorsTyped DEF Structure, RoutingTypeOK, Routes, Actors
<1>4. /\ act' \in [Actors -> Steps \union {Idle}] /\ act'[g].on = g
      /\ \A b \in Actors : b # g => act'[b] = act[b]
  BY <1>1, <1>3, ActivateEffect
<1>5. RoutingTypeOK'
  BY <1>2, <1>3, <1>4 DEF RoutingTypeOK
<1>6. InstanceInv'
  BY <1>2, <1>3, <1>4 DEF Structure, InstanceInv
<1> QED
  BY <1>5, <1>6

LEMMA StructureClear ==
    ASSUME Structure, NEW g \in Starts, Clear(g)
    PROVE  RoutingTypeOK' /\ InstanceInv'
<1>1. /\ spc[g] = "reapply" /\ act[g] = Idle
      /\ spc' \in [Starts -> {"none", "create", "reapply", "done", "over"}]
      /\ spc'[g] = "done" /\ \A h \in Starts : h # g => spc'[h] = spc[h]
      /\ kept' \in [Starts -> Routes] /\ cached' \in Routes
      /\ UNCHANGED <<starts, left, status, cur, cancelled, lambdaVars, workerVars, subVars, history>>
  BY NoRoutesTyped DEF Clear, SGoto, Structure, RoutingTypeOK
<1>2. RoutingTypeOK'
  BY <1>1 DEF Structure, RoutingTypeOK
<1>3. InstanceInv'
  BY <1>1, PlacesTyped DEF Structure, InstanceInv
<1> QED
  BY <1>2, <1>3

LEMMA StructureStep ==
    ASSUME Structure, [Next]_vars
    PROVE  Structure'
<1>1. StartInv'
  BY StartInvStep DEF Structure
<1>2. RoutingTypeOK' /\ InstanceInv'
  <2>1. CASE \E l \in Lambdas : Unregister(l) \/ \E routes \in Asks[l] : Register(l, routes)
    BY <2>1, StructureLambdas
  <2>2. CASE Registrar
    BY <2>2, StructureWake, StructureWorkerStep, StructureRouted, StructureSkip, StructureActivate,
       StructureDeactivate DEF Registrar
  <2>3. CASE Create \/ Prepare \/ Stop \/ Delete
    BY <2>3, StructureCreate, StructurePrepare, StructureStop, StructureDelete
  <2>4. ASSUME NEW g \in Starts, Start(g) PROVE RoutingTypeOK' /\ InstanceInv'
    BY <2>4, StructureMakeFails, StructureRecordStart, StructureReapply, StructureStartStep,
       StructureClear DEF Start
  <2>5. CASE UNCHANGED vars
    BY <2>5 DEF Structure, RoutingTypeOK, InstanceInv
  <2> QED
    BY <2>1, <2>2, <2>3, <2>4, <2>5 DEF Next
<1> QED
  BY <1>1, <1>2 DEF Structure

CalmParts == Structure /\ CalmInv

LEMMA CalmUntouched ==
    ASSUME CalmInv, UNCHANGED <<workerVars, providerVars, startVars, subVars, overtaken, broken>>,
           signal' = TRUE \/ UNCHANGED lambdaVars
    PROVE  CalmInv'
<1>1. OneAtWork' /\ VenueFollows' /\ TableFollows'
  BY DEF CalmInv, OneAtWork, VenueFollows, TableFollows, Covers, Bound, Untreated, Treating,
         AnyStarting, Starting
<1>2. LambdasFollowed'
  BY DEF CalmInv, LambdasFollowed, Desired
<1>3. \A g \in Starts : spc'[g] = "reapply" => Reapplied(g)'
  BY DEF CalmInv, Reapplied, Covers, Bound, Treating
<1> QED
  BY <1>1, <1>2, <1>3 DEF CalmInv

\* What a step that leaves the worker's list and the lambdas alone does to what it follows.
LEMMA LambdasUntouched ==
    ASSUME LambdasFollowed, UNCHANGED <<lambdaVars, workerVars>>, broken \subseteq broken',
           act'[Worker] # Idle => act'[Worker].route = want[act'[Worker].type]
    PROVE  LambdasFollowed'
BY DEF LambdasFollowed, Desired

\* Fewer types are bound after a call has failed.
LEMMA BoundFewer ==
    ASSUME UNCHANGED <<table, astray>>, broken \subseteq broken', NEW t, Bound(t)'
    PROVE  Bound(t)
BY DEF Bound

\* Who is in an activation is alone in it, on the provider's instance.
Alone(a) ==
    /\ act[a] \in Steps /\ act[a] # Idle /\ act[a].on = cur /\ cur \in Starts
    /\ \A b \in Actors : b # a => act[b] = Idle

LEMMA WhoActsIsAlone ==
    ASSUME CalmParts, NEW a \in Actors, act[a] # Idle
    PROVE  Alone(a)
<1>1. /\ act[a] \in Steps
      /\ cur # 0 => cur \in Starts
      /\ \A b \in Actors : b = Worker \/ b \in Starts
      /\ Worker \notin Starts
  BY ActorsTyped, PlacesTyped DEF CalmParts, Structure, Actors, Worker
<1>2. \A g \in Starts : act[g] # Idle => spc[g] = "reapply" /\ act[g].on = g /\ g = cur /\ todo = {}
  BY DEF CalmParts, CalmInv, OneAtWork, Structure, InstanceInv, Starting
<1>3. act[Worker] # Idle => todo # {} /\ act[Worker].on = cur /\ cur # 0
  BY DEF CalmParts, CalmInv, OneAtWork
<1>4. CASE a = Worker
  BY <1>1, <1>2, <1>3, <1>4 DEF Alone
<1>5. CASE a \in Starts
  <2>1. act[Worker] = Idle /\ \A b \in Starts : b # a => act[b] = Idle
    BY <1>2, <1>3, <1>5
  <2> QED
    BY <1>1, <1>2, <1>5, <2>1 DEF Alone
<1> QED
  BY <1>1, <1>4, <1>5

\* While the worker treats a type no start is under way.
LEMMA WorkerIsAlone ==
    ASSUME CalmParts, todo # {}
    PROVE  ~AnyStarting /\ \A g \in Starts : act[g] = Idle /\ spc[g] # "reapply" /\ spc[g] # "create"
BY DEF CalmParts, CalmInv, OneAtWork, Structure, InstanceInv, AnyStarting, Starting

\* While nobody is in an activation the venue streams what is recorded.
LEMMA AllUntreated ==
    ASSUME CalmParts, \A b \in Actors : act[b] = Idle, cur # 0
    PROVE  \A t \in Types : t \notin broken => active[cur][t] = venue[cur][t]
BY DEF CalmParts, CalmInv, VenueFollows, Untreated, Treating

\* A request takes the activation one step on.
LEMMA SubscribingCalm ==
    ASSUME CalmParts, NEW a \in Actors, Subscribing(a), UNCHANGED cur
    PROVE  /\ VenueFollows' /\ UNCHANGED <<active, broken>>
           /\ act[a] # Idle /\ act'[a] # Idle /\ act'[a].on = act[a].on
           /\ act'[a].type = act[a].type /\ act'[a].route = act[a].route
           /\ \A b \in Actors : b # a => act'[b] = act[b]
<1>1. RoutingTypeOK /\ VenueFollows
  BY DEF CalmParts, Structure, CalmInv
<1>2. act[a] # Idle /\ act[a] \in Steps
  BY <1>1, RemoveEffect, AddEffect, ActorsTyped DEF Subscribing
<1>3. Alone(a)
  BY <1>2, WhoActsIsAlone
<1> DEFINE t == act[a].type
<1>4. t \in Types /\ act[a].on = cur /\ cur \in Starts /\ Streamed(a) = venue[cur][t]
  BY <1>1, <1>3, StreamedTyped DEF Alone, Streamed
<1>5. t \notin broken => Progress(act[a], active[cur][t], venue[cur][t])
  BY <1>1, <1>2, <1>3 DEF VenueFollows, Alone
<1>6. /\ act'[a] \in Steps /\ act'[a].on = cur /\ act'[a].type = t
      /\ act'[a].route = act[a].route /\ act'[a].old = act[a].old
      /\ \A b \in Actors : b # a => act'[b] = act[b]
      /\ \A u \in Types : u # t => venue'[cur][u] = venue[cur][u]
      /\ UNCHANGED <<active, broken>>
      /\ t \notin broken => Progress(act'[a], active[cur][t], venue'[cur][t])
  <2>1. CASE Remove(a)
    <3>1. /\ act[a].at = "remove" /\ act'[a] \in Steps /\ act'[a].on = cur /\ act'[a].type = t
          /\ act'[a].route = act[a].route /\ act'[a].old = act[a].old
          /\ \A b \in Actors : b # a => act'[b] = act[b]
          /\ \A u \in Types : u # t => venue'[cur][u] = venue[cur][u]
          /\ UNCHANGED <<active, broken>>
      BY <1>1, <1>4, <2>1, RemoveEffect
    <3>2. /\ venue'[cur][t] = Streamed(a) \ (act[a].old \ act[a].route)
          /\ act'[a].at = IF act[a].route \subseteq act[a].old THEN "record" ELSE "add"
      BY <1>1, <1>4, <2>1, RemoveEffect
    <3>3. t \notin broken => venue[cur][t] = act[a].old /\ active[cur][t] = act[a].old
      BY <1>5, <3>1 DEF Progress
    <3>4. t \notin broken => venue'[cur][t] = act[a].old \intersect act[a].route
      BY <1>4, <3>2, <3>3
    <3>5. t \notin broken => Progress(act'[a], active[cur][t], venue'[cur][t])
      BY <3>1, <3>2, <3>3, <3>4 DEF Progress
    <3> QED
      BY <3>1, <3>5
  <2>2. CASE Add(a)
    <3>1. /\ act[a].at = "add" /\ act'[a] \in Steps /\ act'[a].on = cur /\ act'[a].type = t
          /\ act'[a].route = act[a].route /\ act'[a].old = act[a].old
          /\ \A b \in Actors : b # a => act'[b] = act[b]
          /\ \A u \in Types : u # t => venue'[cur][u] = venue[cur][u]
          /\ UNCHANGED <<active, broken>>
      BY <1>1, <1>4, <2>2, AddEffect
    <3>2. venue'[cur][t] = Streamed(a) \union (act[a].route \ act[a].old) /\ act'[a].at = "record"
      BY <1>1, <1>4, <2>2, AddEffect
    <3>3. t \notin broken => venue[cur][t] = act[a].old \intersect act[a].route
      BY <1>5, <3>1 DEF Progress
    <3>4. t \notin broken => venue'[cur][t] = act[a].route
      BY <1>4, <3>2, <3>3
    <3>5. t \notin broken => Progress(act'[a], active[cur][t], venue'[cur][t])
      BY <3>1, <3>2, <3>4 DEF Progress
    <3> QED
      BY <3>1, <3>5
  <2> QED
    BY <2>1, <2>2 DEF Subscribing
<1>7. act'[a] # Idle
  BY <1>6 DEF Steps, Idle
<1>8. \A b \in Actors : b # a => act'[b] = Idle
  BY <1>3, <1>6 DEF Alone
<1>9. VenueFollows'
  <2>1. \A b \in Actors : act'[b] # Idle /\ act'[b].type \notin broken' =>
           Progress(act'[b], active'[act'[b].on][act'[b].type], venue'[act'[b].on][act'[b].type])
    BY <1>6, <1>8
  <2>2. \A u \in Types : (\A b \in Actors : ~(act'[b] # Idle /\ act'[b].type = u)) /\ u \notin broken'
           => active'[cur][u] = venue'[cur][u]
    <3> SUFFICES ASSUME NEW u \in Types, u # t, u \notin broken PROVE active'[cur][u] = venue'[cur][u]
      BY <1>6, <1>7
    <3>1. Untreated(u)
      BY <1>3 DEF Untreated, Treating, Alone
    <3> QED
      BY <1>1, <1>3, <1>6, <3>1 DEF VenueFollows, Alone, Starts
  <2> QED
    BY <2>1, <2>2 DEF VenueFollows, Untreated, Treating
<1> QED
  BY <1>2, <1>4, <1>6, <1>7, <1>9

\* An activation that ends without a failure has its route recorded and streamed.
\* After a failure the routes are as they were.
LEMMA ReturnCalm ==
    ASSUME CalmParts, NEW a \in Actors, Returns(a), Enter(a, Idle), UNCHANGED <<cur, cancelled>>
    PROVE  /\ Alone(a) /\ ~Adrift(a)
           /\ VenueFollows'
           /\ broken \subseteq broken' /\ (CallFails(a) => act[a].type \in broken')
           /\ act[a].type \notin broken' => active'[cur][act[a].type] = act[a].route
           /\ \A u \in Types : u # act[a].type => active'[cur][u] = active[cur][u]
           /\ \A b \in Actors : act'[b] = Idle
<1>1. RoutingTypeOK /\ VenueFollows /\ InstanceInv
  BY DEF CalmParts, Structure, CalmInv
<1>2. act[a] # Idle /\ act[a] \in Steps
  BY <1>1, ReturnTyped, ActorsTyped
<1>3. Alone(a)
  BY <1>2, WhoActsIsAlone
<1> DEFINE t == act[a].type
<1>4. t \in Types /\ act[a].on = cur /\ cur \in Starts /\ Streamed(a) = venue[cur][t]
  BY <1>1, <1>3, StreamedTyped DEF Alone, Streamed
<1>5. t \notin broken => Progress(act[a], active[cur][t], venue[cur][t])
  BY <1>1, <1>2, <1>3 DEF VenueFollows, Alone
<1>6. cur \notin cancelled
  BY <1>1, <1>4 DEF InstanceInv, Starts
<1>7. ~Adrift(a) /\ broken \subseteq broken' /\ (CallFails(a) => t \in broken')
  BY <1>1, <1>4, <1>6, ReturnTyped DEF Adrift, CallFails
<1>8. /\ t \notin broken' => active'[cur][t] = act[a].route /\ venue'[cur][t] = act[a].route
      /\ \A u \in Types : u # t => active'[cur][u] = active[cur][u] /\ venue'[cur][u] = venue[cur][u]
  <2>1. CASE Known(a)
    <3>1. act[a].at = "known" /\ UNCHANGED <<active, venue>>
      BY <2>1 DEF Known, Attached
    <3> QED
      BY <1>5, <1>7, <3>1 DEF Progress
  <2>2. CASE Record(a)
    <3>1. /\ act[a].at = "record" /\ active'[cur][t] = act[a].route /\ UNCHANGED venue
          /\ \A u \in Types : u # t => active'[cur][u] = active[cur][u]
      BY <1>1, <1>4, <2>2, RecordEffect
    <3> QED
      BY <1>5, <1>7, <3>1 DEF Progress
  <2>3. CASE Drop(a)
    <3>1. /\ act[a].at = "drop" /\ venue'[cur][t] = venue[cur][t] \ act[a].old /\ UNCHANGED active
          /\ \A u \in Types : u # t => venue'[cur][u] = venue[cur][u]
      BY <1>1, <1>4, <2>3, DropEffect
    <3> QED
      BY <1>5, <1>7, <3>1 DEF Progress
  <2>4. CASE CallFails(a)
    BY <1>7, <2>4 DEF CallFails
  <2> QED
    BY <1>7, <2>1, <2>2, <2>3, <2>4 DEF Returns
<1>9. \A b \in Actors : act'[b] = Idle
  BY <1>1, <1>3, EnterTyped DEF Alone
<1>10. VenueFollows'
  <2>1. \A u \in Types : u # t /\ u \notin broken => active[cur][u] = venue[cur][u]
    <3> SUFFICES ASSUME NEW u \in Types, u # t, u \notin broken PROVE active[cur][u] = venue[cur][u]
      OBVIOUS
    <3>1. Untreated(u)
      BY <1>3 DEF Untreated, Treating, Alone
    <3> QED
      BY <1>1, <1>4, <3>1 DEF VenueFollows, Starts
  <2>2. \A u \in Types : u \notin broken' => active'[cur][u] = venue'[cur][u]
    BY <1>7, <1>8, <2>1
  <2> QED
    BY <1>9, <2>2 DEF VenueFollows
<1> QED
  BY <1>3, <1>7, <1>8, <1>9, <1>10

\* Only routes, activations and the worker's list: the starts stay as they are.
LEMMA CalmWake ==
    ASSUME CalmParts, Wake, calm'
    PROVE  CalmInv'
<1>1. ~AnyStarting /\ todo = {} /\ signal' = FALSE
      /\ UNCHANGED <<reg, table, providerVars, startVars, subVars, faults, broken, overtaken>>
  BY DEF Wake
<1>2. \A g \in Starts : ~Starting(g) /\ spc[g] # "reapply"
  BY <1>1 DEF AnyStarting, Starting
<1>3. act[Worker] = Idle
  BY <1>1 DEF CalmParts, CalmInv, OneAtWork
<1>4. OneAtWork'
  BY <1>1, <1>2, <1>3 DEF CalmParts, CalmInv, OneAtWork, Starting
<1>5. \A t \in Types : Bound(t)' => Bound(t)
  BY <1>1 DEF Wake, Bound
<1>6. VenueFollows'
  BY <1>1 DEF CalmParts, CalmInv, VenueFollows, Untreated, Treating
<1>7. TableFollows'
  BY <1>1, <1>5 DEF CalmParts, CalmInv, TableFollows, Covers, Treating, AnyStarting, Starting
<1>8. LambdasFollowed'
  <2>1. Desired' = Desired
    BY <1>1 DEF Desired
  <2>2. ASSUME NEW t \in Types
        PROVE  IF t \in todo' THEN want'[t] = Desired[t] ELSE table'[t] = Desired[t]
    BY <1>1 DEF Wake
  <2> QED
    BY <1>1, <1>3, <2>1, <2>2 DEF LambdasFollowed
<1> QED
  BY <1>1, <1>2, <1>4, <1>6, <1>7, <1>8 DEF CalmInv

LEMMA CalmSkip ==
    ASSUME CalmParts, NEW t \in Types, Skip(t)
    PROVE  CalmInv'
<1>1. /\ UNCHANGED <<lambdaVars, table, providerVars, startVars, subVars, history>>
      /\ todo' = todo \ {t} /\ t \in todo /\ act[Worker] = Idle
      /\ astray' = astray \union {t} /\ (todo' # {} => want' = want)
  BY DEF Skip, Turn, Treated
<1>2. \A g \in Starts : ~Starting(g) /\ spc[g] # "reapply"
  BY <1>1, WorkerIsAlone DEF Starting
<1>3. OneAtWork'
  BY <1>1, <1>2 DEF CalmParts, CalmInv, OneAtWork, Starting
<1>4. \A u \in Types : Bound(u)' => Bound(u)
  BY <1>1 DEF Bound
<1>5. VenueFollows'
  BY <1>1 DEF CalmParts, CalmInv, VenueFollows, Untreated, Treating
<1>6. TableFollows'
  BY <1>1, <1>4 DEF CalmParts, CalmInv, TableFollows, Covers, Treating, AnyStarting, Starting
<1>7. LambdasFollowed'
  <2>1. Desired' = Desired
    BY <1>1 DEF Desired
  <2> QED
    BY <1>1, <2>1 DEF CalmParts, CalmInv, LambdasFollowed
<1> QED
  BY <1>1, <1>2, <1>3, <1>5, <1>6, <1>7 DEF CalmInv

\* What the worker finds when it turns to a type.
LEMMA TurnCalm ==
    ASSUME CalmParts, NEW t \in Types, Turn(t), cur # 0
    PROVE  /\ cur \in Starts /\ t \in todo /\ ~AnyStarting
           /\ \A b \in Actors : act[b] = Idle
           /\ \A g \in Starts : ~Starting(g) /\ spc[g] # "reapply" /\ spc[g] # "create"
           /\ \A u \in Types : u \notin broken => active[cur][u] = venue[cur][u]
           /\ \A u \in Types : Bound(u) => table[u] = active[cur][u]
<1>1. cur \in Starts /\ t \in todo /\ act[Worker] = Idle
  BY TurnFacts DEF CalmParts
<1>2. /\ ~AnyStarting
      /\ \A g \in Starts : act[g] = Idle /\ spc[g] # "reapply" /\ spc[g] # "create"
  BY <1>1, WorkerIsAlone
<1>3. \A b \in Actors : act[b] = Idle
  BY <1>1, <1>2 DEF Actors, Worker
<1>4. \A u \in Types : u \notin broken => active[cur][u] = venue[cur][u]
  BY <1>3, AllUntreated
<1>5. \A u \in Types : Bound(u) => table[u] = active[cur][u]
  BY <1>1, <1>2 DEF CalmParts, CalmInv, TableFollows, Treating
<1> QED
  BY <1>1, <1>2, <1>3, <1>4, <1>5 DEF Starting

LEMMA CalmActivate ==
    ASSUME CalmParts, NEW t \in Types, ActivateRoute(t)
    PROVE  CalmInv'
<1>1. /\ Turn(t) /\ cur # 0 /\ Activate(Worker, cur, t, want[t])
      /\ UNCHANGED <<lambdaVars, workerVars, providerVars, startVars, active, venue, history>>
  BY DEF ActivateRoute
<1>2. /\ cur \in Starts /\ t \in todo /\ ~AnyStarting
      /\ \A b \in Actors : act[b] = Idle
      /\ \A g \in Starts : ~Starting(g) /\ spc[g] # "reapply" /\ spc[g] # "create"
      /\ \A u \in Types : u \notin broken => active[cur][u] = venue[cur][u]
      /\ \A u \in Types : Bound(u) => table[u] = active[cur][u]
  BY <1>1, TurnCalm
<1>3. RoutingTypeOK /\ Worker \in Actors /\ want[t] \in SUBSET Symbols
  BY DEF CalmParts, Structure, RoutingTypeOK, Routes, Actors
<1>4. /\ act'[Worker] \in Steps /\ act'[Worker].on = cur /\ act'[Worker].type = t
      /\ act'[Worker].route = want[t] /\ act'[Worker].old = active[cur][t]
      /\ \/ act'[Worker].at = "known" /\ active[cur][t] = want[t]
         \/ act'[Worker].at = "add" /\ active[cur][t] \subseteq want[t]
         \/ act'[Worker].at = "remove"
      /\ \A b \in Actors : b # Worker => act'[b] = act[b]
  BY <1>1, <1>2, <1>3, ActivateEffect
<1>5. act'[Worker] # Idle
  BY <1>4 DEF Steps, Idle
<1>6. t \notin broken => venue[cur][t] = active[cur][t]
  BY <1>2
<1>7. t \notin broken => Progress(act'[Worker], active[cur][t], venue[cur][t])
  BY <1>4, <1>6 DEF Progress
<1>8. OneAtWork'
  BY <1>1, <1>2, <1>4 DEF CalmParts, CalmInv, OneAtWork, Starting
<1>9. VenueFollows'
  BY <1>1, <1>2, <1>4, <1>7 DEF VenueFollows
<1>10. TableFollows'
  BY <1>1, <1>2 DEF CalmParts, CalmInv, TableFollows, Covers, Bound, AnyStarting, Starting
<1>11. LambdasFollowed'
  BY <1>1, <1>4, LambdasUntouched DEF CalmParts, CalmInv
<1> QED
  BY <1>1, <1>2, <1>8, <1>9, <1>10, <1>11 DEF CalmInv

LEMMA CalmDeactivate ==
    ASSUME CalmParts, NEW t \in Types, DeactivateRoute(t)
    PROVE  CalmInv'
<1>1. /\ Turn(t) /\ cur # 0 /\ want[t] = {}
      /\ UNCHANGED <<lambdaVars, providerVars, startVars, venue, history>>
  BY DEF DeactivateRoute
<1>2. /\ cur \in Starts /\ t \in todo /\ ~AnyStarting
      /\ \A b \in Actors : act[b] = Idle
      /\ \A g \in Starts : ~Starting(g) /\ spc[g] # "reapply" /\ spc[g] # "create"
      /\ \A u \in Types : u \notin broken => active[cur][u] = venue[cur][u]
      /\ \A u \in Types : Bound(u) => table[u] = active[cur][u]
  BY <1>1, TurnCalm
<1>3. Structure /\ Worker \in Actors /\ RoutingTypeOK
  BY DEF CalmParts, Actors, Structure
<1>4. /\ active'[cur][t] = {}
      /\ \A u \in Types : u # t => active'[cur][u] = active[cur][u]
  BY <1>3, DeactivateEffect
<1>5. CASE active[cur][t] = {}
  <2>1. /\ Treated(t) /\ table' = [table EXCEPT ![t] = {}] /\ astray' = astray \ {t}
        /\ UNCHANGED act
    BY <1>5 DEF DeactivateRoute, Follow
  <2>2. table'[t] = {} /\ \A u \in Types : u # t => table'[u] = table[u]
    BY <1>3, <2>1 DEF RoutingTypeOK, Routes
  <2>3. \A u \in Types : u \notin broken' => active'[cur][u] = venue'[cur][u]
    BY <1>1, <1>2, <1>4, <1>5
  <2>4. \A u \in Types : Bound(u)' => table'[u] = active'[cur][u]
    <3>1. \A u \in Types : u # t /\ Bound(u)' => Bound(u)
      BY <1>1, <2>1, <2>2 DEF Bound
    <3> QED
      BY <1>2, <1>4, <2>2, <3>1
  <2>5. status # "absent"
    BY <1>1, <1>3 DEF RoutingTypeOK
  <2>6. OneAtWork'
    BY <1>1, <1>2, <1>3, <2>1 DEF CalmParts, CalmInv, OneAtWork, Starting, Treated
  <2>7. VenueFollows'
    BY <1>1, <1>2, <2>1, <2>3 DEF VenueFollows
  <2>8. TableFollows'
    BY <1>1, <1>2, <2>4, <2>5 DEF TableFollows
  <2>9. LambdasFollowed'
    <3>1. Desired' = Desired /\ act'[Worker] = Idle
      BY <1>1, <1>2, <1>3, <2>1 DEF Desired
    <3>2. todo' = todo \ {t} /\ (todo' # {} => want' = want)
      BY <2>1 DEF Treated
    <3> QED
      BY <1>1, <1>2, <2>1, <2>2, <3>1, <3>2 DEF CalmParts, CalmInv, LambdasFollowed
  <2> QED
    BY <1>1, <1>2, <2>6, <2>7, <2>8, <2>9 DEF CalmInv
<1>6. CASE active[cur][t] # {}
  <2> DEFINE s == [at |-> "drop", on |-> cur, type |-> t, route |-> {}, old |-> active[cur][t]]
  <2>1. s \in Steps
    BY <1>2, <1>3 DEF Steps, RoutingTypeOK, Routes
  <2>2. Enter(Worker, s) /\ UNCHANGED workerVars
    BY <1>6 DEF DeactivateRoute
  <2>3. s.at = "drop" /\ s.on = cur /\ s.type = t /\ s.route = {} /\ s.old = active[cur][t] /\ s # Idle
    BY <2>1 DEF Steps, Idle
  <2> HIDE DEF s
  <2>4. act'[Worker] = s /\ \A b \in Actors : b # Worker => act'[b] = Idle
    BY <1>2, <1>3, <2>1, <2>2, EnterTyped
  <2>5. t \notin broken => Progress(act'[Worker], active'[cur][t], venue'[cur][t])
    BY <1>1, <1>2, <1>4, <2>3, <2>4 DEF Progress
  <2>6. OneAtWork'
    BY <1>1, <1>2, <2>2, <2>3, <2>4 DEF CalmParts, CalmInv, OneAtWork, Starting
  <2>7. VenueFollows'
    BY <1>1, <1>2, <1>3, <1>4, <2>3, <2>4, <2>5 DEF VenueFollows, Untreated, Treating
  <2>8. TableFollows'
    <3>1. \A u \in Types : Bound(u)' => Treating(Worker, u)' \/ table'[u] = active'[cur][u]
      BY <1>1, <1>2, <1>4, <2>2, <2>3, <2>4 DEF Treating, Bound
    <3> QED
      BY <1>1, <1>2, <2>2, <3>1 DEF CalmParts, CalmInv, TableFollows, Covers
  <2>9. LambdasFollowed'
    BY <1>1, <2>2, <2>3, <2>4, LambdasUntouched DEF CalmParts, CalmInv
  <2> QED
    BY <1>1, <1>2, <2>6, <2>7, <2>8, <2>9 DEF CalmInv
<1> QED
  BY <1>5, <1>6

LEMMA CalmWorkerStep ==
    ASSUME CalmParts, WorkerStep
    PROVE  CalmInv'
<1>1. /\ Subscribing(Worker) /\ UNCHANGED <<lambdaVars, workerVars, providerVars, startVars>>
      /\ Worker \in Actors
  BY DEF WorkerStep, Actors
<1>2. /\ VenueFollows' /\ UNCHANGED <<active, broken>>
      /\ act[Worker] # Idle /\ act'[Worker] # Idle /\ act'[Worker].on = act[Worker].on
      /\ act'[Worker].type = act[Worker].type /\ act'[Worker].route = act[Worker].route
  BY <1>1, SubscribingCalm
<1>3. \A g \in Starts : ~Starting(g) /\ spc[g] # "reapply"
  BY <1>2, WorkerIsAlone DEF CalmParts, CalmInv, OneAtWork, Starting
<1>4. UNCHANGED overtaken
  BY <1>1, ActivationsLeaveHistory
<1>5. OneAtWork'
  BY <1>1, <1>2, <1>3, <1>4 DEF CalmParts, CalmInv, OneAtWork, Starting
<1>6. TableFollows'
  BY <1>1, <1>2 DEF CalmParts, CalmInv, TableFollows, Covers, Bound, AnyStarting, Starting, Treating
<1>7. LambdasFollowed'
  <2>1. act[Worker].route = want[act[Worker].type] /\ LambdasFollowed
    BY <1>2 DEF CalmParts, CalmInv, LambdasFollowed
  <2> QED
    BY <1>1, <1>2, <2>1, LambdasUntouched
<1> QED
  BY <1>1, <1>2, <1>3, <1>5, <1>6, <1>7 DEF CalmInv

LEMMA CalmRouted ==
    ASSUME CalmParts, Routed
    PROVE  CalmInv'
<1> DEFINE s == act[Worker]
<1>1. /\ Returns(Worker) /\ Enter(Worker, Idle) /\ Treated(s.type)
      /\ UNCHANGED <<lambdaVars, providerVars, startVars>> /\ Worker \in Actors
  BY DEF Routed, Returns, Actors
<1>2. /\ Alone(Worker) /\ ~Adrift(Worker)
      /\ VenueFollows'
      /\ broken \subseteq broken' /\ (CallFails(Worker) => s.type \in broken')
      /\ s.type \notin broken' => active'[cur][s.type] = s.route
      /\ \A u \in Types : u # s.type => active'[cur][u] = active[cur][u]
      /\ \A b \in Actors : act'[b] = Idle
  BY <1>1, ReturnCalm
<1>3. cur # 0 /\ status # "absent" /\ table \in [Types -> SUBSET Symbols] /\ ~AnyStarting
  BY <1>2, WorkerIsAlone DEF Alone, Starts, CalmParts, CalmInv, OneAtWork, Structure, RoutingTypeOK, Routes
<1>4. /\ s.type \in Types /\ s.type \in todo /\ s.route = want[s.type]
      /\ s.type \notin broken' => table'[s.type] = s.route
      /\ \A u \in Types : u # s.type => table'[u] = table[u] /\ (u \in astray' <=> u \in astray)
  <2>1. s.type \in Types /\ s.type \in todo /\ s.route = want[s.type]
    BY <1>2 DEF CalmParts, CalmInv, OneAtWork, LambdasFollowed, Alone, Steps
  <2>2. CASE CallFails(Worker) /\ UNCHANGED <<table, astray>>
    BY <1>2, <2>1, <2>2
  <2>3. CASE Follow(s.type, s.route)
    BY <1>3, <2>1, <2>3 DEF Follow
  <2> QED
    BY <1>2, <2>1, <2>2, <2>3 DEF Routed
<1>5. \A g \in Starts : ~Starting(g) /\ spc[g] # "reapply" /\ spc[g] # "create"
  BY <1>4, WorkerIsAlone DEF Starting
<1>6. UNCHANGED overtaken
  BY <1>1, ActivationsLeaveHistory DEF Returns
<1>7. OneAtWork'
  BY <1>1, <1>2, <1>5, <1>6 DEF CalmParts, CalmInv, OneAtWork, Starting
<1>8. \A u \in Types : Bound(u)' => table'[u] = active'[cur][u]
  <2> SUFFICES ASSUME NEW u \in Types, Bound(u)' PROVE table'[u] = active'[cur][u]
    OBVIOUS
  <2>1. CASE u = s.type
    BY <1>2, <1>4, <2>1 DEF Bound
  <2>2. CASE u # s.type
    <3>1. Bound(u) /\ ~Treating(Worker, u)
      BY <1>2, <1>4, <2>2 DEF Bound, Treating
    <3> QED
      BY <1>2, <1>3, <1>4, <2>2, <3>1 DEF CalmParts, CalmInv, TableFollows
  <2> QED
    BY <2>1, <2>2
<1>9. TableFollows'
  BY <1>1, <1>3, <1>5, <1>8 DEF TableFollows
<1>10. LambdasFollowed'
  <2>1. Desired' = Desired
    BY <1>1 DEF Desired
  <2>2. todo' = todo \ {s.type} /\ (todo' # {} => want' = want)
    BY <1>1 DEF Treated
  <2>3. ASSUME ~signal, NEW u \in Types, u \in todo'
        PROVE  want'[u] = Desired[u]
    BY <2>2, <2>3 DEF CalmParts, CalmInv, LambdasFollowed
  <2>4. ASSUME ~signal, NEW u \in Types, u \notin todo'
        PROVE  u \in astray' \union broken' \/ table'[u] = Desired[u]
    <3>1. CASE u = s.type
      BY <1>4, <2>4, <3>1 DEF CalmParts, CalmInv, LambdasFollowed
    <3>2. CASE u # s.type
      BY <1>2, <1>4, <2>2, <2>4, <3>2 DEF CalmParts, CalmInv, LambdasFollowed
    <3> QED
      BY <3>1, <3>2
  <2> QED
    BY <1>1, <1>2, <2>1, <2>3, <2>4 DEF LambdasFollowed
<1> QED
  BY <1>1, <1>2, <1>5, <1>7, <1>9, <1>10 DEF CalmInv

LEMMA CalmCreate ==
    ASSUME CalmParts, Create
    PROVE  CalmInv'
<1>1. /\ status = "absent" /\ status' = "pending" /\ cached' = NoRoutes
      /\ UNCHANGED <<cur, cancelled, lambdaVars, workerVars, startVars, subVars, history>>
  BY DEF Create
<1>2. table = NoRoutes /\ cur = 0
  BY <1>1 DEF CalmParts, CalmInv, TableFollows, Structure, RoutingTypeOK
<1>3. ~overtaken => \A g \in Starts : spc[g] # "create"
  BY <1>1 DEF CalmParts, Structure, StartInv
<1>4. OneAtWork'
  BY <1>1 DEF CalmParts, CalmInv, OneAtWork, Starting
<1>5. VenueFollows'
  BY <1>1 DEF CalmParts, CalmInv, VenueFollows, Untreated, Treating
<1>6. TableFollows'
  BY <1>1, <1>2, <1>3, <1>4 DEF TableFollows, Covers, NoRoutes, OneAtWork
<1>7. LambdasFollowed'
  BY <1>1, LambdasUntouched DEF CalmParts, CalmInv, LambdasFollowed
<1>8. \A g \in Starts : spc'[g] = "reapply" => Reapplied(g)'
  BY <1>1 DEF CalmParts, CalmInv, Reapplied, Covers, Bound, Treating
<1> QED
  BY <1>4, <1>5, <1>6, <1>7, <1>8 DEF CalmInv

\* Without an instance nothing is in an activation.
LEMMA NothingRuns ==
    ASSUME CalmParts, cur = 0
    PROVE  /\ \A b \in Actors : act[b] = Idle
           /\ \A g \in Starts : spc[g] # "reapply"
<1>1. \A g \in Starts : spc[g] # "reapply"
  BY DEF CalmParts, CalmInv, OneAtWork, Starts
<1>2. \A g \in Starts : act[g] = Idle
  BY <1>1 DEF CalmParts, Structure, InstanceInv
<1>3. act[Worker] = Idle
  BY DEF CalmParts, CalmInv, OneAtWork
<1> QED
  BY <1>1, <1>2, <1>3 DEF Actors, Worker

LEMMA CalmPrepare ==
    ASSUME CalmParts, Prepare, calm'
    PROVE  CalmInv'
<1>1. starts \in Nat /\ cur = 0 /\ starts' = starts + 1 /\ starts' \in Starts
      /\ status \notin {"absent", "running", "starting"} /\ todo = {}
  <2>1. todo = {}
    BY DEF Prepare, RegistrarBusy
  <2> QED
    BY <2>1 DEF Prepare, Startable, CalmParts, Structure, RoutingTypeOK, Starts
<1>2. /\ spc'[starts'] = "create" /\ \A g \in Starts : g # starts' => spc'[g] = spc[g]
      /\ kept'[starts'] = cached /\ \A g \in Starts : g # starts' => kept'[g] = kept[g]
      /\ status' = "starting"
      /\ UNCHANGED <<left, cur, cached, cancelled, lambdaVars, workerVars, subVars, faults, broken, overtaken>>
  BY <1>1 DEF Prepare, CalmParts, Structure, RoutingTypeOK
<1>3. /\ \A b \in Actors : act[b] = Idle
      /\ \A g \in Starts : spc[g] # "reapply"
  BY <1>1, NothingRuns
<1>4. ~overtaken /\ Worker \in Actors
  BY DEF CalmParts, CalmInv, OneAtWork, Actors
<1>5. \A g \in Starts : spc[g] # "create"
  BY <1>1, <1>4 DEF CalmParts, Structure, StartInv
<1>6. OneAtWork'
  BY <1>1, <1>2, <1>3, <1>4, <1>5 DEF OneAtWork, Starting
<1>7. VenueFollows'
  BY <1>1, <1>2, <1>3 DEF VenueFollows
<1>8. Covers(cached)
  BY <1>1 DEF CalmParts, CalmInv, TableFollows
<1>9. TableFollows'
  BY <1>1, <1>2, <1>5, <1>8 DEF TableFollows, Covers, Bound
<1>10. \A g \in Starts : spc'[g] # "reapply"
  BY <1>2, <1>3
<1>11. LambdasFollowed'
  BY <1>2, LambdasUntouched DEF CalmParts, CalmInv, LambdasFollowed
<1> QED
  BY <1>6, <1>7, <1>9, <1>10, <1>11 DEF CalmInv

\* A stop that overlaps nothing finds the worker idle and no start under way.
LEMMA Undisturbed ==
    ASSUME CalmParts, ~Disturbed
    PROVE  /\ \A b \in Actors : act[b] = Idle
           /\ \A g \in Starts : spc[g] # "reapply" /\ spc[g] # "create"
           /\ ~AnyStarting /\ todo = {}
<1>1. \A g \in Starts : spc[g] # "reapply" /\ spc[g] # "create"
  BY DEF Disturbed, AnyStarting, Starting
<1>2. \A g \in Starts : act[g] = Idle
  BY <1>1 DEF CalmParts, Structure, InstanceInv
<1>3. act[Worker] = Idle /\ todo = {} /\ ~AnyStarting
  BY DEF CalmParts, CalmInv, OneAtWork, Disturbed, RegistrarBusy
<1> QED
  BY <1>1, <1>2, <1>3 DEF Actors, Worker

LEMMA CalmStop ==
    ASSUME CalmParts, Stop, calm'
    PROVE  CalmInv'
<1>1. /\ cur' = 0 /\ status' = "stopped" /\ cached' = active[cur] /\ status = "running"
      /\ UNCHANGED <<lambdaVars, workerVars, startVars, act, faults, broken, overtaken>>
  BY DEF Stop, Kept, NoInstance
<1>2. cur # 0 /\ ~Disturbed
  BY DEF Stop, CalmParts, Structure, RoutingTypeOK
<1>3. /\ \A b \in Actors : act[b] = Idle
      /\ \A g \in Starts : spc[g] # "reapply" /\ spc[g] # "create"
      /\ ~AnyStarting /\ todo = {}
  BY <1>2, Undisturbed
<1>4. \A u \in Types : Bound(u) => table[u] = active[cur][u]
  <2>1. Worker \in Actors
    BY DEF Actors
  <2> QED
    BY <1>2, <1>3, <2>1 DEF CalmParts, CalmInv, TableFollows, Treating
<1>5. ~overtaken /\ Worker \in Actors
  BY DEF CalmParts, CalmInv, OneAtWork, Actors
<1>6. OneAtWork'
  BY <1>1, <1>3, <1>5 DEF OneAtWork, Starting
<1>7. VenueFollows'
  BY <1>1, <1>3 DEF VenueFollows
<1>8. TableFollows'
  BY <1>1, <1>3, <1>4 DEF TableFollows, Covers, Bound
<1>9. LambdasFollowed'
  BY <1>1, LambdasUntouched DEF CalmParts, CalmInv, LambdasFollowed
<1> QED
  BY <1>1, <1>3, <1>6, <1>7, <1>8, <1>9 DEF CalmInv

LEMMA CalmDelete ==
    ASSUME CalmParts, Delete, calm'
    PROVE  CalmInv'
<1>1. /\ cur' = 0 /\ status' = "absent" /\ cached' = NoRoutes /\ ~Disturbed /\ table = NoRoutes
      /\ overtaken' = (overtaken \/ status = "starting")
      /\ astray' = {t \in astray : Desired[t] # {}}
      /\ UNCHANGED <<lambdaVars, table, want, todo, startVars, act, faults, broken>>
  BY DEF Delete, NoInstance
<1>2. /\ \A b \in Actors : act[b] = Idle
      /\ \A g \in Starts : spc[g] # "reapply" /\ spc[g] # "create"
      /\ ~AnyStarting /\ todo = {}
  BY <1>1, Undisturbed
<1>3. status # "starting"
  BY <1>2 DEF CalmParts, Structure, StartInv, StartIsUnderWay
<1>4. ~overtaken' /\ Worker \in Actors
  BY <1>1, <1>3 DEF CalmParts, CalmInv, OneAtWork, Actors
<1>5. OneAtWork'
  BY <1>1, <1>2, <1>4 DEF OneAtWork, Starting
<1>6. VenueFollows'
  BY <1>1, <1>2 DEF VenueFollows
<1>7. TableFollows'
  BY <1>1, <1>2 DEF TableFollows, Covers, NoRoutes
<1>8. LambdasFollowed'
  <2>1. Desired' = Desired /\ \A t \in Types : table[t] = {}
    BY <1>1 DEF Desired, NoRoutes
  <2> QED
    BY <1>1, <1>2, <1>4, <2>1 DEF CalmParts, CalmInv, LambdasFollowed
<1> QED
  BY <1>1, <1>2, <1>5, <1>6, <1>7, <1>8 DEF CalmInv

\* A start that fails leaves the provider without an instance, and its routes kept.
LEMMA CalmMakeFails ==
    ASSUME CalmParts, NEW g \in Starts, MakeFails(g)
    PROVE  CalmInv'
<1>1. /\ spc[g] = "create"
      /\ UNCHANGED <<starts, left, cached, cancelled, lambdaVars, workerVars, subVars>>
      /\ UNCHANGED <<broken, calm, overtaken>>
      /\ ~overtaken
  BY DEF MakeFails, Fault, CalmParts, CalmInv, OneAtWork
<1>2. status = "starting" /\ cur = 0
  BY <1>1 DEF CalmParts, Structure, StartInv
<1>3. /\ spc'[g] = "over" /\ (\A h \in Starts : h # g => spc'[h] = spc[h] /\ kept'[h] = kept[h])
      /\ status' = "failed" /\ cur' = 0
  BY <1>2 DEF MakeFails, Forget, SGoto, StartFailed, NoInstance, CalmParts, Structure, RoutingTypeOK
<1>4. /\ \A b \in Actors : act[b] = Idle
      /\ \A h \in Starts : spc[h] # "reapply"
  BY <1>2, NothingRuns
<1>5. todo = {} /\ \A h \in Starts : h # g => spc[h] # "create"
  BY <1>1 DEF CalmParts, CalmInv, OneAtWork, Starting
<1>6. Worker \in Actors
  BY DEF Actors
<1>7. OneAtWork'
  BY <1>1, <1>3, <1>4, <1>5, <1>6 DEF OneAtWork, Starting
<1>8. VenueFollows'
  BY <1>1, <1>3, <1>4 DEF VenueFollows
<1>9. TableFollows'
  BY <1>1, <1>2, <1>3, <1>5 DEF CalmParts, CalmInv, TableFollows, Covers, Bound
<1>10. LambdasFollowed'
  BY <1>1, LambdasUntouched DEF CalmParts, CalmInv, LambdasFollowed
<1> QED
  BY <1>3, <1>4, <1>7, <1>8, <1>9, <1>10 DEF CalmInv

LEMMA CalmRecordStart ==
    ASSUME CalmParts, NEW g \in Starts, RecordStart(g)
    PROVE  CalmInv'
<1>1. /\ spc[g] = "create" /\ UNCHANGED <<starts, cached, lambdaVars, workerVars, subVars, history>>
      /\ ~overtaken /\ g # 0
  BY DEF RecordStart, CalmParts, CalmInv, OneAtWork, Starts
<1>2. status = "starting" /\ cur = 0
  BY <1>1 DEF CalmParts, Structure, StartInv
<1>3. /\ spc'[g] = "reapply" /\ (\A h \in Starts : h # g => spc'[h] = spc[h])
      /\ status' = "running" /\ cur' = g
      /\ left'[g] = {t \in Types : kept[g][t] # {}}
      /\ UNCHANGED <<cancelled, kept>>
  BY <1>2 DEF RecordStart, SGoto, CalmParts, Structure, RoutingTypeOK
<1>4. /\ \A b \in Actors : act[b] = Idle
      /\ \A h \in Starts : spc[h] # "reapply"
  BY <1>2, NothingRuns
<1>5. todo = {} /\ g = starts /\ \A h \in Starts : h # g => spc[h] # "create"
  BY <1>1 DEF CalmParts, CalmInv, OneAtWork, Starting
<1>6. active[g] = NoRoutes /\ venue[g] = NoRoutes
  BY <1>1 DEF CalmParts, Structure, InstanceInv
<1>7. Covers(kept[g])
  BY <1>1, <1>2 DEF CalmParts, CalmInv, TableFollows
<1>8. Worker \in Actors /\ Starts \subseteq Actors
  BY DEF Actors
<1>9. OneAtWork'
  BY <1>1, <1>3, <1>4, <1>5, <1>8 DEF OneAtWork, Starting
<1>10. VenueFollows'
  BY <1>1, <1>3, <1>4, <1>6 DEF VenueFollows
<1>11. AnyStarting'
  BY <1>3 DEF AnyStarting, Starting
<1>12. TableFollows'
  BY <1>1, <1>3, <1>4, <1>5, <1>11 DEF TableFollows
<1>13. Reapplied(g)'
  <2>1. Covers(kept[g])' /\ act'[g] = Idle
    BY <1>1, <1>3, <1>4, <1>7, <1>8 DEF Covers, Bound
  <2>2. \A t \in Types \ broken' : t \in left'[g] \/ active'[g][t] = kept'[g][t]
    BY <1>1, <1>3, <1>6 DEF NoRoutes
  <2> QED
    BY <2>1, <2>2 DEF Reapplied
<1>14. \A h \in Starts : spc'[h] = "reapply" => Reapplied(h)'
  BY <1>3, <1>4, <1>13
<1>15. LambdasFollowed'
  BY <1>1, LambdasUntouched DEF CalmParts, CalmInv, LambdasFollowed
<1> QED
  BY <1>9, <1>10, <1>12, <1>14, <1>15 DEF CalmInv

\* What the start of the provider's instance finds, and who else is at work.
LEMMA ReapplyCalm ==
    ASSUME CalmParts, NEW g \in Starts, spc[g] = "reapply"
    PROVE  /\ g = cur /\ g # 0 /\ todo = {} /\ Reapplied(g) /\ AnyStarting
           /\ act[Worker] = Idle
           /\ \A h \in Starts : h # g => ~Starting(h) /\ act[h] = Idle
           /\ \A b \in Actors : b # g => act[b] = Idle
<1>1. g = cur /\ g = starts /\ todo = {} /\ Reapplied(g) /\ AnyStarting /\ g # 0
  BY DEF CalmParts, CalmInv, OneAtWork, Starting, AnyStarting, Starts
<1>2. act[Worker] = Idle
  BY <1>1 DEF CalmParts, CalmInv, OneAtWork
<1>3. \A h \in Starts : h # g => ~Starting(h)
  BY <1>1 DEF CalmParts, CalmInv, OneAtWork
<1>4. \A h \in Starts : h # g => act[h] = Idle
  BY <1>3 DEF CalmParts, Structure, InstanceInv, Starting
<1> QED
  BY <1>1, <1>2, <1>3, <1>4 DEF Actors, Worker

LEMMA CalmReapply ==
    ASSUME CalmParts, NEW g \in Starts, Reapply(g)
    PROVE  CalmInv'
<1>1. PICK t \in left[g] : left' = [left EXCEPT ![g] = @ \ {t}] /\ Activate(g, g, t, kept[g][t])
  BY DEF Reapply
<1>2. /\ spc[g] = "reapply" /\ act[g] = Idle
      /\ UNCHANGED <<spc, starts, kept, active, venue, lambdaVars, workerVars, providerVars, history>>
  BY DEF Reapply
<1>3. RoutingTypeOK /\ t \in Types /\ kept[g][t] \in SUBSET Symbols /\ g \in Actors
      /\ left'[g] = left[g] \ {t} /\ Worker \in Actors /\ Worker # g /\ Starts \subseteq Actors
  BY <1>1, ActorsTyped DEF CalmParts, Structure, RoutingTypeOK, Routes, Actors
<1>4. /\ g = cur /\ g # 0 /\ todo = {} /\ Reapplied(g) /\ AnyStarting
      /\ act[Worker] = Idle
      /\ \A h \in Starts : h # g => ~Starting(h) /\ act[h] = Idle
      /\ \A b \in Actors : b # g => act[b] = Idle
  BY <1>2, ReapplyCalm
<1>5. /\ act'[g] \in Steps /\ act'[g].on = g /\ act'[g].type = t
      /\ act'[g].route = kept[g][t] /\ act'[g].old = active[g][t]
      /\ \/ act'[g].at = "known" /\ active[g][t] = kept[g][t]
         \/ act'[g].at = "add" /\ active[g][t] \subseteq kept[g][t]
         \/ act'[g].at = "remove"
      /\ \A b \in Actors : b # g => act'[b] = act[b]
  BY <1>1, <1>3, ActivateEffect
<1>6. act'[g] # Idle
  BY <1>5 DEF Steps, Idle
<1>7. \A u \in Types : u \notin broken => active[cur][u] = venue[cur][u]
  BY <1>2, <1>4, AllUntreated
<1>8. t \notin broken => Progress(act'[g], active[g][t], venue[g][t])
  BY <1>3, <1>4, <1>5, <1>7 DEF Progress
<1>9. OneAtWork'
  BY <1>2, <1>3, <1>4, <1>5 DEF CalmParts, CalmInv, OneAtWork, Starting
<1>10. VenueFollows'
  BY <1>2, <1>4, <1>5, <1>7, <1>8 DEF VenueFollows
<1>11. TableFollows'
  BY <1>2, <1>4 DEF CalmParts, CalmInv, TableFollows, Covers, Bound, AnyStarting, Starting
<1>12. Reapplied(g)'
  <2>1. Covers(kept[g])' /\ act'[g].route = kept'[g][act'[g].type] /\ act'[g].type \notin left'[g]
    BY <1>2, <1>3, <1>4, <1>5 DEF Reapplied, Covers, Bound
  <2>2. \A u \in Types \ broken' :
           u \in left'[g] \/ (act'[g] # Idle /\ act'[g].type = u) \/ active'[g][u] = kept'[g][u]
    BY <1>2, <1>3, <1>4, <1>5, <1>6 DEF Reapplied, Treating
  <2> QED
    BY <2>1, <2>2 DEF Reapplied, Treating
<1>13. \A h \in Starts : spc'[h] = "reapply" => Reapplied(h)'
  BY <1>2, <1>4, <1>12 DEF Starting
<1>14. LambdasFollowed'
  BY <1>2, <1>3, <1>4, <1>5, LambdasUntouched DEF CalmParts, CalmInv
<1> QED
  BY <1>9, <1>10, <1>11, <1>13, <1>14 DEF CalmInv

LEMMA CalmStartStep ==
    ASSUME CalmParts, NEW g \in Starts, StartStep(g)
    PROVE  CalmInv'
<1>1. UNCHANGED <<lambdaVars, workerVars, providerVars, startVars>> /\ g \in Actors /\ Worker \in Actors
      /\ Worker # g /\ RoutingTypeOK
  BY ActorsTyped DEF StartStep, Actors, CalmParts, Structure
<1>2. act[g] # Idle /\ UNCHANGED overtaken
  BY <1>1, RemoveEffect, AddEffect, ReturnTyped, ActorsTyped DEF StartStep, Subscribing, Returns
<1>3. spc[g] = "reapply" /\ act[g].on = g
  BY <1>2 DEF CalmParts, Structure, InstanceInv
<1>4. /\ g = cur /\ g # 0 /\ todo = {} /\ Reapplied(g) /\ AnyStarting
      /\ act[Worker] = Idle
      /\ \A h \in Starts : h # g => ~Starting(h) /\ act[h] = Idle
      /\ \A b \in Actors : b # g => act[b] = Idle
  BY <1>3, ReapplyCalm
<1>5. broken \subseteq broken'
  BY <1>1, RemoveEffect, AddEffect, ReturnTyped DEF StartStep, Subscribing, Returns
<1>8. TableFollows'
  BY <1>1, <1>4, <1>5 DEF CalmParts, CalmInv, TableFollows, Covers, Bound, AnyStarting, Starting
<1>9. Covers(kept[g])'
  BY <1>1, <1>4, <1>5 DEF Reapplied, Covers, Bound
<1>6. CASE Subscribing(g)
  <2>1. /\ VenueFollows' /\ UNCHANGED <<active, broken>> /\ act'[g] # Idle
        /\ act'[g].type = act[g].type /\ act'[g].route = act[g].route
        /\ \A b \in Actors : b # g => act'[b] = act[b]
    BY <1>1, <1>6, SubscribingCalm
  <2>2. OneAtWork'
    BY <1>1, <1>2, <1>4, <2>1 DEF CalmParts, CalmInv, OneAtWork, Starting
  <2>3. Reapplied(g)'
    BY <1>1, <1>2, <1>4, <1>9, <2>1 DEF Reapplied, Treating
  <2>4. \A h \in Starts : spc'[h] = "reapply" => Reapplied(h)'
    BY <1>1, <1>4, <2>3 DEF Starting
  <2>5. LambdasFollowed'
    BY <1>1, <1>4, <1>5, <2>1, LambdasUntouched DEF CalmParts, CalmInv
  <2> QED
    BY <1>8, <2>1, <2>2, <2>4, <2>5 DEF CalmInv
<1>7. CASE Returns(g) /\ Enter(g, Idle)
  <2>1. /\ VenueFollows'
        /\ act[g].type \notin broken' => active'[cur][act[g].type] = act[g].route
        /\ \A u \in Types : u # act[g].type => active'[cur][u] = active[cur][u]
        /\ \A b \in Actors : act'[b] = Idle
    BY <1>1, <1>7, ReturnCalm
  <2>2. OneAtWork'
    BY <1>1, <1>2, <1>4, <2>1 DEF CalmParts, CalmInv, OneAtWork, Starting
  <2>3. Reapplied(g)'
    <3>1. \A u \in Types \ broken' : u \in left'[g] \/ active'[g][u] = kept'[g][u]
      BY <1>1, <1>2, <1>4, <1>5, <2>1 DEF Reapplied, Treating
    <3> QED
      BY <1>1, <1>9, <2>1, <3>1 DEF Reapplied
  <2>4. \A h \in Starts : spc'[h] = "reapply" => Reapplied(h)'
    BY <1>1, <1>4, <2>3 DEF Starting
  <2>5. LambdasFollowed'
    BY <1>1, <1>4, <1>5, <2>1, LambdasUntouched DEF CalmParts, CalmInv
  <2> QED
    BY <1>8, <2>1, <2>2, <2>4, <2>5 DEF CalmInv
<1> QED
  BY <1>6, <1>7 DEF StartStep, Returns

\* When the routes kept are active again the table is covered by them.
LEMMA CalmClear ==
    ASSUME CalmParts, NEW g \in Starts, Clear(g)
    PROVE  CalmInv'
<1>1. /\ spc[g] = "reapply" /\ act[g] = Idle /\ left[g] = {}
      /\ spc'[g] = "done" /\ (\A h \in Starts : h # g => spc'[h] = spc[h] /\ kept'[h] = kept[h])
      /\ UNCHANGED <<starts, left, status, cur, cancelled, lambdaVars, workerVars, subVars, history>>
  BY DEF Clear, SGoto, CalmParts, Structure, RoutingTypeOK
<1>2. /\ g = cur /\ g # 0 /\ todo = {} /\ Reapplied(g) /\ AnyStarting
      /\ act[Worker] = Idle
      /\ \A h \in Starts : h # g => ~Starting(h) /\ act[h] = Idle
      /\ \A b \in Actors : b # g => act[b] = Idle
  BY <1>1, ReapplyCalm
<1>3. \A u \in Types : Bound(u) => table[u] = active[cur][u]
  BY <1>1, <1>2 DEF Reapplied, Covers, Bound, Treating
<1>4. OneAtWork'
  BY <1>1, <1>2 DEF CalmParts, CalmInv, OneAtWork, Starting
<1>5. VenueFollows'
  BY <1>1 DEF CalmParts, CalmInv, VenueFollows, Untreated, Treating
<1>6. status # "absent"
  BY <1>2 DEF CalmParts, Structure, RoutingTypeOK
<1>7. TableFollows'
  BY <1>1, <1>2, <1>3, <1>6 DEF TableFollows, Bound, Starting
<1>8. \A h \in Starts : spc'[h] # "reapply"
  BY <1>1, <1>2 DEF Starting
<1>9. LambdasFollowed'
  BY <1>1, LambdasUntouched DEF CalmParts, CalmInv, LambdasFollowed
<1> QED
  BY <1>4, <1>5, <1>7, <1>8, <1>9 DEF CalmInv

LEMMA CalmStays ==
    ASSUME RoutingTypeOK, [Next]_vars, calm'
    PROVE  calm
<1>1. \A a \in Actors : Returns(a) => calm
  BY DEF Returns, Known, Record, Drop, CallFails, Adrift, NoFault, Fault
<1>2. \A a \in Actors : Subscribing(a) => calm
  BY DEF Subscribing, Remove, Add, NoFault
<1>3. Worker \in Actors /\ Starts \subseteq Actors
  BY DEF Actors
<1>4. CASE Registrar
  BY <1>1, <1>2, <1>3, <1>4 DEF Registrar, Wake, WorkerStep, Routed, Returns, Skip, ActivateRoute, DeactivateRoute
<1>5. CASE \E g \in Starts : Start(g)
  BY <1>1, <1>2, <1>3, <1>5 DEF Start, MakeFails, Fault, RecordStart, Reapply, StartStep, Returns, Clear
<1>6. CASE Create \/ Prepare \/ Stop \/ Delete
  BY <1>6 DEF Create, Prepare, Stop, Delete
<1>7. CASE \E l \in Lambdas : Unregister(l) \/ \E routes \in Asks[l] : Register(l, routes)
  BY <1>7 DEF Unregister, Register
<1> QED
  BY <1>4, <1>5, <1>6, <1>7 DEF Next

LEMMA CalmStep ==
    ASSUME CalmParts, [Next]_vars, calm'
    PROVE  CalmInv'
<1>1. CASE \E l \in Lambdas : Unregister(l) \/ \E routes \in Asks[l] : Register(l, routes)
  <2>1. UNCHANGED <<workerVars, providerVars, startVars, subVars, history>> /\ signal' = TRUE
    BY <1>1, LambdasTyped DEF CalmParts
  <2> QED
    BY <2>1, CalmUntouched DEF CalmParts
<1>2. CASE Registrar
  BY <1>2, CalmWake, CalmWorkerStep, CalmRouted, CalmSkip, CalmActivate, CalmDeactivate DEF Registrar
<1>3. CASE Create \/ Prepare \/ Stop \/ Delete
  BY <1>3, CalmCreate, CalmPrepare, CalmStop, CalmDelete
<1>4. ASSUME NEW g \in Starts, Start(g) PROVE CalmInv'
  BY <1>4, CalmMakeFails, CalmRecordStart, CalmReapply, CalmStartStep, CalmClear DEF Start
<1>5. CASE UNCHANGED vars
  BY <1>5, CalmUntouched DEF CalmParts
<1> QED
  BY <1>1, <1>2, <1>3, <1>4, <1>5 DEF Next

LEMMA RouteInit == Init => RouteInv
<1> SUFFICES ASSUME Init PROVE RouteInv
  OBVIOUS
<1>1. Worker \in Actors /\ Starts \subseteq Actors
  BY DEF Actors
<1>2. /\ table = NoRoutes /\ todo = {} /\ cur = 0 /\ ~overtaken
      /\ (\A g \in Starts : spc[g] = "none") /\ \A a \in Actors : act[a] = Idle
  BY DEF Init
<1>3. cached \in Routes /\ astray = {t \in Types : cached[t] # {}} /\ reg = [l \in Lambdas |-> NoRoutes]
  BY StructureInit DEF Init, RoutingTypeOK
<1>4. OneAtWork /\ VenueFollows
  BY <1>1, <1>2 DEF OneAtWork, VenueFollows, Starting
<1>5. TableFollows
  <2>1. \A t \in Types : Bound(t) => table[t] = cached[t]
    BY <1>2, <1>3 DEF Bound, NoRoutes
  <2> QED
    BY <1>2, <2>1 DEF TableFollows, Covers
<1>6. LambdasFollowed
  <2>1. \A t \in Types : table[t] = {} /\ Desired[t] = {}
    BY <1>2, <1>3 DEF Desired, NoRoutes
  <2> QED
    BY <1>1, <1>2, <2>1 DEF LambdasFollowed
<1>7. CalmInv
  BY <1>2, <1>4, <1>5, <1>6 DEF CalmInv
<1> QED
  BY <1>7, StartInit, StructureInit DEF RouteInv

LEMMA RouteInvariant == Spec => []RouteInv
<1>1. RouteInv /\ [Next]_vars => RouteInv'
  <2> SUFFICES ASSUME RouteInv, [Next]_vars PROVE RouteInv'
    OBVIOUS
  <2>1. Structure'
    BY StructureStep DEF RouteInv, Structure
  <2>2. calm' => CalmInv'
    BY CalmStays, CalmStep DEF RouteInv, CalmParts, Structure
  <2> QED
    BY <2>1, <2>2 DEF RouteInv, Structure
<1> QED
  BY <1>1, RouteInit, PTL DEF Spec

\* The lambdas, the registrar, the provider manager and the activations keep to
\* their states: an instance number is one that was started, an activation is on
\* an instance and about the routes of a type.
THEOREM RoutingTypes == Spec => []RoutingTypeOK
<1>1. RouteInv => RoutingTypeOK
  BY DEF RouteInv
<1> QED
  BY <1>1, RouteInvariant, PTL

\* Between changes the running provider streams what the lambdas ask for and the table
\* says so, however often the provider is stopped, updated, removed and started again
\* and whatever starts have failed, as long as none of that has overlapped the registrar's
\* work.  Of the types that `astray` names (what the database kept of the last run, or
\* was given up while no provider ran, and has not been treated since), it streams what
\* is recorded, and what the table has if it has anything; of the types a call to the
\* venue has failed for, nothing is claimed.
THEOREM TableHolds == Spec => []RoutesHold
<1>1. RouteInv => RoutesHold
  <2> SUFFICES ASSUME RouteInv, calm, Quiet, cur # 0, NEW t \in Types \ broken
               PROVE  /\ active[cur][t] = venue[cur][t]
                      /\ table[t] # {} => table[t] = active[cur][t]
                      /\ t \notin astray => table[t] = Desired[t] /\ venue[cur][t] = Desired[t]
    BY DEF RoutesHold
  <2>1. CalmParts /\ ~Disturbed /\ ~signal
    BY DEF RouteInv, CalmParts, Structure, Quiet, Disturbed, RegistrarBusy
  <2>2. (\A b \in Actors : act[b] = Idle) /\ ~AnyStarting /\ todo = {}
    BY <2>1, Undisturbed
  <2>3. active[cur][t] = venue[cur][t]
    BY <2>1, <2>2, AllUntreated
  <2>4. Worker \in Actors
    BY DEF Actors
  <2>5. Bound(t) => table[t] = active[cur][t]
    BY <2>1, <2>2, <2>4 DEF CalmParts, CalmInv, TableFollows, Treating
  <2>6. t \notin astray => table[t] = Desired[t]
    BY <2>1, <2>2 DEF CalmParts, CalmInv, LambdasFollowed
  <2> QED
    BY <2>3, <2>5, <2>6 DEF Bound
<1> QED
  BY <1>1, RouteInvariant, PTL
================================================================================
