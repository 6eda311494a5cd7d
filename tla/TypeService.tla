----------------------------- MODULE TypeService -----------------------------
(***************************************************************************)
(* The type service (services/type-service): requests for the types of an  *)
(* action, by mutable ref or by commit, that the Worker of the last        *)
(* release answers from a shared cache or from GitHub, and the diagnostic  *)
(* records an isolate keeps of them.  One action repository is modelled.   *)
(***************************************************************************)
EXTENDS Release, SequencesExt

CONSTANTS
    Requests,   \* requests in flight at once
    Refs,       \* tags and branches of the action's repository
    Shas,       \* its commits
    Capacity,   \* records an isolate keeps
    RefTTL, ImmutableTTL, \* lifetimes of cached answers, in ticks of the clock
    Bounds      \* bound: requests, ticks and faults of each kind of instance

ASSUME ServiceAssumption ==
    /\ Refs \cap Shas = {}
    /\ None \notin Refs \cup Shas \cup Commits
    /\ Capacity \in Nat \ {0}
    /\ RefTTL \in Nat \ {0} /\ ImmutableTTL \in Nat /\ RefTTL < ImmutableTTL
    /\ Bounds \subseteq [requests : Nat, ticks : Nat, faults : Nat, releasing : BOOLEAN]

VARIABLES
    heads,     \* the commit of every ref at every time up to now
    cache,     \* the shared cache: an answer for some canonical URLs
    request,   \* every request in flight or last answered
    isolate,   \* the bindings of the running isolate
    log,       \* its records, oldest first
    ended,     \* history: the records it ever made, in that order
    left       \* bound: requests and ticks still to come

serviceVars == <<heads, cache, request, isolate, log, ended, left>>
vars == <<releaseVars, serviceVars>>

\* A canonical URL: a ref, or a commit with the ref it was resolved from.
Keys == [at : Refs, note : {None}] \cup [at : Shas, note : Refs \cup {None}]
Now == Len(heads)

Redirect(sha, ref) == [kind |-> "redirect", at |-> sha, note |-> ref]
Module(spelling, sha, note) ==
    [kind |-> "module", spelling |-> spelling, at |-> sha, note |-> note]
Error(code) == [kind |-> "error", code |-> code]

LifetimeImmutable(entry) == ImmutableTTL

\* Redirects live for minutes, modules for a year.
Lifetime(entry) == IF entry.answer.kind = "redirect" THEN RefTTL ELSE ImmutableTTL

Init ==
    /\ ReleaseInit
    /\ heads \in [1 .. 1 -> [Refs -> Shas]]
    /\ cache = [k \in Keys |-> None]
    /\ request = [q \in Requests |-> [stage |-> "idle"]]
    /\ isolate = None
    /\ log = <<>>
    /\ ended = <<>>
    /\ left \in Bounds
    /\ faults = left.faults
    /\ left.releasing \/ worker # None

-----------------------------------------------------------------------------
(* Diagnostics.                                                             *)

EvictOldest(records) ==
    IF Len(records) <= Capacity THEN records ELSE Tail(records)

\* A full log drops its oldest success, be it the newest record, or else its
\* oldest failure.
Evict(records) ==
    LET ok == {i \in DOMAIN records : records[i].status = "ok"}
        dropped == IF ok = {} THEN 1 ELSE Min(ok)
    IN  IF Len(records) <= Capacity THEN records ELSE RemoveAt(records, dropped)

Record(q, status) ==
    LET run == [id |-> request[q].id, status |-> status] IN
    /\ log' = Evict(Append(log, run))
    /\ ended' = Append(ended, run)

-----------------------------------------------------------------------------
(* A request.                                                               *)

\* The canonical URL of a request has its commit in lower case; what the caller
\* wrote is kept beside it.
Receive(q) == \E url \in Keys, spelling \in {"lower", "upper"} :
    /\ isolate # None
    /\ request[q].stage = "idle"
    /\ url.at \in Refs => spelling = "lower"
    /\ left.requests > 0
    /\ left' = [left EXCEPT !.requests = @ - 1]
    /\ request' = [request EXCEPT ![q] =
         [stage |-> "read", id |-> left.requests, url |-> url, spelling |-> spelling]]
    /\ UNCHANGED <<heads, cache, isolate, log, ended>>

\* A method other than GET and HEAD is refused, and recorded as a success; a
\* malformed path, reference or query as a failure.
Refuse(q) == \E status \in {"ok", "error"} :
    /\ request[q].stage = "read"
    /\ request' = [request EXCEPT ![q] = [stage |-> "idle"]]
    /\ Record(q, status)
    /\ UNCHANGED <<heads, cache, isolate, left>>

Answer(q, status, answer, asked, stored) ==
    /\ request' = [request EXCEPT ![q] =
         [stage |-> "answered", url |-> request[q].url, answer |-> answer,
          asked |-> asked, stored |-> stored, given |-> Now]]
    /\ Record(q, status)

\* The cache is read with the canonical URL; a read that fails is a miss.
ReadCache(q) ==
    LET entry == cache[request[q].url] IN
    /\ request[q].stage = "read"
    /\ \/ /\ entry # None
          /\ Answer(q, "ok", entry.answer, entry.asked, entry.stored)
          /\ UNCHANGED faults
       \/ /\ entry # None => faults > 0
          /\ faults' = IF entry # None THEN faults - 1 ELSE faults
          /\ request' = [request EXCEPT ![q].stage = "upstream"]
          /\ UNCHANGED <<log, ended>>
    /\ UNCHANGED <<heads, cache, isolate, left>>

\* GitHubClient.get: without both credentials it does not ask at all; it may find
\* nothing, or be refused, limited, cut off or late.  No failure is cached.
GetFails(q) ==
    LET configured == isolate = Credentials IN
    /\ request[q].stage = "upstream"
    /\ configured => faults > 0
    /\ faults' = IF configured THEN faults - 1 ELSE faults
    /\ \E code \in IF configured THEN {"not_found", "upstream_failure"}
                  ELSE {"configuration_missing"} :
         Answer(q, "error", Error(code), Now, Now)
    /\ UNCHANGED <<heads, cache, isolate, left>>

Retrieved(q, answer) ==
    /\ isolate = Credentials
    /\ request' = [request EXCEPT ![q] =
         [stage |-> "save", id |-> @.id, url |-> @.url, spelling |-> @.spelling,
          answer |-> answer, asked |-> Now]]
    /\ UNCHANGED <<heads, cache, isolate, log, ended, left>>

\* A mutable ref is resolved to the commit it names at this moment.
Resolve(q) ==
    LET ref == request[q].url.at IN
    /\ request[q].stage = "upstream" /\ ref \in Refs
    /\ Retrieved(q, Redirect(heads[Now][ref], ref))

\* The metadata of a commit is read and its types generated, for the commit in
\* lower case and with the ref of the query, if there is one.
Generate(q) ==
    LET url == request[q].url IN
    /\ request[q].stage = "upstream" /\ url.at \in Shas
    /\ Retrieved(q, Module("lower", url.at, url.note))
\* Metadata that is no YAML, has no valid shape or is too large or deep.
GenerateFails(q) ==
    /\ request[q].stage = "upstream" /\ request[q].url.at \in Shas
    /\ faults > 0
    /\ faults' = faults - 1
    /\ Answer(q, "error", Error("metadata_invalid"), Now, Now)
    /\ UNCHANGED <<heads, cache, isolate, left>>

CacheKeyWithoutNote(q) == [request[q].url EXCEPT !.note = None]

\* The answer is stored under the canonical URL, and given though that fails.
CacheKey(q) == request[q].url
Save(q) ==
    LET answer == request[q].answer
        asked == request[q].asked
        entry == [answer |-> answer, asked |-> asked, stored |-> Now]
    IN  /\ request[q].stage = "save"
        /\ \/ cache' = [cache EXCEPT ![CacheKey(q)] = entry] /\ UNCHANGED faults
           \/ UNCHANGED cache /\ faults > 0 /\ faults' = faults - 1
        /\ Answer(q, "ok", answer, asked, Now)
        /\ UNCHANGED <<heads, isolate, left>>

-----------------------------------------------------------------------------
(* What the service does not control.                                       *)

\* The client takes its answer.
Taken(q) ==
    /\ request[q].stage = "answered"
    /\ request' = [request EXCEPT ![q] = [stage |-> "idle"]]
    /\ UNCHANGED <<heads, cache, isolate, log, ended, left>>

\* Time passes: refs move, and what has reached the end of its lifetime leaves
\* the cache.
Tick == \E moved \in [Refs -> Shas] :
    /\ left.ticks > 0
    /\ left' = [left EXCEPT !.ticks = @ - 1]
    /\ heads' = Append(heads, moved)
    /\ cache' = [k \in Keys |->
         IF cache[k] # None /\ Now + 1 - cache[k].stored >= Lifetime(cache[k])
         THEN None ELSE cache[k]]
    /\ UNCHANGED <<request, isolate, log, ended>>

\* An isolate starts with the Worker that is deployed now; it is torn down at
\* any time, with the requests in it and its records.
StartIsolate ==
    /\ worker # None
    /\ isolate = None
    /\ isolate' = worker.bindings
    /\ UNCHANGED <<heads, cache, request, log, ended, left>>
Teardown ==
    /\ isolate # None
    /\ faults > 0
    /\ faults' = faults - 1
    /\ isolate' = None
    /\ request' = [q \in Requests |-> [stage |-> "idle"]]
    /\ log' = <<>>
    /\ ended' = <<>>
    /\ UNCHANGED <<heads, cache, left>>

ServiceNext ==
    \/ /\ \/ \E q \in Requests : Receive(q) \/ Refuse(q) \/ Resolve(q) \/ Generate(q) \/ Taken(q)
          \/ Tick \/ StartIsolate
       /\ UNCHANGED faults
    \/ \E q \in Requests : ReadCache(q) \/ GetFails(q) \/ GenerateFails(q) \/ Save(q)
    \/ Teardown

Next ==
    \/ left.releasing /\ ReleaseNext /\ UNCHANGED serviceVars
    \/ ServiceNext /\ UNCHANGED <<registry, worker, release>>

Spec == Init /\ [][Next]_vars

-----------------------------------------------------------------------------
(* Properties.                                                              *)

Answered == {q \in Requests : request[q].stage = "answered"}

\* The types under one URL are the same for good, as their "immutable" header
\* says: those of the URL's commit, pinned to it in one spelling and annotated
\* with the URL's ref, whichever request, isolate or spelling filled the cache.
TypesMatchTheirUrl ==
    \A q \in Answered :
        request[q].answer.kind = "module" =>
            request[q].answer = Module("lower", request[q].url.at, request[q].url.note)

\* A redirect leads to the commit that its ref named at some time while it was
\* retrieved, and is given no longer than its lifetime after it was stored.  A
\* ref may thus go back when two requests store what they resolved in the other
\* order, but never further.
RedirectsAreFresh ==
    \A q \in Answered :
        LET r == request[q] IN
        r.answer.kind = "redirect" =>
            /\ r.given - r.stored < RefTTL
            /\ \E t \in r.asked .. r.stored : heads[t][r.url.at] = r.answer.at

\* The records of an isolate are its newest failures, up to the capacity, and
\* as many others as there is room for.
NewestFailuresKept ==
    LET failures == {n \in DOMAIN ended : ended[n].status = "error"}
        newest == {n \in failures :
                      Cardinality({m \in failures : m > n}) < Capacity}
    IN  /\ \A n \in newest : ended[n] \in Range(log)
        /\ Len(log) = Min({Capacity, Len(ended)})

=============================================================================
