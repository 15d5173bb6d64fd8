----------------------------- MODULE TomlResolver -----------------------------
(***************************************************************************)
(* toml.Resolver: the cache of one domain's stellar.toml, looked up and    *)
(* filled by several goroutines without a lock from the one to the other,  *)
(* while the anchor publishes other files.                                 *)
(*                                                                         *)
(*   idle -> ask -> done                      a hit                        *)
(*           ask -> fetch -> read -> done     a miss                       *)
(*                                                                         *)
(* Domains do not affect each other.  Time is discrete; it passes while a  *)
(* request is under way, which net.Client bounds (HttpClient!RequestInTime *)
(* and its timeout for the body).  An answer other than 200, a body that   *)
(* is not read to its end and a signing key in the wrong format are        *)
(* failures.                                                               *)
(***************************************************************************)
EXTENDS Naturals, FiniteSets

CONSTANTS Caller,    \* goroutines
          Info,      \* the files that are published; WalletLogin says what parse makes of one
          NoInfo,    \* the answer of a Resolve that failed
          CacheTTL, MaxFetch  \* in ticks

ASSUME ResolverAssumption ==
    /\ NoInfo \notin Info
    /\ CacheTTL \in Nat
    /\ MaxFetch \in Nat

VARIABLES published,  \* the file at the anchor
          gone,       \* ticks since a file was last the published one
          cache,      \* what was cached, and ticks since fetchedAt
          resolve     \* the Resolve call of each goroutine

resolverVars == <<published, gone, cache, resolve>>

\* Bound: what was gone for longer is too old in any case.
MaxGone == CacheTTL + MaxFetch + 1

\* No entry: older than any that counts.
Empty == [info |-> NoInfo, age |-> CacheTTL]

NoCall == [pc |-> "idle", info |-> NoInfo, left |-> 0]

ResolverInit ==
    /\ published \in Info
    /\ gone = [i \in Info |-> IF i = published THEN 0 ELSE MaxGone]
    /\ cache = Empty
    /\ resolve = [c \in Caller |-> NoCall]

Finish(c, info) == resolve' = [resolve EXCEPT ![c] = [NoCall EXCEPT !.pc = "done",
                                                                    !.info = info]]

Ask(c) ==
    /\ resolve[c].pc \in {"idle", "done"}
    /\ resolve' = [resolve EXCEPT ![c] = [NoCall EXCEPT !.pc = "ask"]]
    /\ UNCHANGED <<published, gone, cache>>

\* MUTANT: a hit counts as a fetch.
HitRenews(c) ==
    /\ resolve[c].pc = "ask"
    /\ cache.age < CacheTTL
    /\ Finish(c, cache.info)
    /\ cache' = [cache EXCEPT !.age = 0]
    /\ UNCHANGED <<published, gone>>

Hit(c) ==
    /\ resolve[c].pc = "ask"
    /\ cache.age < CacheTTL
    /\ Finish(c, cache.info)
    /\ UNCHANGED <<published, gone, cache>>

Miss(c) ==
    /\ resolve[c].pc = "ask"
    /\ ~(cache.age < CacheTTL)
    /\ resolve' = [resolve EXCEPT ![c].pc = "fetch", ![c].left = MaxFetch]
    /\ UNCHANGED <<published, gone, cache>>

\* The anchor answers.
ServeFile(c) ==
    /\ resolve[c].pc = "fetch"
    /\ resolve' = [resolve EXCEPT ![c].pc = "read", ![c].info = published]
    /\ UNCHANGED <<published, gone, cache>>

FetchFails(c) ==
    /\ resolve[c].pc \in {"fetch", "read"}
    /\ Finish(c, NoInfo)
    /\ UNCHANGED <<published, gone, cache>>

\* The answer goes into the cache as of now, over a newer one if need be.
Store(c) ==
    /\ resolve[c].pc = "read"
    /\ cache' = [info |-> resolve[c].info, age |-> 0]
    /\ Finish(c, resolve[c].info)
    /\ UNCHANGED <<published, gone>>

-----------------------------------------------------------------------------
Publish ==
    /\ \E i \in Info \ {published} :
         /\ published' = i
         /\ gone' = [gone EXCEPT ![i] = 0]
    /\ UNCHANGED <<cache, resolve>>

Urgent(c) ==
    \/ resolve[c].pc = "ask"
    \/ resolve[c].pc \in {"fetch", "read"} /\ resolve[c].left = 0

Tick ==
    /\ \A c \in Caller : ~Urgent(c)
    /\ gone' = [i \in Info |-> IF i = published \/ gone[i] = MaxGone THEN gone[i]
                               ELSE gone[i] + 1]
    /\ cache' = IF cache.age < CacheTTL THEN [cache EXCEPT !.age = @ + 1] ELSE cache
    /\ resolve' = [c \in Caller |-> IF resolve[c].pc \in {"fetch", "read"}
                                    THEN [resolve[c] EXCEPT !.left = @ - 1]
                                    ELSE resolve[c]]
    /\ UNCHANGED published

Resolves(c) == Hit(c) \/ Miss(c) \/ ServeFile(c) \/ FetchFails(c) \/ Store(c)

ResolverNext ==
    \/ \E c \in Caller : Ask(c) \/ Resolves(c)
    \/ Publish \/ Tick

ResolverSpec == ResolverInit /\ [][ResolverNext]_resolverVars
-----------------------------------------------------------------------------
(* Properties. *)

ResolverTypeOK ==
    /\ published \in Info
    /\ gone \in [Info -> 0..MaxGone]
    /\ cache \in [info: Info \cup {NoInfo}, age: 0..CacheTTL]
    /\ resolve \in [Caller -> [pc: {"idle", "ask", "fetch", "read", "done"},
                               info: Info \cup {NoInfo}, left: 0..MaxFetch]]

\* What a hit returns is of a file that was published within the time that the entry
\* is old and a fetch may take: concurrent misses that answer out of order, each
\* with a fresh timestamp, make an entry older by no more than one fetch
\* (resolver.go:42-86).
StaleAtMost ==
    cache.age < CacheTTL =>
        cache.info \in Info /\ gone[cache.info] <= cache.age + MaxFetch
=============================================================================
