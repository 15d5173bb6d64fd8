----------------------------- MODULE HookRegistry -----------------------------
(***************************************************************************)
(* anchor.HookRegistry and its place in the transfer manager: handlers run *)
(* while the registry's read lock and, but for the hooks of Initiate*, the *)
(* transfer's mutex are held.  A handler may call the manager in turn, so  *)
(* a goroutine is a stack of calls, the innermost first.                   *)
(*                                                                         *)
(*   Notify*, transition   lock -> between -> run -> between .. -> return  *)
(*   Initiate*             between -> run -> between -> return             *)
(*   On                    want -> drain -> store -> return                *)
(*                                                                         *)
(* sync.RWMutex lets no reader in while a writer waits, and neither lock   *)
(* can be taken again by the goroutine that has it.  What the methods do   *)
(* to the transfer is left to TransferManager.  A deposit that is not      *)
(* interactive is a call of transition and one of Initiate.                *)
(***************************************************************************)
EXTENDS Integers, FiniteSets, Sequences, SequencesExt

CONSTANTS Caller, NoCaller,  \* goroutines
          Id,          \* transfers
          Handler,     \* handlers, each registered once at most
          Does,        \* what a handler does when it is told of a transfer
          ChainsLast   \* whether the host registers those that call the manager last

ASSUME RegistryAssumption ==
    /\ NoCaller \notin Caller
    /\ Does \in [Handler -> [Id -> Id \cup {"returns", "panics"}]]
    /\ ChainsLast \in BOOLEAN

VARIABLES handlers,  \* the registry's map
          readers,   \* how many read locks are held
          writer,    \* the goroutine in Lock, or past it, of the registry
          locked,    \* transfers whose mutex is held
          stack      \* the calls of each goroutine

vars == <<handlers, readers, writer, locked, stack>>

Events == {"initiated", "own", "status_changed"}

Methods == {"Initiate", "Notify", "transition"}

\* The hooks of a method, in order.
HooksOf(method) ==
    CASE method = "Initiate" -> <<"initiated">>
      [] method = "Notify" -> <<"own", "status_changed">>
      [] method = "transition" -> <<"status_changed">>

\* hooks: still to be triggered. run: of the current one, the handlers to come.
Enter(method, id) ==
    [method |-> method, id |-> id, hooks |-> HooksOf(method), run |-> <<>>,
     pc |-> IF method = "Initiate" THEN "between" ELSE "lock"]

Init ==
    /\ handlers = [e \in Events |-> <<>>]
    /\ readers = 0
    /\ writer = NoCaller
    /\ locked = {}
    /\ stack = [c \in Caller |-> <<>>]

At(c, step) == stack[c] # <<>> /\ Head(stack[c]).pc = step

Push(c, frame) == stack' = [stack EXCEPT ![c] = <<frame>> \o @]

Goto(c, frame) == stack' = [stack EXCEPT ![c] = <<frame>> \o Tail(@)]

Pop(c) == stack' = [stack EXCEPT ![c] = Tail(@)]

\* The mutexes that the deferred Unlocks of these calls release.
Held(frames) ==
    {frames[i].id : i \in {j \in DOMAIN frames : /\ frames[j].method # "Initiate"
                                                 /\ frames[j].pc \in {"between", "run"}}}

-----------------------------------------------------------------------------
(* On. *)

Registering(c) == stack[c] # <<>> /\ Head(stack[c]).method = "On"

Chains(h) == \E id \in Id : Does[h][id] \in Id

Taken(h) ==
    \/ \E e \in Events : Contains(handlers[e], h)
    \/ \E c \in Caller : Registering(c) /\ Last(Head(stack[c]).run) = h

\* A handler that calls the manager is registered when no other registration is
\* under way, and there is none after it.
InOrder(h) ==
    /\ \A g \in Handler : Chains(g) => ~Taken(g)
    /\ Chains(h) => \A c \in Caller : ~Registering(c)

On(c) ==
    /\ stack[c] = <<>>
    /\ \E event \in Events, h \in Handler :
         /\ ~Taken(h)
         /\ ChainsLast => InOrder(h)
         /\ Push(c, [method |-> "On", hooks |-> <<event>>, run |-> <<h>>, pc |-> "want"])
    /\ UNCHANGED <<handlers, readers, writer, locked>>

\* MUTANT: On takes the read lock.
AnnounceShared(c) ==
    /\ At(c, "want")
    /\ LET top == Head(stack[c]) IN
         Goto(c, [top EXCEPT !.pc = "store", !.run = handlers[Head(top.hooks)] \o @])
    /\ UNCHANGED <<handlers, readers, writer, locked>>

\* Lock: from here on no reader gets in.
Announce(c) ==
    /\ At(c, "want")
    /\ writer = NoCaller
    /\ writer' = c
    /\ Goto(c, [Head(stack[c]) EXCEPT !.pc = "drain"])
    /\ UNCHANGED <<handlers, readers, locked>>

Drained(c) ==
    /\ At(c, "drain")
    /\ readers = 0
    /\ LET top == Head(stack[c]) IN
         Goto(c, [top EXCEPT !.pc = "store", !.run = handlers[Head(top.hooks)] \o @])
    /\ UNCHANGED <<handlers, readers, writer, locked>>

Store(c) ==
    /\ At(c, "store")
    /\ LET top == Head(stack[c]) IN
         handlers' = [handlers EXCEPT ![Head(top.hooks)] = top.run]
    /\ writer' = NoCaller
    /\ Pop(c)
    /\ UNCHANGED <<readers, locked>>

-----------------------------------------------------------------------------
(* The manager's methods. *)

Call(c) ==
    /\ stack[c] = <<>>
    /\ \E method \in Methods, id \in Id : Push(c, Enter(method, id))
    /\ UNCHANGED <<handlers, readers, writer, locked>>

Lock(c) ==
    /\ At(c, "lock")
    /\ Head(stack[c]).id \notin locked
    /\ locked' = locked \cup {Head(stack[c]).id}
    /\ Goto(c, [Head(stack[c]) EXCEPT !.pc = "between"])
    /\ UNCHANGED <<handlers, readers, writer>>

\* MUTANT: the Unlock is not deferred, and a refused transition returns past it.
ReturnPastUnlock(c) ==
    /\ At(c, "between")
    /\ LET top == Head(stack[c]) IN
         \/ /\ top.hooks = <<>>
            /\ locked' = locked \ Held(<<top>>)
         \/ /\ top.method # "Initiate" /\ top.hooks = HooksOf(top.method)
            /\ UNCHANGED locked
    /\ Pop(c)
    /\ UNCHANGED <<handlers, readers, writer>>

\* The last hook has run, or the transition was refused before the first.
Return(c) ==
    /\ At(c, "between")
    /\ LET top == Head(stack[c]) IN
         /\ \/ top.hooks = <<>>
            \/ top.method # "Initiate" /\ top.hooks = HooksOf(top.method)
         /\ locked' = locked \ Held(<<top>>)
    /\ Pop(c)
    /\ UNCHANGED <<handlers, readers, writer>>

-----------------------------------------------------------------------------
(* Trigger. *)

\* MUTANT: readers overtake a writer that waits.
RLockOvertakes(c) ==
    /\ At(c, "between")
    /\ Head(stack[c]).hooks # <<>>
    /\ \A d \in Caller : ~At(d, "store")
    /\ readers' = readers + 1
    /\ LET top == Head(stack[c]) IN
         Goto(c, [top EXCEPT !.pc = "run", !.run = handlers[Head(top.hooks)]])
    /\ UNCHANGED <<handlers, writer, locked>>

RLock(c) ==
    /\ At(c, "between")
    /\ Head(stack[c]).hooks # <<>>
    /\ writer = NoCaller
    /\ readers' = readers + 1
    /\ LET top == Head(stack[c]) IN
         Goto(c, [top EXCEPT !.pc = "run", !.run = handlers[Head(top.hooks)]])
    /\ UNCHANGED <<handlers, writer, locked>>

Told(c) == Does[Head(Head(stack[c]).run)][Head(stack[c]).id]

HandlerReturns(c) ==
    /\ At(c, "run") /\ Head(stack[c]).run # <<>>
    /\ Told(c) = "returns"
    /\ Goto(c, [Head(stack[c]) EXCEPT !.run = Tail(@)])
    /\ UNCHANGED <<handlers, readers, writer, locked>>

\* The handler calls a method of the manager, and returns after it.
HandlerCalls(c) ==
    /\ At(c, "run") /\ Head(stack[c]).run # <<>>
    /\ Told(c) \in Id
    /\ LET top == [Head(stack[c]) EXCEPT !.run = Tail(@)] IN
         \E method \in {"Notify", "transition"} :
            stack' = [stack EXCEPT ![c] = <<Enter(method, Told(c)), top>> \o Tail(@)]
    /\ UNCHANGED <<handlers, readers, writer, locked>>

\* MUTANT: Trigger unlocks after its loop and not by a defer.
HandlerPanicsPastUnlock(c) ==
    /\ At(c, "run") /\ Head(stack[c]).run # <<>>
    /\ Told(c) = "panics"
    /\ locked' = locked \ Held(stack[c])
    /\ stack' = [stack EXCEPT ![c] = <<>>]
    /\ UNCHANGED <<handlers, readers, writer>>

\* The panic unwinds the goroutine through all deferred unlocks (and is recovered by
\* net/http).
HandlerPanics(c) ==
    /\ At(c, "run") /\ Head(stack[c]).run # <<>>
    /\ Told(c) = "panics"
    /\ readers' = readers - Cardinality({i \in DOMAIN stack[c] : stack[c][i].pc = "run"})
    /\ locked' = locked \ Held(stack[c])
    /\ stack' = [stack EXCEPT ![c] = <<>>]
    /\ UNCHANGED <<handlers, writer>>

RUnlock(c) ==
    /\ At(c, "run") /\ Head(stack[c]).run = <<>>
    /\ readers' = readers - 1
    /\ Goto(c, [Head(stack[c]) EXCEPT !.pc = "between", !.hooks = Tail(@)])
    /\ UNCHANGED <<handlers, writer, locked>>

-----------------------------------------------------------------------------
Advance(c) ==
    \/ Announce(c) \/ Drained(c) \/ Store(c)
    \/ Lock(c) \/ Return(c)
    \/ RLock(c) \/ RUnlock(c)
    \/ HandlerReturns(c) \/ HandlerCalls(c) \/ HandlerPanics(c)

Next == \E c \in Caller : On(c) \/ Call(c) \/ Advance(c)

Spec == Init /\ [][Next]_vars

\* Goroutines run. A mutex goes to the one that has waited longest, and Unlock
\* of an RWMutex lets the waiting readers in before the next writer.
FairSpec ==
    /\ Spec
    /\ \A c \in Caller : /\ WF_vars(Advance(c))
                         /\ SF_vars(Lock(c) \/ RLock(c) \/ Announce(c))
-----------------------------------------------------------------------------
(* Properties. *)

\* The open calls by goroutine and depth, the outermost at 1.
OpenCalls == UNION {{c} \X (1..Len(stack[c])) : c \in Caller}

FrameOf(p) == stack[p[1]][Len(stack[p[1]]) + 1 - p[2]]

\* The deferred Unlock of this frame releases the mutex of transfer id.
Owns(frame, id) ==
    /\ frame.method # "Initiate"
    /\ frame.pc \in {"between", "run"}
    /\ frame.id = id

Reading == {p \in OpenCalls : FrameOf(p).pc = "run"}

Owners(id) == {p \in OpenCalls : Owns(FrameOf(p), id)}

\* However calls nest and handlers panic, each lock in force is one that an open call
\* will release: a read lock for each Trigger, one owner for each mutex, and no reader
\* beside On's look at the map (hooks.go:50-51 and 63-64, transfer.go:362-365).
LocksHaveOwners ==
    /\ readers = Cardinality(Reading)
    /\ \A id \in Id : /\ id \in locked <=> Owners(id) # {}
                      /\ \A p, q \in Owners(id) : p = q
    /\ \A c \in Caller : At(c, "store") => readers = 0

\* Goroutine c cannot take its next step as the locks are.
Blocked(c) ==
    \/ At(c, "want") /\ writer # NoCaller
    \/ At(c, "drain") /\ readers # 0
    \/ At(c, "lock") /\ Head(stack[c]).id \in locked
    \/ At(c, "between") /\ Head(stack[c]).hooks # <<>> /\ writer # NoCaller

\* Goroutine d has what c is to wait for.
WaitsFor(c, d) ==
    \/ (At(c, "want") \/ At(c, "between")) /\ writer = d
    \/ At(c, "drain") /\ \E p \in Reading : p[1] = d
    \/ At(c, "lock") /\ \E p \in Owners(Head(stack[c]).id) : p[1] = d

\* Whoever is blocked waits for somebody, and no goroutines for each other or for
\* themselves: not a registration for a Trigger that waits for it, nor two moves each for
\* the other's transfer. Handlers that call the manager do so in one direction
\* and are registered last (hooks.go:29, transfer.go:365 and 381).
NobodyWaitsInVain ==
    \A group \in SUBSET Caller :
        group # {} /\ (\A c \in group : Blocked(c)) =>
          \E c \in group : /\ \E d \in Caller : WaitsFor(c, d)
                           /\ \A d \in group : ~WaitsFor(c, d)

\* Of registrations at once none is lost, and none disturbs the order of those
\* before it (hooks.go:28, "execute in registration order").
RegistrationsKept == [][\A e \in Events : IsPrefix(handlers[e], handlers'[e])]_vars

\* Every method and every registration returns, though handlers run with locks held,
\* panic, and call the manager for other transfers: if they do so in one direction
\* and the registrations come in order, nobody waits for a lock in vain
\* (hooks.go:29, "thread-safe for concurrent registration and triggering").
EveryCallerReturns == \A c \in Caller : (stack[c] # <<>>) ~> (stack[c] = <<>>)
=============================================================================
