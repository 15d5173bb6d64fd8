------------------------- MODULE HookRegistry_proofs -------------------------
(***************************************************************************)
(* Proofs about HookRegistry, for any goroutines, transfers and handlers,  *)
(* whichever of its deeds each handler does and in whatever order they are *)
(* registered.                                                             *)
(***************************************************************************)
EXTENDS HookRegistry, TLAPS, SequenceTheorems, FiniteSetTheorems, WellFoundedInduction

\* A registration has its handler with it until it has looked the list up.
OnFrame ==
    [method: {"On"}, hooks: {<<e>> : e \in Events}, run: {<<h>> : h \in Handler},
     pc: {"want", "drain"}]
    \cup [method: {"On"}, hooks: {<<e>> : e \in Events}, run: Seq(Handler),
          pc: {"store"}]

CallFrame ==
    {f \in [method: Methods, id: Id, hooks: Seq(Events), run: Seq(Handler),
            pc: {"lock", "between", "run"}] :
        /\ f.pc = "run" => f.hooks # <<>>
        /\ f.pc = "lock" => f.method # "Initiate"}

Frame == OnFrame \cup CallFrame

TypeOK ==
    /\ handlers \in [Events -> Seq(Handler)]
    /\ readers \in Int
    /\ writer \in Caller \cup {NoCaller}
    /\ locked \subseteq Id
    /\ stack \in [Caller -> Seq(Frame)]

\* Below the innermost call there are only methods whose handler it is called by.
NestingOK ==
    \A c \in Caller : \A i \in 2..Len(stack[c]) : stack[c][i].pc = "run"

\* A registration past Lock has the registry for itself, and once it has looked
\* the list up that list is still the one in the map.
RegistrationOK ==
    \A c \in Caller :
        /\ At(c, "drain") \/ At(c, "store") => writer = c
        /\ At(c, "store") =>
              LET top == Head(stack[c])
              IN \E h \in Handler : top.run = handlers[Head(top.hooks)] \o <<h>>

Inv == TypeOK /\ NestingOK /\ RegistrationOK

-----------------------------------------------------------------------------
(* Stacks. *)

LEMMA Pushed ==
    ASSUME NEW S, NEW s \in Seq(S), NEW f \in S, NEW t, t = <<f>> \o s
    PROVE  /\ t \in Seq(S) /\ t # <<>> /\ Head(t) = f
           /\ Len(t) = Len(s) + 1 /\ t[1] = f
           /\ \A i \in 1..Len(s) : t[i + 1] = s[i]
           /\ \A i \in 2..Len(t) : i - 1 \in 1..Len(s) /\ t[i] = s[i - 1]
<1>1. <<f>> \in Seq(S) /\ Len(<<f>>) = 1 /\ <<f>>[1] = f
  OBVIOUS
<1>2. /\ t \in Seq(S) /\ Len(t) = 1 + Len(s) /\ Len(s) \in Nat
      /\ \A i \in 1..(1 + Len(s)) : t[i] = IF i <= 1 THEN <<f>>[i] ELSE s[i - 1]
  BY <1>1, ConcatProperties, LenProperties
<1>3. t[1] = f /\ t # <<>> /\ Head(t) = t[1]
  BY <1>1, <1>2, HeadTailProperties
<1> QED
  BY <1>2, <1>3

LEMMA Popped ==
    ASSUME NEW S, NEW s \in Seq(S), s # <<>>
    PROVE  /\ Head(s) = s[1] /\ s[1] \in S /\ Len(s) \in Nat \ {0}
           /\ Tail(s) \in Seq(S) /\ Len(Tail(s)) = Len(s) - 1
           /\ \A i \in 1..Len(Tail(s)) : i + 1 \in 2..Len(s) /\ Tail(s)[i] = s[i + 1]
<1>1. Len(s) \in Nat \ {0} /\ Head(s) = s[1] /\ Tail(s) \in Seq(S)
  BY HeadTailProperties, EmptySeq, LenProperties
<1>2. /\ Len(Tail(s)) = Len(s) - 1
      /\ \A i \in 1..(Len(s) - 1) : Tail(s)[i] = s[i + 1]
  BY HeadTailProperties
<1>3. s[1] \in S
  BY <1>1, ElementOfSeq
<1> QED
  BY <1>1, <1>2, <1>3

LEMMA Replaced ==
    ASSUME NEW S, NEW s \in Seq(S), s # <<>>, NEW f \in S, NEW t, t = <<f>> \o Tail(s)
    PROVE  /\ t \in Seq(S) /\ t # <<>> /\ Head(t) = f
           /\ Len(t) = Len(s) /\ t[1] = f
           /\ \A i \in 2..Len(s) : t[i] = s[i]
<1>1. /\ Tail(s) \in Seq(S) /\ Len(Tail(s)) = Len(s) - 1 /\ Len(s) \in Nat \ {0}
      /\ \A i \in 1..(Len(s) - 1) : Tail(s)[i] = s[i + 1]
  BY Popped
<1>2. /\ t \in Seq(S) /\ t # <<>> /\ Head(t) = f /\ t[1] = f
      /\ Len(t) = Len(Tail(s)) + 1
      /\ \A i \in 2..Len(t) : i - 1 \in 1..Len(Tail(s)) /\ t[i] = Tail(s)[i - 1]
  BY <1>1, Pushed
<1> QED
  BY <1>1, <1>2

-----------------------------------------------------------------------------
(* What each step does to the stack of its goroutine. *)

Only(c) == \A d \in Caller \ {c} : stack'[d] = stack[d]

LEMMA Frames ==
    ASSUME NEW f \in Frame
    PROVE  /\ f.hooks \in Seq(Events) /\ f.run \in Seq(Handler)
           /\ f.method = "On" <=> f.pc \in {"want", "drain", "store"}
           /\ f.method = "On" => f \in OnFrame
           /\ f.method # "On" => f \in CallFrame
<1>1. CASE f \in OnFrame
  <2>1. PICK e \in Events : f.hooks = <<e>>
    BY <1>1 DEF OnFrame
  <2>2. <<e>> \in Seq(Events)
    OBVIOUS
  <2>3. f.method = "On" /\ f.pc \in {"want", "drain", "store"}
    BY <1>1 DEF OnFrame
  <2>4. \A h \in Handler : <<h>> \in Seq(Handler)
    OBVIOUS
  <2>5. f.run \in Seq(Handler)
    BY <1>1, <2>4 DEF OnFrame
  <2> QED
    BY <1>1, <2>1, <2>2, <2>3, <2>5
<1>2. CASE f \in CallFrame
  <2>1. /\ f.hooks \in Seq(Events) /\ f.run \in Seq(Handler) /\ f.method \in Methods
        /\ f.pc \in {"lock", "between", "run"}
    BY <1>2 DEF CallFrame
  <2>2. f.method # "On"
    BY <2>1 DEF Methods
  <2> QED
    BY <1>2, <2>1, <2>2
<1> QED
  BY <1>1, <1>2 DEF Frame

LEMMA HooksType ==
    ASSUME NEW method \in Methods
    PROVE  HooksOf(method) \in Seq(Events)
<1>1. ASSUME NEW e \in Events  PROVE <<e>> \in Seq(Events)
  OBVIOUS
<1>2. ASSUME NEW e \in Events, NEW f \in Events  PROVE <<e, f>> \in Seq(Events)
  OBVIOUS
<1>3. "initiated" \in Events /\ "own" \in Events /\ "status_changed" \in Events
  BY DEF Events
<1>4. /\ <<"initiated">> \in Seq(Events) /\ <<"status_changed">> \in Seq(Events)
      /\ <<"own", "status_changed">> \in Seq(Events)
  BY <1>1, <1>2, <1>3
<1> QED
  BY <1>4 DEF HooksOf, Methods

LEMMA EnterType ==
    ASSUME NEW method \in Methods, NEW id \in Id
    PROVE  /\ Enter(method, id) \in CallFrame
           /\ Enter(method, id).pc \in {"lock", "between"}
           /\ Enter(method, id).id = id
           /\ \A i \in Id : ~Owns(Enter(method, id), i)
<1>1. HooksOf(method) \in Seq(Events) /\ <<>> \in Seq(Handler)
  BY HooksType
<1> QED
  BY <1>1 DEF Enter, CallFrame, Owns

\* A call begins on an empty stack, and owns nothing yet.
LEMMA Begins ==
    ASSUME TypeOK, NEW c \in Caller, On(c) \/ Call(c)
    PROVE  /\ stack[c] = <<>> /\ Only(c)
           /\ \E f \in Frame :
                 /\ f.pc \in {"want", "lock", "between"}
                 /\ \A id \in Id : ~Owns(f, id)
                 /\ stack'[c] = <<f>> \o <<>>
           /\ stack' \in [Caller -> Seq(Frame)]
           /\ UNCHANGED <<handlers, readers, writer, locked>>
<1>1. stack \in [Caller -> Seq(Frame)]
  BY DEF TypeOK
<1>2. PICK f \in Frame :
        /\ f.pc \in {"want", "lock", "between"}
        /\ \A id \in Id : ~Owns(f, id)
        /\ stack' = [stack EXCEPT ![c] = <<f>> \o stack[c]]
  <2>1. CASE On(c)
    <3>1. PICK event \in Events, h \in Handler :
            stack' = [stack EXCEPT ![c] =
               <<[method |-> "On", hooks |-> <<event>>, run |-> <<h>>, pc |-> "want"]>>
               \o stack[c]]
      BY <2>1 DEF On, Push
    <3> DEFINE f == [method |-> "On", hooks |-> <<event>>, run |-> <<h>>, pc |-> "want"]
    <3>2. f \in Frame /\ f.pc = "want"
      BY DEF Frame, OnFrame
    <3> HIDE DEF f
    <3>3. stack' = [stack EXCEPT ![c] = <<f>> \o stack[c]]
      BY <3>1 DEF f
    <3> QED
      BY <3>2, <3>3 DEF Owns
  <2>2. CASE Call(c)
    <3>1. PICK method \in Methods, id \in Id :
            stack' = [stack EXCEPT ![c] = <<Enter(method, id)>> \o stack[c]]
      BY <2>2 DEF Call, Push
    <3> QED
      BY <3>1, EnterType DEF Frame
  <2> QED
    BY <2>1, <2>2
<1>3. stack[c] = <<>> /\ UNCHANGED <<handlers, readers, writer, locked>>
  BY DEF On, Call
<1>4. <<f>> \o <<>> \in Seq(Frame)
  OBVIOUS
<1> QED
  BY <1>1, <1>2, <1>3, <1>4 DEF Only

\* The steps that leave the calls below the top as they are, and replace it by
\* a frame that owns the same.
Renews(c, f) ==
    /\ stack[c] # <<>>
    /\ f \in Frame
    /\ stack' = [stack EXCEPT ![c] = <<f>> \o Tail(stack[c])]

LEMMA Renewed ==
    ASSUME TypeOK, NEW c \in Caller, NEW f, Renews(c, f)
    PROVE  /\ Only(c) /\ stack' \in [Caller -> Seq(Frame)]
           /\ stack[c] \in Seq(Frame)
           /\ stack'[c] # <<>> /\ Head(stack'[c]) = f /\ stack'[c][1] = f
           /\ Len(stack'[c]) = Len(stack[c]) /\ Len(stack[c]) \in Nat \ {0}
           /\ Head(stack[c]) = stack[c][1] /\ stack[c][1] \in Frame
           /\ \A i \in 2..Len(stack[c]) : stack'[c][i] = stack[c][i]
<1>1. stack \in [Caller -> Seq(Frame)] /\ stack[c] \in Seq(Frame)
  BY DEF TypeOK
<1>2. stack'[c] = <<f>> \o Tail(stack[c]) /\ Only(c)
  BY <1>1 DEF Renews, Only
<1>3. /\ stack'[c] \in Seq(Frame) /\ stack'[c] # <<>> /\ Head(stack'[c]) = f
      /\ Len(stack'[c]) = Len(stack[c]) /\ stack'[c][1] = f
      /\ \A i \in 2..Len(stack[c]) : stack'[c][i] = stack[c][i]
  BY <1>1, <1>2, Replaced DEF Renews
<1>4. /\ Len(stack[c]) \in Nat \ {0}
      /\ Head(stack[c]) = stack[c][1] /\ stack[c][1] \in Frame
  BY <1>1, Popped DEF Renews
<1>5. stack' \in [Caller -> Seq(Frame)]
  BY <1>1, <1>2, <1>3 DEF Renews
<1> QED
  BY <1>1, <1>2, <1>3, <1>4, <1>5

LEMMA AtTop ==
    ASSUME TypeOK, NEW c \in Caller, NEW step, At(c, step)
    PROVE  /\ stack[c] # <<>> /\ Head(stack[c]) = stack[c][1]
           /\ Head(stack[c]) \in Frame /\ Head(stack[c]).pc = step
           /\ step \in {"want", "drain", "store"} => Head(stack[c]) \in OnFrame
           /\ step \in {"lock", "between", "run"} => Head(stack[c]) \in CallFrame
<1>1. stack[c] # <<>> /\ stack[c] \in Seq(Frame) /\ Head(stack[c]).pc = step
  BY DEF TypeOK, At
<1>2. Head(stack[c]) = stack[c][1] /\ Head(stack[c]) \in Frame
  BY <1>1, Popped
<1> QED
  BY <1>1, <1>2 DEF Frame, OnFrame, CallFrame

LEMMA AnnounceRenews ==
    ASSUME TypeOK, NEW c \in Caller, Announce(c)
    PROVE  \E f : Renews(c, f) /\ f.pc = "drain" /\ f.run = Head(stack[c]).run
<1> DEFINE top == Head(stack[c])
           f == [top EXCEPT !.pc = "drain"]
<1>1. top \in OnFrame /\ stack[c] # <<>>
  BY AtTop DEF Announce
<1>2. f \in Frame /\ f.pc = "drain" /\ f.run = top.run
  <2>1. PICK e \in Events, h \in Handler :
          top = [method |-> "On", hooks |-> <<e>>, run |-> <<h>>, pc |-> "want"]
    BY <1>1 DEF OnFrame, Announce, At
  <2>2. f = [method |-> "On", hooks |-> <<e>>, run |-> <<h>>, pc |-> "drain"]
    BY <2>1
  <2> HIDE DEF top, f
  <2> QED
    BY <2>1, <2>2 DEF OnFrame, Frame
<1>3. Renews(c, f)
  BY <1>1, <1>2 DEF Announce, Goto, Renews
<1> HIDE DEF f
<1> QED
  BY <1>2, <1>3

LEMMA DrainedRenews ==
    ASSUME TypeOK, NEW c \in Caller, Drained(c)
    PROVE  \E f : /\ Renews(c, f) /\ f.pc = "store"
                  /\ \E h \in Handler : /\ f.run = handlers[Head(f.hooks)] \o <<h>>
                                        /\ Head(stack[c]).run = <<h>>
<1> DEFINE top == Head(stack[c])
           f == [top EXCEPT !.pc = "store", !.run = handlers[Head(top.hooks)] \o @]
<1>1. top \in OnFrame /\ stack[c] # <<>> /\ At(c, "drain")
  BY AtTop DEF Drained
<1>2. PICK e \in Events, h \in Handler :
        top = [method |-> "On", hooks |-> <<e>>, run |-> <<h>>, pc |-> "drain"]
  BY <1>1 DEF OnFrame, At
<1>3. handlers[e] \in Seq(Handler) /\ handlers[e] \o <<h>> \in Seq(Handler)
  BY <1>2 DEF TypeOK
<1>4. /\ f \in Frame /\ f.pc = "store"
      /\ f.run = handlers[Head(f.hooks)] \o <<h>>
  <2>1. f = [method |-> "On", hooks |-> <<e>>, run |-> handlers[e] \o <<h>>,
             pc |-> "store"]
    <3>1. top.hooks = <<e>> /\ top.run = <<h>>
      BY <1>2
    <3>2. Head(top.hooks) = e
      BY <3>1
    <3>3. f = [top EXCEPT !.pc = "store", !.run = handlers[e] \o <<h>>]
      BY <3>1, <3>2
    <3> DEFINE list == handlers[e] \o <<h>>
    <3> HIDE DEF f, top, list
    <3> QED
      BY <3>3, <1>2 DEF list
  <2> HIDE DEF top, f
  <2> QED
    BY <2>1, <1>3 DEF OnFrame, Frame
<1>5. Renews(c, f)
  BY <1>1, <1>4 DEF Drained, Goto, Renews
<1>6. Head(stack[c]).run = <<h>>
  BY <1>2
<1> HIDE DEF f
<1> QED
  BY <1>4, <1>5, <1>6

LEMMA LockRenews ==
    ASSUME TypeOK, NEW c \in Caller, Lock(c)
    PROVE  /\ Head(stack[c]).id \in Id /\ Head(stack[c]).pc = "lock"
           /\ \E f : /\ Renews(c, f) /\ f.pc = "between" /\ f.id = Head(stack[c]).id
                     /\ \A id : Owns(f, id) <=> id = Head(stack[c]).id
<1> DEFINE f == [Head(stack[c]) EXCEPT !.pc = "between"]
<1>1. /\ Head(stack[c]) \in CallFrame /\ stack[c] # <<>> /\ Head(stack[c]).pc = "lock"
  BY AtTop DEF Lock
<1>2. f \in Frame /\ f.pc = "between" /\ f.id = Head(stack[c]).id
  BY <1>1 DEF CallFrame, Frame
<1>3. \A id : Owns(f, id) <=> id = Head(stack[c]).id
  BY <1>1 DEF CallFrame, Owns
<1>4. Renews(c, f)
  BY <1>1, <1>2 DEF Lock, Goto, Renews
<1>5. Head(stack[c]).id \in Id
  BY <1>1 DEF CallFrame
<1> HIDE DEF f
<1> QED
  BY <1>1, <1>2, <1>3, <1>4, <1>5

LEMMA RLockRenews ==
    ASSUME TypeOK, NEW c \in Caller, RLock(c)
    PROVE  /\ Head(stack[c]).pc = "between"
           /\ \E f : /\ Renews(c, f) /\ f.pc = "run" /\ f.id = Head(stack[c]).id
                     /\ \E e \in Events : f.run = handlers[e]
                     /\ \A id : Owns(f, id) <=> Owns(Head(stack[c]), id)
<1> DEFINE top == Head(stack[c])
           f == [top EXCEPT !.pc = "run", !.run = handlers[Head(top.hooks)]]
<1>1. top \in CallFrame /\ stack[c] # <<>> /\ top.hooks # <<>> /\ top.pc = "between"
  BY AtTop DEF RLock
<1>2. Head(top.hooks) \in Events
  BY <1>1 DEF CallFrame
<1>3. handlers[Head(top.hooks)] \in Seq(Handler)
  BY <1>2 DEF TypeOK
<1>4. f \in Frame /\ f.pc = "run" /\ f.id = top.id /\ f.run = handlers[Head(top.hooks)]
  BY <1>1, <1>3 DEF CallFrame, Frame
<1>5. \A id : Owns(f, id) <=> Owns(top, id)
  BY <1>1 DEF CallFrame, Owns
<1>6. Renews(c, f)
  BY <1>1, <1>4 DEF RLock, Goto, Renews
<1> HIDE DEF f
<1> QED
  BY <1>1, <1>2, <1>4, <1>5, <1>6

LEMMA HandlerReturnsRenews ==
    ASSUME TypeOK, NEW c \in Caller, At(c, "run"), Head(stack[c]).run # <<>>
    PROVE  LET f == [Head(stack[c]) EXCEPT !.run = Tail(@)]
           IN  /\ f \in Frame /\ f.pc = "run" /\ stack[c] # <<>>
               /\ f.id = Head(stack[c]).id /\ f.run = Tail(Head(stack[c]).run)
               /\ \A id : Owns(f, id) <=> Owns(Head(stack[c]), id)
<1> DEFINE f == [Head(stack[c]) EXCEPT !.run = Tail(@)]
<1>1. Head(stack[c]) \in CallFrame /\ stack[c] # <<>> /\ Head(stack[c]).pc = "run"
  BY AtTop
<1>2. Tail(Head(stack[c]).run) \in Seq(Handler)
  BY <1>1 DEF CallFrame
<1>3. /\ f \in Frame /\ f.pc = "run"
      /\ f.id = Head(stack[c]).id /\ f.run = Tail(Head(stack[c]).run)
  BY <1>1, <1>2 DEF CallFrame, Frame
<1>4. \A id : Owns(f, id) <=> Owns(Head(stack[c]), id)
  BY <1>1 DEF CallFrame, Owns
<1> HIDE DEF f
<1>5. /\ f \in Frame /\ f.pc = "run" /\ stack[c] # <<>>
      /\ f.id = Head(stack[c]).id /\ f.run = Tail(Head(stack[c]).run)
  BY <1>1, <1>3
<1> QED
  BY <1>4, <1>5 DEF f

LEMMA RUnlockRenews ==
    ASSUME TypeOK, NEW c \in Caller, RUnlock(c)
    PROVE  /\ Head(stack[c]).pc = "run"
           /\ \E f : /\ Renews(c, f) /\ f.pc = "between" /\ f.id = Head(stack[c]).id
                     /\ \A id : Owns(f, id) <=> Owns(Head(stack[c]), id)
<1> DEFINE f == [Head(stack[c]) EXCEPT !.pc = "between", !.hooks = Tail(@)]
<1>1. Head(stack[c]) \in CallFrame /\ stack[c] # <<>> /\ Head(stack[c]).pc = "run"
  BY AtTop DEF RUnlock
<1>2. Head(stack[c]).hooks # <<>>
  BY <1>1 DEF CallFrame
<1>3. Tail(Head(stack[c]).hooks) \in Seq(Events)
  BY <1>1, <1>2 DEF CallFrame
<1>4. f \in Frame /\ f.pc = "between" /\ f.id = Head(stack[c]).id
  BY <1>1, <1>3 DEF CallFrame, Frame
<1>5. \A id : Owns(f, id) <=> Owns(Head(stack[c]), id)
  BY <1>1 DEF CallFrame, Owns
<1>6. Renews(c, f)
  BY <1>1, <1>4 DEF RUnlock, Goto, Renews
<1> HIDE DEF f
<1> QED
  BY <1>1, <1>4, <1>5, <1>6

\* The handler's frame goes on without it, below the call it makes.
LEMMA HandlerCallsStacks ==
    ASSUME TypeOK, NEW c \in Caller, HandlerCalls(c)
    PROVE  \E f, new :
              /\ f.pc = "run" /\ new.pc \in {"lock", "between"}
              /\ f.id = Head(stack[c]).id /\ f.run = Tail(Head(stack[c]).run)
              /\ new.id = Told(c)
              /\ \A id : Owns(f, id) <=> Owns(Head(stack[c]), id)
              /\ \A id : ~Owns(new, id)
              /\ stack[c] # <<>> /\ Only(c) /\ stack' \in [Caller -> Seq(Frame)]
              /\ Len(stack'[c]) = Len(stack[c]) + 1 /\ Len(stack[c]) \in Nat \ {0}
              /\ stack'[c] # <<>> /\ Head(stack'[c]) = new
              /\ stack'[c][1] = new /\ stack'[c][2] = f
              /\ \A i \in 3..(Len(stack[c]) + 1) : stack'[c][i] = stack[c][i - 1]
<1> DEFINE f == [Head(stack[c]) EXCEPT !.run = Tail(@)]
           below == <<f>> \o Tail(stack[c])
<1>1. /\ f \in Frame /\ f.pc = "run" /\ stack[c] # <<>>
      /\ f.id = Head(stack[c]).id /\ f.run = Tail(Head(stack[c]).run)
      /\ \A id : Owns(f, id) <=> Owns(Head(stack[c]), id)
  BY HandlerReturnsRenews DEF HandlerCalls
<1>2. PICK method \in {"Notify", "transition"} :
        stack' = [stack EXCEPT ![c] = <<Enter(method, Told(c)), f>> \o Tail(stack[c])]
  BY Zenon DEF HandlerCalls
<1> DEFINE new == Enter(method, Told(c))
<1>3. /\ new \in Frame /\ new.pc \in {"lock", "between"} /\ new.id = Told(c)
      /\ \A id : ~Owns(new, id)
  <2>1. method \in Methods /\ Told(c) \in Id
    BY DEF HandlerCalls, Methods
  <2>2. /\ new \in CallFrame /\ new.pc \in {"lock", "between"} /\ new.id = Told(c)
        /\ \A id \in Id : ~Owns(new, id)
    BY <2>1, EnterType
  <2> HIDE DEF new
  <2> QED
    BY <2>2 DEF Frame, CallFrame, Owns
<1> HIDE DEF f, new
<1>4. /\ stack \in [Caller -> Seq(Frame)] /\ stack[c] \in Seq(Frame)
      /\ Tail(stack[c]) \in Seq(Frame) /\ Len(stack[c]) \in Nat \ {0}
  BY <1>1, Popped DEF TypeOK
<1>5. <<new, f>> \o Tail(stack[c]) = <<new>> \o below
  <2>1. <<new>> \in Seq(Frame) /\ <<f>> \in Seq(Frame) /\ <<new, f>> = <<new>> \o <<f>>
    BY <1>1, <1>3
  <2> QED
    BY <2>1, <1>4, ConcatAssociative
<1>6. /\ below \in Seq(Frame) /\ Len(below) = Len(stack[c]) /\ below[1] = f
      /\ \A i \in 2..Len(stack[c]) : below[i] = stack[c][i]
  BY <1>1, <1>4, Replaced
<1>7. stack'[c] = <<new>> \o below /\ Only(c)
  BY <1>2, <1>4, <1>5 DEF Only, new
<1> HIDE DEF below
<1>8. /\ stack'[c] \in Seq(Frame) /\ stack'[c] # <<>> /\ Head(stack'[c]) = new
      /\ Len(stack'[c]) = Len(below) + 1 /\ stack'[c][1] = new
      /\ \A i \in 1..Len(below) : stack'[c][i + 1] = below[i]
  BY <1>3, <1>6, <1>7, Pushed
<1>9. stack' \in [Caller -> Seq(Frame)]
  BY <1>2, <1>4, <1>5, <1>7, <1>8 DEF new, below
<1>10. stack'[c][2] = f
  <2>1. 1 \in 1..Len(below) /\ 1 + 1 = 2
    BY <1>4, <1>6
  <2> QED
    BY <2>1, <1>6, <1>8
<1>11. ASSUME NEW i \in 3..(Len(stack[c]) + 1)  PROVE stack'[c][i] = stack[c][i - 1]
  <2>1. i - 1 \in 2..Len(stack[c]) /\ i - 1 \in 1..Len(below) /\ (i - 1) + 1 = i
    BY <1>4, <1>6
  <2> QED
    BY <2>1, <1>6, <1>8
<1> QED
  BY <1>1, <1>3, <1>4, <1>6, <1>7, <1>8, <1>9, <1>10, <1>11

-----------------------------------------------------------------------------
(* The invariant. *)

\* What is at the top of another goroutine's stack stays there.
LEMMA OthersStay ==
    ASSUME NEW c \in Caller, Only(c), NEW d \in Caller \ {c}, NEW step
    PROVE  At(d, step)' <=> At(d, step)
BY DEF Only, At

\* A registration that another goroutine's step does not disturb.
LEMMA OthersRegister ==
    ASSUME Inv, NEW c \in Caller, Only(c), handlers' = handlers,
           writer' = writer \/ writer \in {c, NoCaller}
    PROVE  \A d \in Caller \ {c} :
              /\ At(d, "drain")' \/ At(d, "store")' => writer' = d
              /\ At(d, "store")' =>
                    LET top == Head(stack'[d])
                    IN \E h \in Handler : top.run = handlers'[Head(top.hooks)] \o <<h>>
<1> SUFFICES ASSUME NEW d \in Caller \ {c}
             PROVE  /\ At(d, "drain")' \/ At(d, "store")' => writer' = d
                    /\ At(d, "store")' =>
                          LET top == Head(stack'[d])
                          IN \E h \in Handler : top.run = handlers'[Head(top.hooks)] \o <<h>>
  OBVIOUS
<1>1. /\ At(d, "drain")' <=> At(d, "drain")
      /\ At(d, "store")' <=> At(d, "store")
      /\ stack'[d] = stack[d]
  BY OthersStay DEF Only
<1>2. /\ At(d, "drain") \/ At(d, "store") => writer = d
      /\ At(d, "store") =>
            LET top == Head(stack[d])
            IN \E h \in Handler : top.run = handlers[Head(top.hooks)] \o <<h>>
  BY DEF Inv, RegistrationOK
<1>3. d # NoCaller /\ d # c
  BY RegistryAssumption
<1> QED
  BY <1>1, <1>2, <1>3

\* A new top, of a registration only if it has the registry for itself.
LEMMA TopRenewed ==
    ASSUME Inv, NEW c \in Caller, NEW f, Renews(c, f), handlers' = handlers,
           writer' = writer \/ (writer = NoCaller /\ writer' = c),
           locked' \subseteq Id, readers' \in Int,
           f.pc \in {"drain", "store"} => writer' = c,
           f.pc = "store" =>
              \E h \in Handler : f.run = handlers[Head(f.hooks)] \o <<h>>
    PROVE  Inv'
<1> USE DEF Inv
<1>1. /\ Only(c) /\ stack' \in [Caller -> Seq(Frame)]
      /\ stack'[c] # <<>> /\ Head(stack'[c]) = f
      /\ Len(stack'[c]) = Len(stack[c])
      /\ \A i \in 2..Len(stack[c]) : stack'[c][i] = stack[c][i]
  BY Renewed
<1>2. TypeOK'
  BY <1>1 DEF TypeOK
<1>3. NestingOK'
  BY <1>1 DEF NestingOK, Only
<1>4. /\ At(c, "drain")' \/ At(c, "store")' => writer' = c
      /\ At(c, "store")' =>
            LET top == Head(stack'[c])
            IN \E h \in Handler : top.run = handlers'[Head(top.hooks)] \o <<h>>
  BY <1>1 DEF At
<1>5. RegistrationOK'
  BY <1>1, <1>4, OthersRegister DEF RegistrationOK
<1> QED
  BY <1>2, <1>3, <1>5

\* The innermost call ends: the handler it was called by is back on top.
LEMMA TopPopped ==
    ASSUME TypeOK, NestingOK, NEW c \in Caller, stack[c] # <<>>, Pop(c)
    PROVE  /\ Only(c) /\ stack' \in [Caller -> Seq(Frame)]
           /\ NestingOK'
           /\ \A step : At(c, step)' => step = "run"
<1>1. /\ stack[c] \in Seq(Frame) /\ stack'[c] = Tail(stack[c])
      /\ stack' = [stack EXCEPT ![c] = Tail(stack[c])] /\ Only(c)
  BY DEF TypeOK, Pop, Only
<1>2. /\ stack'[c] \in Seq(Frame) /\ Len(stack'[c]) = Len(stack[c]) - 1
      /\ Len(stack[c]) \in Nat \ {0}
      /\ \A i \in 1..Len(stack'[c]) :
            i + 1 \in 2..Len(stack[c]) /\ stack'[c][i] = stack[c][i + 1]
  BY <1>1, Popped
<1>3. \A i \in 1..Len(stack'[c]) : stack'[c][i].pc = "run"
  BY <1>2 DEF NestingOK
<1>4. ASSUME stack'[c] # <<>>  PROVE Head(stack'[c]).pc = "run"
  <2>1. Head(stack'[c]) = stack'[c][1] /\ Len(stack'[c]) \in Nat \ {0}
    BY <1>2, <1>4, Popped
  <2> QED
    BY <2>1, <1>3
<1>5. NestingOK'
  <2> SUFFICES ASSUME NEW d \in Caller, NEW i \in 2..Len(stack'[d])
               PROVE  stack'[d][i].pc = "run"
    BY DEF NestingOK
  <2>1. CASE d = c
    BY <2>1, <1>2, <1>3
  <2>2. CASE d # c
    BY <2>2, <1>1 DEF NestingOK, Only
  <2> QED
    BY <2>1, <2>2
<1>6. stack' \in [Caller -> Seq(Frame)]
  BY <1>1, <1>2 DEF TypeOK
<1> QED
  BY <1>1, <1>4, <1>5, <1>6 DEF At

LEMMA SamePrefix ==
    ASSUME NEW S, NEW s \in Seq(S), NEW x \in S
    PROVE  IsPrefix(s, s) /\ IsPrefix(s, s \o <<x>>)
<1>1. /\ <<x>> \in Seq(S) /\ Len(<<x>>) = 1 /\ s \o <<x>> \in Seq(S)
      /\ Len(s) \in Nat /\ Len(s \o <<x>>) = Len(s) + 1
      /\ \A i \in 1..Len(s) : (s \o <<x>>)[i] = s[i]
  BY LenProperties, ConcatProperties
<1>2. SubSeq(s, 1, Len(s)) = SubSeq(s \o <<x>>, 1, Len(s))
  <2>1. ASSUME NEW t \in Seq(S), Len(s) <= Len(t), \A i \in 1..Len(s) : t[i] = s[i]
        PROVE  SubSeq(t, 1, Len(s)) = s
    <3>1. /\ SubSeq(t, 1, Len(s)) \in Seq(S) /\ Len(SubSeq(t, 1, Len(s))) = Len(s)
          /\ \A i \in 1..Len(s) : SubSeq(t, 1, Len(s))[i] = s[i]
      BY <1>1, <2>1, SubSeqProperties
    <3> QED
      BY <3>1, SeqEqual
  <2> QED
    BY <1>1, <2>1
<1> QED
  BY <1>1, <1>2 DEF IsPrefix

LEMMA BeginsInv ==
    ASSUME Inv, NEW c \in Caller, On(c) \/ Call(c)
    PROVE  Inv'
<1> USE DEF Inv
<1>1. PICK f \in Frame : /\ f.pc \in {"want", "lock", "between"}
                         /\ stack'[c] = <<f>> \o <<>>
  BY Begins
<1>2. Only(c) /\ stack' \in [Caller -> Seq(Frame)]
      /\ UNCHANGED <<handlers, readers, writer, locked>>
  BY Begins
<1>3. <<>> \in Seq(Frame) /\ Len(<<>>) = 0
  BY EmptySeq
<1>4. /\ Head(stack'[c]) = f /\ Len(stack'[c]) = 1
  BY <1>1, <1>3, Pushed
<1>5. TypeOK'
  BY <1>2 DEF TypeOK
<1>6. NestingOK'
  BY <1>2, <1>4 DEF NestingOK, Only
<1>7. RegistrationOK'
  BY <1>1, <1>2, <1>4, OthersRegister DEF RegistrationOK, At
<1> QED
  BY <1>5, <1>6, <1>7

LEMMA AnnounceInv ==
    ASSUME Inv, NEW c \in Caller, Announce(c)
    PROVE  Inv'
<1> USE DEF Inv
<1>1. PICK f : Renews(c, f) /\ f.pc = "drain"
  BY AnnounceRenews
<1>2. /\ writer = NoCaller /\ writer' = c
      /\ UNCHANGED <<handlers, readers, locked>>
  BY DEF Announce
<1> QED
  BY <1>1, <1>2, TopRenewed DEF TypeOK

LEMMA DrainedInv ==
    ASSUME Inv, NEW c \in Caller, Drained(c)
    PROVE  Inv'
<1> USE DEF Inv
<1>1. PICK f : /\ Renews(c, f) /\ f.pc = "store"
               /\ \E h \in Handler : f.run = handlers[Head(f.hooks)] \o <<h>>
  BY DrainedRenews
<1>2. /\ writer = c
      /\ UNCHANGED <<handlers, readers, writer, locked>>
  BY DEF Drained, RegistrationOK
<1> QED
  BY <1>1, <1>2, TopRenewed DEF TypeOK

LEMMA StoreInv ==
    ASSUME Inv, NEW c \in Caller, Store(c)
    PROVE  /\ Inv'
           /\ \A e \in Events : IsPrefix(handlers[e], handlers'[e])
<1> USE DEF Inv
<1> DEFINE top == Head(stack[c])
<1>1. top \in OnFrame /\ stack[c] # <<>> /\ At(c, "store")
  BY AtTop DEF Store
<1>2. PICK e \in Events : top.hooks = <<e>>
  BY <1>1 DEF OnFrame
<1>3. Head(top.hooks) = e
  BY <1>2
<1>4. PICK h \in Handler : top.run = handlers[e] \o <<h>>
  BY <1>1, <1>3 DEF RegistrationOK
<1>5. handlers' = [handlers EXCEPT ![e] = handlers[e] \o <<h>>]
  BY <1>3, <1>4 DEF Store
<1>6. handlers[e] \in Seq(Handler) /\ handlers[e] \o <<h>> \in Seq(Handler)
      /\ handlers \in [Events -> Seq(Handler)]
  BY DEF TypeOK
<1>7. /\ Only(c) /\ stack' \in [Caller -> Seq(Frame)]
      /\ NestingOK' /\ \A step : At(c, step)' => step = "run"
  BY <1>1, TopPopped DEF Store
<1>8. TypeOK'
  BY <1>5, <1>6, <1>7 DEF TypeOK, Store
<1>9. \A d \in Caller \ {c} : ~At(d, "drain")' /\ ~At(d, "store")'
  <2>1. writer = c
    BY <1>1 DEF RegistrationOK
  <2> QED
    BY <2>1, <1>7, OthersStay DEF RegistrationOK
<1>10. RegistrationOK'
  BY <1>7, <1>9 DEF RegistrationOK
<1>11. \A x \in Events : IsPrefix(handlers[x], handlers'[x])
  <2> SUFFICES ASSUME NEW x \in Events  PROVE IsPrefix(handlers[x], handlers'[x])
    OBVIOUS
  <2>1. handlers[x] \in Seq(Handler)
    BY <1>6
  <2>2. IsPrefix(handlers[x], handlers[x]) /\ IsPrefix(handlers[x], handlers[x] \o <<h>>)
    BY <2>1, SamePrefix
  <2>3. handlers'[x] = handlers[x] \/ handlers'[x] = handlers[x] \o <<h>>
    BY <1>5, <1>6
  <2> QED
    BY <2>2, <2>3
<1> QED
  BY <1>7, <1>8, <1>10, <1>11

LEMMA ReturnInv ==
    ASSUME Inv, NEW c \in Caller, Return(c)
    PROVE  Inv'
<1> USE DEF Inv
<1>1. stack[c] # <<>>
  BY DEF Return, At
<1>2. /\ Only(c) /\ stack' \in [Caller -> Seq(Frame)]
      /\ NestingOK' /\ \A step : At(c, step)' => step = "run"
  BY <1>1, TopPopped DEF Return
<1>3. UNCHANGED <<handlers, readers, writer>> /\ locked' \subseteq locked
  BY DEF Return
<1>4. TypeOK'
  BY <1>2, <1>3 DEF TypeOK
<1>5. RegistrationOK'
  BY <1>2, <1>3, OthersRegister DEF RegistrationOK
<1> QED
  BY <1>2, <1>4, <1>5

LEMMA LockInv ==
    ASSUME Inv, NEW c \in Caller, Lock(c)
    PROVE  Inv'
<1> USE DEF Inv
<1>1. PICK f : Renews(c, f) /\ f.pc = "between"
  BY LockRenews
<1>2. locked' \subseteq Id /\ UNCHANGED <<handlers, readers, writer>>
  BY LockRenews DEF Lock, TypeOK
<1> QED
  BY <1>1, <1>2, TopRenewed DEF TypeOK

LEMMA RLockInv ==
    ASSUME Inv, NEW c \in Caller, RLock(c)
    PROVE  Inv'
<1> USE DEF Inv
<1>1. PICK f : Renews(c, f) /\ f.pc = "run"
  BY RLockRenews
<1>2. readers' \in Int /\ UNCHANGED <<handlers, writer, locked>>
  BY DEF RLock, TypeOK
<1> QED
  BY <1>1, <1>2, TopRenewed DEF TypeOK

LEMMA HandlerReturnsInv ==
    ASSUME Inv, NEW c \in Caller, HandlerReturns(c)
    PROVE  Inv'
<1> USE DEF Inv
<1> DEFINE f == [Head(stack[c]) EXCEPT !.run = Tail(@)]
<1>1. f \in Frame /\ f.pc = "run" /\ stack[c] # <<>>
  BY HandlerReturnsRenews DEF HandlerReturns
<1>2. Renews(c, f)
  BY <1>1 DEF HandlerReturns, Goto, Renews
<1>3. UNCHANGED <<handlers, readers, writer, locked>>
  BY DEF HandlerReturns
<1> HIDE DEF f
<1> QED
  BY <1>1, <1>2, <1>3, TopRenewed DEF TypeOK

LEMMA RUnlockInv ==
    ASSUME Inv, NEW c \in Caller, RUnlock(c)
    PROVE  Inv'
<1> USE DEF Inv
<1>1. PICK f : Renews(c, f) /\ f.pc = "between"
  BY RUnlockRenews
<1>2. readers' \in Int /\ UNCHANGED <<handlers, writer, locked>>
  BY DEF RUnlock, TypeOK
<1> QED
  BY <1>1, <1>2, TopRenewed DEF TypeOK

LEMMA HandlerCallsInv ==
    ASSUME Inv, NEW c \in Caller, HandlerCalls(c)
    PROVE  Inv'
<1> USE DEF Inv
<1> DEFINE n == Len(stack[c])
<1>1. PICK f, new :
        /\ f.pc = "run" /\ new.pc \in {"lock", "between"}
        /\ Only(c) /\ stack' \in [Caller -> Seq(Frame)]
        /\ Len(stack'[c]) = n + 1 /\ n \in Nat \ {0}
        /\ Head(stack'[c]) = new /\ stack'[c][2] = f
        /\ \A i \in 3..(n + 1) : stack'[c][i] = stack[c][i - 1]
  BY HandlerCallsStacks
<1>2. UNCHANGED <<handlers, readers, writer, locked>>
  BY DEF HandlerCalls
<1>3. TypeOK'
  BY <1>1, <1>2 DEF TypeOK
<1>4. NestingOK'
  <2> SUFFICES ASSUME NEW d \in Caller, NEW i \in 2..Len(stack'[d])
               PROVE  stack'[d][i].pc = "run"
    BY DEF NestingOK
  <2>1. CASE d # c
    BY <2>1, <1>1 DEF NestingOK, Only
  <2>2. CASE d = c /\ i = 2
    BY <2>2, <1>1
  <2>3. CASE d = c /\ i # 2
    <3>1. i \in 3..(n + 1) /\ i - 1 \in 2..n
      BY <2>3, <1>1
    <3> QED
      BY <2>3, <3>1, <1>1 DEF NestingOK
  <2> QED
    BY <2>1, <2>2, <2>3
<1>5. RegistrationOK'
  BY <1>1, <1>2, OthersRegister DEF RegistrationOK, At
<1> QED
  BY <1>3, <1>4, <1>5

LEMMA HandlerPanicsInv ==
    ASSUME Inv, NEW c \in Caller, HandlerPanics(c)
    PROVE  Inv'
<1> USE DEF Inv
<1>1. /\ stack' = [stack EXCEPT ![c] = <<>>] /\ locked' \subseteq locked
      /\ UNCHANGED <<handlers, writer>>
  BY DEF HandlerPanics
<1>2. readers' \in Int
  <2> DEFINE running == {i \in DOMAIN stack[c] : stack[c][i].pc = "run"}
  <2>1. DOMAIN stack[c] = 1..Len(stack[c]) /\ Len(stack[c]) \in Nat
    BY LenProperties DEF TypeOK
  <2>2. IsFiniteSet(running)
    <3>1. IsFiniteSet(1..Len(stack[c]))
      BY <2>1, FS_Interval
    <3>2. running \in SUBSET (1..Len(stack[c]))
      BY <2>1
    <3> HIDE DEF running
    <3> QED
      BY <3>1, <3>2, FS_Subset
  <2>3. Cardinality(running) \in Nat
    BY <2>2, FS_CardinalityType
  <2> QED
    BY <2>3 DEF HandlerPanics, TypeOK
<1>3. /\ stack' \in [Caller -> Seq(Frame)] /\ Only(c)
      /\ stack'[c] = <<>> /\ Len(stack'[c]) = 0
  <2>1. <<>> \in Seq(Frame) /\ Len(<<>>) = 0
    BY EmptySeq
  <2> QED
    BY <1>1, <2>1 DEF TypeOK, Only
<1>4. TypeOK'
  BY <1>1, <1>2, <1>3 DEF TypeOK
<1>5. NestingOK'
  BY <1>3 DEF NestingOK, Only
<1>6. RegistrationOK'
  BY <1>1, <1>3, OthersRegister DEF RegistrationOK, At
<1> QED
  BY <1>4, <1>5, <1>6

-----------------------------------------------------------------------------
(* The locks and those who hold them. *)

Top(c) == <<c, Len(stack[c])>>

LocksOK == LocksHaveOwners /\ IsFiniteSet(Reading)

\* An open call is a goroutine and one of the depths of its stack.
LEMMA Open ==
    ASSUME NEW c, NEW k
    PROVE  /\ <<c, k>> \in OpenCalls <=> c \in Caller /\ k \in 1..Len(stack[c])
           /\ <<c, k>> \in OpenCalls' <=> c \in Caller /\ k \in 1..Len(stack'[c])
BY DEF OpenCalls

LEMMA OpenPairs ==
    /\ \A p \in OpenCalls : p = <<p[1], p[2]>>
    /\ \A p \in OpenCalls' : p = <<p[1], p[2]>>
BY DEF OpenCalls

LEMMA OpenIsSame ==
    ASSUME NEW S, \A p \in S : p = <<p[1], p[2]>>,
           \A d, k : <<d, k>> \in OpenCalls' <=> <<d, k>> \in S
    PROVE  OpenCalls' = S
<1>1. \A p \in OpenCalls' : p \in S
  BY OpenPairs
<1>2. \A p \in S : p \in OpenCalls'
  OBVIOUS
<1> QED
  BY <1>1, <1>2

\* What the step of a goroutine does to the calls of the others: nothing.
LEMMA OthersOpen ==
    ASSUME NEW c, Only(c), NEW d \in Caller \ {c}, NEW k
    PROVE  /\ <<d, k>> \in OpenCalls' <=> <<d, k>> \in OpenCalls
           /\ FrameOf(<<d, k>>)' = FrameOf(<<d, k>>)
BY Open DEF Only, FrameOf

\* Call t has frame f now, and no other call has changed, begun or ended.
Becomes(t, f) ==
    /\ OpenCalls' = OpenCalls \cup {t}
    /\ FrameOf(t)' = f
    /\ \A p \in OpenCalls \ {t} : FrameOf(p)' = FrameOf(p)

\* Call t has ended, and nothing else has happened to calls.
Ends(t) ==
    /\ OpenCalls' = OpenCalls \ {t}
    /\ \A p \in OpenCalls \ {t} : FrameOf(p)' = FrameOf(p)

\* The calls of c below the nth are what they were below the top.
Below(c, n) == \A i \in 2..n : stack'[c][i] = stack[c][Len(stack[c]) - n + i]

LEMMA BecomesIf ==
    ASSUME NEW c \in Caller, Only(c), NEW n \in Nat, NEW f,
           Len(stack[c]) = n \/ Len(stack[c]) = n - 1, n > 0, Len(stack'[c]) = n, stack'[c][1] = f,
           Below(c, n)
    PROVE  Becomes(<<c, n>>, f)
<1>1. Len(stack[c]) \in Nat /\ Len(stack'[c]) \in Nat
  OBVIOUS
<1>2. OpenCalls' = OpenCalls \cup {<<c, n>>}
  <2> DEFINE S == OpenCalls \cup {<<c, n>>}
  <2>1. \A p \in S : p = <<p[1], p[2]>>
    BY OpenPairs
  <2>2. ASSUME NEW d, NEW k  PROVE <<d, k>> \in OpenCalls' <=> <<d, k>> \in S
    <3>1. CASE d = c
      BY <3>1, <1>1, Open
    <3>2. CASE d # c /\ d \in Caller
      BY <3>2, OthersOpen
    <3>3. CASE d \notin Caller
      BY <3>3, Open
    <3> QED
      BY <3>1, <3>2, <3>3
  <2> HIDE DEF S
  <2>3. OpenCalls' = S
    BY <2>1, <2>2, OpenIsSame
  <2> QED
    BY <2>3 DEF S
<1>3. FrameOf(<<c, n>>)' = f
  BY <1>1 DEF FrameOf
<1>4. ASSUME NEW p \in OpenCalls \ {<<c, n>>}  PROVE FrameOf(p)' = FrameOf(p)
  <2>1. PICK d, k : p = <<d, k>> /\ d \in Caller /\ k \in 1..Len(stack[d])
    BY OpenPairs, Open
  <2>2. CASE d # c
    BY <2>1, <2>2, OthersOpen
  <2>3. CASE d = c
    <3>1. k # n /\ k \in Nat /\ k > 0 /\ k <= Len(stack[c]) /\ p[1] = c /\ p[2] = k
      BY <2>1, <2>3, <1>1
    <3>2. n + 1 - k \in 2..n
      <4>1. k \in Nat /\ k > 0 /\ k < n
        BY <3>1, <1>1
      <4> QED
        BY <4>1
    <3>3. stack'[c][n + 1 - k] = stack[c][Len(stack[c]) - n + (n + 1 - k)]
      BY <3>2 DEF Below
    <3>4. Len(stack[c]) - n + (n + 1 - k) = Len(stack[c]) + 1 - k
      <4>1. \A l \in Nat, j \in Nat : l - n + (n + 1 - j) = l + 1 - j
        OBVIOUS
      <4> QED
        BY <3>1, <1>1, <4>1
    <3> QED
      BY <3>1, <3>3, <3>4 DEF FrameOf
  <2> QED
    BY <2>2, <2>3
<1> QED
  BY <1>2, <1>3, <1>4 DEF Becomes

LEMMA EndsIf ==
    ASSUME NEW c \in Caller, Only(c), NEW n \in Nat,
           n > 0, Len(stack[c]) = n, stack[c] \in Seq(Frame), stack'[c] = Tail(stack[c])
    PROVE  Ends(<<c, n>>)
<1>1. /\ Len(Tail(stack[c])) = Len(stack[c]) - 1
      /\ \A i \in 1..Len(Tail(stack[c])) : Tail(stack[c])[i] = stack[c][i + 1]
  <2>1. stack[c] # <<>>
    BY EmptySeq
  <2> QED
    BY <2>1, Popped
<1>2. Len(stack'[c]) = n - 1
  BY <1>1
<1>3. \A i \in 1..(n - 1) : stack'[c][i] = stack[c][i + 1]
  BY <1>1, <1>2
<1>4. OpenCalls' = OpenCalls \ {<<c, n>>}
  <2> DEFINE S == OpenCalls \ {<<c, n>>}
  <2>1. \A p \in S : p = <<p[1], p[2]>>
    BY OpenPairs
  <2>2. ASSUME NEW d, NEW k  PROVE <<d, k>> \in OpenCalls' <=> <<d, k>> \in S
    <3>1. CASE d = c
      <4>1. k \in 1..(n - 1) <=> k \in 1..n /\ k # n
        OBVIOUS
      <4>2. <<d, k>> = <<c, n>> <=> k = n
        BY <3>1
      <4>3. <<d, k>> \in OpenCalls' <=> k \in 1..(n - 1)
        BY <3>1, <1>2, Open
      <4>4. <<d, k>> \in OpenCalls <=> k \in 1..n
        BY <3>1, Open
      <4> QED
        BY <4>1, <4>2, <4>3, <4>4
    <3>2. CASE d # c /\ d \in Caller
      BY <3>2, OthersOpen
    <3>3. CASE d \notin Caller
      BY <3>3, Open
    <3> QED
      BY <3>1, <3>2, <3>3
  <2> HIDE DEF S
  <2>3. OpenCalls' = S
    BY <2>1, <2>2, OpenIsSame
  <2> QED
    BY <2>3 DEF S
<1>5. ASSUME NEW p \in OpenCalls \ {<<c, n>>}  PROVE FrameOf(p)' = FrameOf(p)
  <2>1. PICK d, k : p = <<d, k>> /\ d \in Caller /\ k \in 1..Len(stack[d])
    BY OpenPairs, Open
  <2>2. CASE d # c
    BY <2>1, <2>2, OthersOpen
  <2>3. CASE d = c
    <3>1. k # n /\ k \in Nat /\ k > 0 /\ k < n /\ p[1] = c /\ p[2] = k
      BY <2>1, <2>3
    <3>2. n - k \in 1..(n - 1)
      BY <3>1
    <3>3. stack'[c][n - k] = stack[c][n - k + 1]
      BY <3>2, <1>3
    <3>4. n - k + 1 = n + 1 - k /\ (n - 1) + 1 - k = n - k
      BY <3>1
    <3> QED
      BY <3>1, <3>3, <3>4, <1>2 DEF FrameOf
  <2> QED
    BY <2>2, <2>3
<1> QED
  BY <1>4, <1>5 DEF Ends

LEMMA Effects ==
    ASSUME NEW t, NEW f, Becomes(t, f)
    PROVE  /\ f.pc = "run" => Reading' = Reading \cup {t}
           /\ f.pc # "run" => Reading' = Reading \ {t}
           /\ \A id : /\ Owns(f, id) => Owners(id)' = Owners(id) \cup {t}
                      /\ ~Owns(f, id) => Owners(id)' = Owners(id) \ {t}
<1>1. /\ OpenCalls' = OpenCalls \cup {t} /\ FrameOf(t)' = f
      /\ \A p \in OpenCalls \ {t} : FrameOf(p)' = FrameOf(p)
  BY DEF Becomes
<1>2. /\ f.pc = "run" => Reading' = Reading \cup {t}
      /\ f.pc # "run" => Reading' = Reading \ {t}
  BY <1>1 DEF Reading
<1>3. ASSUME NEW id
      PROVE  /\ Owns(f, id) => Owners(id)' = Owners(id) \cup {t}
             /\ ~Owns(f, id) => Owners(id)' = Owners(id) \ {t}
  BY <1>1 DEF Owners
<1> QED
  BY <1>2, <1>3

LEMMA EndEffects ==
    ASSUME NEW t, Ends(t)
    PROVE  Reading' = Reading \ {t} /\ \A id : Owners(id)' = Owners(id) \ {t}
<1>1. Reading' = Reading \ {t}
  BY DEF Reading, Ends
<1>2. ASSUME NEW id  PROVE Owners(id)' = Owners(id) \ {t}
  BY DEF Owners, Ends
<1> QED
  BY <1>1, <1>2

LEMMA TopIs ==
    ASSUME TypeOK, NEW c \in Caller, stack[c] # <<>>, NEW t, t = Top(c)
    PROVE  /\ t \in OpenCalls /\ FrameOf(t) = Head(stack[c])
           /\ Head(stack[c]) \in Frame
           /\ t \in Reading <=> Head(stack[c]).pc = "run"
           /\ \A id : t \in Owners(id) <=> Owns(Head(stack[c]), id)
<1>1. /\ stack[c] \in Seq(Frame) /\ Head(stack[c]) = stack[c][1]
      /\ Len(stack[c]) \in Nat \ {0} /\ stack[c][1] \in Frame
  <2>1. stack[c] \in Seq(Frame)
    BY DEF TypeOK
  <2> QED
    BY <2>1, Popped
<1>2. t \in OpenCalls
  BY <1>1, Open DEF Top
<1>3. FrameOf(t) = Head(stack[c])
  <2>1. Len(stack[c]) + 1 - Len(stack[c]) = 1
    BY <1>1
  <2> QED
    BY <1>1, <2>1 DEF Top, FrameOf
<1> QED
  BY <1>1, <1>2, <1>3 DEF Reading, Owners

LEMMA RenewedTop ==
    ASSUME TypeOK, NEW c \in Caller, NEW f, Renews(c, f), NEW t, t = Top(c)
    PROVE  Becomes(t, f)
<1>1. /\ Only(c) /\ stack'[c][1] = f
      /\ Len(stack'[c]) = Len(stack[c]) /\ Len(stack[c]) \in Nat \ {0}
      /\ \A i \in 2..Len(stack[c]) : stack'[c][i] = stack[c][i]
  BY Renewed
<1> DEFINE n == Len(stack[c])
<1>2. \A i \in 2..n : Len(stack[c]) - n + i = i
  BY <1>1
<1>3. Below(c, n)
  BY <1>1, <1>2 DEF Below
<1>4. n \in Nat /\ n > 0 /\ Len(stack[c]) = n /\ Len(stack'[c]) = n
  BY <1>1
<1>5. t = <<c, n>>
  BY DEF Top
<1> HIDE DEF n
<1> QED
  BY <1>1, <1>3, <1>4, <1>5, BecomesIf

LEMMA PoppedTop ==
    ASSUME TypeOK, NEW c \in Caller, stack[c] # <<>>, Pop(c), NEW t, t = Top(c)
    PROVE  Ends(t)
<1>1. stack[c] \in Seq(Frame) /\ stack'[c] = Tail(stack[c]) /\ Only(c)
  BY DEF TypeOK, Pop, Only
<1>2. Len(stack[c]) \in Nat /\ Len(stack[c]) > 0
  BY <1>1, Popped
<1> QED
  BY <1>1, <1>2, EndsIf DEF Top

\* A frame that holds the same locks in place of the top.
LEMMA SameLocks ==
    ASSUME TypeOK, NEW c \in Caller, NEW f, Renews(c, f),
           f.pc = "run" <=> Head(stack[c]).pc = "run",
           \A id : Owns(f, id) <=> Owns(Head(stack[c]), id)
    PROVE  Reading' = Reading /\ \A id : Owners(id)' = Owners(id)
<1>0. PICK t : t = Top(c)
  OBVIOUS
<1>1. Becomes(t, f)
  BY <1>0, RenewedTop
<1>2. /\ t \in Reading <=> Head(stack[c]).pc = "run"
      /\ \A id : t \in Owners(id) <=> Owns(Head(stack[c]), id)
  BY <1>0, TopIs DEF Renews
<1>3. /\ f.pc = "run" => Reading' = Reading \cup {t}
      /\ f.pc # "run" => Reading' = Reading \ {t}
      /\ \A id : /\ Owns(f, id) => Owners(id)' = Owners(id) \cup {t}
                 /\ ~Owns(f, id) => Owners(id)' = Owners(id) \ {t}
  BY <1>1, Effects
<1>4. Reading' = Reading
  BY <1>2, <1>3
<1>5. ASSUME NEW id  PROVE Owners(id)' = Owners(id)
  BY <1>2, <1>3
<1> QED
  BY <1>4, <1>5

\* A step that takes and gives back no lock, unless On has waited for the last reader.
LEMMA NothingTaken ==
    ASSUME LocksOK, NEW c \in Caller, Only(c), readers' = readers, locked' = locked,
           Reading' = Reading, \A id : Owners(id)' = Owners(id),
           At(c, "store")' => readers = 0
    PROVE  LocksOK'
<1>1. ASSUME NEW d \in Caller, At(d, "store")'  PROVE readers' = 0
  <2>1. CASE d = c
    BY <1>1, <2>1
  <2>2. CASE d # c
    BY <1>1, <2>2, OthersStay DEF LocksOK, LocksHaveOwners
  <2> QED
    BY <2>1, <2>2
<1>2. readers' = Cardinality(Reading')
  BY DEF LocksOK, LocksHaveOwners
<1>3. \A id \in Id : /\ id \in locked' <=> Owners(id)' # {}
                     /\ \A p, q \in Owners(id)' : p = q
  BY DEF LocksOK, LocksHaveOwners
<1>4. LocksHaveOwners'
  BY <1>1, <1>2, <1>3 DEF LocksHaveOwners
<1>5. IsFiniteSet(Reading')
  BY DEF LocksOK
<1> QED
  BY <1>4, <1>5 DEF LocksOK

LEMMA BeginsLocks ==
    ASSUME TypeOK, LocksOK, NEW c \in Caller, On(c) \/ Call(c)
    PROVE  LocksOK'
<1>1. PICK f \in Frame : /\ f.pc \in {"want", "lock", "between"}
                         /\ \A id \in Id : ~Owns(f, id)
                         /\ stack'[c] = <<f>> \o <<>>
  BY Begins
<1>2. /\ Only(c) /\ stack[c] = <<>> /\ UNCHANGED <<readers, locked>>
      /\ stack' \in [Caller -> Seq(Frame)]
  BY Begins
<1>3. <<>> \in Seq(Frame) /\ Len(<<>>) = 0
  BY EmptySeq
<1>4. Head(stack'[c]) = f /\ Len(stack'[c]) = 1 /\ stack'[c][1] = f
  BY <1>1, <1>3, Pushed
<1>5. Below(c, 1)
  BY DEF Below
<1>6. Becomes(<<c, 1>>, f)
  <2>1. 1 \in Nat /\ 1 > 0 /\ Len(stack[c]) = 1 - 1
    BY <1>2, <1>3
  <2> QED
    BY <2>1, <1>2, <1>4, <1>5, BecomesIf
<1>7. <<c, 1>> \notin OpenCalls
  BY <1>2, <1>3, Open
<1>8. \A id : ~Owns(f, id)
  BY <1>1 DEF Owns, Frame, OnFrame, CallFrame
<1>9. Reading' = Reading \ {<<c, 1>>} /\ \A id : Owners(id)' = Owners(id) \ {<<c, 1>>}
  BY <1>1, <1>6, <1>8, Effects
<1>10. Reading' = Reading /\ \A id : Owners(id)' = Owners(id)
  BY <1>7, <1>9 DEF Reading, Owners
<1>11. ~At(c, "store")'
  BY <1>1, <1>4 DEF At
<1> QED
  BY <1>2, <1>10, <1>11, NothingTaken

LEMMA AnnounceLocks ==
    ASSUME TypeOK, LocksOK, NEW c \in Caller, Announce(c)
    PROVE  LocksOK'
<1>1. PICK f : Renews(c, f) /\ f.pc = "drain"
  BY AnnounceRenews
<1>2. Head(stack[c]).pc = "want" /\ UNCHANGED <<readers, locked>>
  BY DEF Announce, At
<1>3. Reading' = Reading /\ \A id : Owners(id)' = Owners(id)
  BY <1>1, <1>2, SameLocks DEF Owns
<1>4. Only(c) /\ ~At(c, "store")'
  BY <1>1, Renewed DEF At
<1> QED
  BY <1>2, <1>3, <1>4, NothingTaken

LEMMA DrainedLocks ==
    ASSUME TypeOK, LocksOK, NEW c \in Caller, Drained(c)
    PROVE  LocksOK'
<1>1. PICK f : Renews(c, f) /\ f.pc = "store"
  BY DrainedRenews
<1>2. /\ Head(stack[c]).pc = "drain" /\ readers = 0
      /\ UNCHANGED <<readers, locked>>
  BY DEF Drained, At
<1>3. Reading' = Reading /\ \A id : Owners(id)' = Owners(id)
  BY <1>1, <1>2, SameLocks DEF Owns
<1>4. Only(c)
  BY <1>1, Renewed
<1> QED
  BY <1>2, <1>3, <1>4, NothingTaken

LEMMA StoreLocks ==
    ASSUME TypeOK, NestingOK, LocksOK, NEW c \in Caller, Store(c)
    PROVE  LocksOK'
<1>1. stack[c] # <<>> /\ Pop(c) /\ Head(stack[c]).pc = "store"
      /\ UNCHANGED <<readers, locked>>
  BY DEF Store, At
<1>0. PICK t : t = Top(c)
  OBVIOUS
<1>2. Reading' = Reading \ {t} /\ \A id : Owners(id)' = Owners(id) \ {t}
  BY <1>0, <1>1, PoppedTop, EndEffects
<1>3. t \notin Reading /\ \A id : t \notin Owners(id)
  BY <1>0, <1>1, TopIs DEF Owns
<1>4. Reading' = Reading
  BY <1>2, <1>3
<1>5. ASSUME NEW id  PROVE Owners(id)' = Owners(id)
  BY <1>2, <1>3
<1>6. Only(c) /\ ~At(c, "store")'
  BY <1>1, TopPopped
<1> QED
  BY <1>1, <1>4, <1>5, <1>6, NothingTaken

LEMMA LockLocks ==
    ASSUME TypeOK, LocksOK, NEW c \in Caller, Lock(c)
    PROVE  LocksOK'
<1> DEFINE it == Head(stack[c]).id
<1>1. PICK f : /\ Renews(c, f) /\ f.pc = "between"
               /\ \A id : Owns(f, id) <=> id = it
  BY LockRenews
<1>2. Head(stack[c]).pc = "lock"
  BY LockRenews
<1>3. it \notin locked /\ locked' = locked \cup {it} /\ readers' = readers
  BY DEF Lock
<1> HIDE DEF it
<1>0. PICK t : t = Top(c)
  OBVIOUS
<1>4. /\ Reading' = Reading \ {t}
      /\ \A id : /\ Owns(f, id) => Owners(id)' = Owners(id) \cup {t}
                 /\ ~Owns(f, id) => Owners(id)' = Owners(id) \ {t}
  <2>1. Becomes(t, f)
    BY <1>0, <1>1, RenewedTop
  <2> QED
    BY <1>1, <2>1, Effects
<1>5. t \notin Reading /\ \A id : t \notin Owners(id)
  BY <1>0, <1>1, <1>2, TopIs DEF Renews, Owns
<1>6. Reading' = Reading
  BY <1>4, <1>5
<1>7. \A id \in Id : /\ id \in locked' <=> Owners(id)' # {}
                     /\ \A p, q \in Owners(id)' : p = q
  <2> SUFFICES ASSUME NEW id \in Id
               PROVE  /\ id \in locked' <=> Owners(id)' # {}
                      /\ \A p, q \in Owners(id)' : p = q
    OBVIOUS
  <2>1. /\ id \in locked <=> Owners(id) # {}
        /\ \A p, q \in Owners(id) : p = q
    BY DEF LocksOK, LocksHaveOwners
  <2>2. CASE id = it
    <3>1. Owners(id) = {} /\ Owners(id)' = {t}
      BY <2>1, <2>2, <1>1, <1>3, <1>4
    <3> QED
      BY <2>2, <3>1, <1>3
  <2>3. CASE id # it
    <3>1. Owners(id)' = Owners(id)
      BY <2>3, <1>1, <1>4, <1>5
    <3> QED
      BY <2>1, <2>3, <3>1, <1>3
  <2> QED
    BY <2>2, <2>3
<1>8. \A d \in Caller : At(d, "store")' => readers' = 0
  <2> SUFFICES ASSUME NEW d \in Caller, At(d, "store")'  PROVE readers' = 0
    OBVIOUS
  <2>1. Only(c) /\ ~At(c, "store")'
    BY <1>1, Renewed DEF At
  <2> QED
    BY <2>1, <1>3, OthersStay DEF LocksOK, LocksHaveOwners
<1>9. readers' = Cardinality(Reading') /\ IsFiniteSet(Reading')
  BY <1>3, <1>6 DEF LocksOK, LocksHaveOwners
<1>10. LocksHaveOwners'
  BY <1>7, <1>8, <1>9 DEF LocksHaveOwners
<1> QED
  BY <1>9, <1>10 DEF LocksOK

LEMMA ReturnLocks ==
    ASSUME TypeOK, NestingOK, LocksOK, NEW c \in Caller, Return(c)
    PROVE  LocksOK'
<1> DEFINE top == Head(stack[c])
<1>0. PICK t : t = Top(c)
  OBVIOUS
<1>1. stack[c] # <<>> /\ Pop(c) /\ top.pc = "between"
      /\ locked' = locked \ Held(<<top>>) /\ readers' = readers
  BY DEF Return, At
<1>2. Reading' = Reading \ {t} /\ \A id : Owners(id)' = Owners(id) \ {t}
  BY <1>0, <1>1, PoppedTop, EndEffects
<1>3. t \notin Reading /\ \A id : t \in Owners(id) <=> Owns(top, id)
  BY <1>0, <1>1, TopIs
<1>4. \A id : id \in Held(<<top>>) <=> Owns(top, id)
  <2> DEFINE s == <<top>>
  <2>1. DOMAIN s = {1} /\ s[1] = top
    OBVIOUS
  <2> HIDE DEF s, top
  <2>2. ASSUME NEW id  PROVE id \in Held(s) <=> Owns(top, id)
    BY <2>1 DEF Held, Owns
  <2> QED
    BY <2>2 DEF s
<1> HIDE DEF top
<1>5. Reading' = Reading
  BY <1>2, <1>3
<1>6. \A id \in Id : /\ id \in locked' <=> Owners(id)' # {}
                     /\ \A p, q \in Owners(id)' : p = q
  <2> SUFFICES ASSUME NEW id \in Id
               PROVE  /\ id \in locked' <=> Owners(id)' # {}
                      /\ \A p, q \in Owners(id)' : p = q
    OBVIOUS
  <2>1. /\ id \in locked <=> Owners(id) # {}
        /\ \A p, q \in Owners(id) : p = q
    BY DEF LocksOK, LocksHaveOwners
  <2>2. CASE Owns(top, id)
    <3>1. Owners(id)' = {}
      BY <2>1, <2>2, <1>2, <1>3
    <3> QED
      BY <2>2, <3>1, <1>1, <1>4
  <2>3. CASE ~Owns(top, id)
    <3>1. Owners(id)' = Owners(id)
      BY <2>3, <1>2, <1>3
    <3> QED
      BY <2>1, <2>3, <3>1, <1>1, <1>4
  <2> QED
    BY <2>2, <2>3
<1>7. \A d \in Caller : At(d, "store")' => readers' = 0
  <2> SUFFICES ASSUME NEW d \in Caller, At(d, "store")'  PROVE readers' = 0
    OBVIOUS
  <2>1. Only(c) /\ ~At(c, "store")'
    BY <1>1, TopPopped
  <2> QED
    BY <2>1, <1>1, OthersStay DEF LocksOK, LocksHaveOwners
<1>8. readers' = Cardinality(Reading') /\ IsFiniteSet(Reading')
  BY <1>1, <1>5 DEF LocksOK, LocksHaveOwners
<1>9. LocksHaveOwners'
  BY <1>6, <1>7, <1>8 DEF LocksHaveOwners
<1> QED
  BY <1>8, <1>9 DEF LocksOK

\* A step that leaves the mutexes and their owners alone.
LEMMA ReadersChange ==
    ASSUME LocksOK, locked' = locked, \A id : Owners(id)' = Owners(id),
           IsFiniteSet(Reading'), readers' = Cardinality(Reading'),
           \A d \in Caller : ~At(d, "store")'
    PROVE  LocksOK'
<1>1. \A id \in Id : /\ id \in locked' <=> Owners(id)' # {}
                     /\ \A p, q \in Owners(id)' : p = q
  BY DEF LocksOK, LocksHaveOwners
<1>2. LocksHaveOwners'
  BY <1>1 DEF LocksHaveOwners
<1> QED
  BY <1>2 DEF LocksOK

LEMMA RLockLocks ==
    ASSUME Inv, LocksOK, NEW c \in Caller, RLock(c)
    PROVE  LocksOK'
<1>0. PICK t : t = Top(c)
  OBVIOUS
<1>1. PICK f : /\ Renews(c, f) /\ f.pc = "run"
               /\ \A id : Owns(f, id) <=> Owns(Head(stack[c]), id)
  BY RLockRenews DEF Inv
<1>2. Head(stack[c]).pc = "between"
  BY RLockRenews DEF Inv
<1>3. /\ Reading' = Reading \cup {t}
      /\ \A id : /\ Owns(f, id) => Owners(id)' = Owners(id) \cup {t}
                 /\ ~Owns(f, id) => Owners(id)' = Owners(id) \ {t}
  <2>1. Becomes(t, f)
    BY <1>0, <1>1, RenewedTop DEF Inv
  <2> QED
    BY <1>1, <2>1, Effects
<1>4. t \notin Reading /\ \A id : t \in Owners(id) <=> Owns(f, id)
  BY <1>0, <1>1, <1>2, TopIs DEF Inv, Renews
<1>5. ASSUME NEW id  PROVE Owners(id)' = Owners(id)
  BY <1>3, <1>4
<1>6. readers' = readers + 1 /\ locked' = locked /\ writer = NoCaller
  BY DEF RLock
<1>7. IsFiniteSet(Reading') /\ readers' = Cardinality(Reading')
  BY <1>3, <1>4, <1>6, FS_AddElement DEF LocksOK, LocksHaveOwners
<1>8. \A d \in Caller : ~At(d, "store")'
  <2> SUFFICES ASSUME NEW d \in Caller, At(d, "store")'  PROVE FALSE
    OBVIOUS
  <2>1. Only(c) /\ ~At(c, "store")'
    BY <1>1, Renewed DEF At, Inv
  <2>2. At(d, "store")
    BY <2>1, OthersStay
  <2> QED
    BY <2>2, <1>6, RegistryAssumption DEF Inv, RegistrationOK
<1> QED
  BY <1>5, <1>6, <1>7, <1>8, ReadersChange

LEMMA RUnlockLocks ==
    ASSUME TypeOK, LocksOK, NEW c \in Caller, RUnlock(c)
    PROVE  LocksOK'
<1>0. PICK t : t = Top(c)
  OBVIOUS
<1>1. PICK f : /\ Renews(c, f) /\ f.pc = "between"
               /\ \A id : Owns(f, id) <=> Owns(Head(stack[c]), id)
  BY RUnlockRenews
<1>2. Head(stack[c]).pc = "run"
  BY RUnlockRenews
<1>3. /\ Reading' = Reading \ {t}
      /\ \A id : /\ Owns(f, id) => Owners(id)' = Owners(id) \cup {t}
                 /\ ~Owns(f, id) => Owners(id)' = Owners(id) \ {t}
  <2>1. Becomes(t, f)
    BY <1>0, <1>1, RenewedTop
  <2> QED
    BY <1>1, <2>1, Effects
<1>4. t \in Reading /\ \A id : t \in Owners(id) <=> Owns(f, id)
  BY <1>0, <1>1, <1>2, TopIs DEF Renews
<1>5. ASSUME NEW id  PROVE Owners(id)' = Owners(id)
  BY <1>3, <1>4
<1>6. readers' = readers - 1 /\ locked' = locked
  BY DEF RUnlock
<1>7. IsFiniteSet(Reading') /\ readers' = Cardinality(Reading')
  BY <1>3, <1>4, <1>6, FS_RemoveElement DEF LocksOK, LocksHaveOwners
<1>8. \A d \in Caller : ~At(d, "store")'
  <2> SUFFICES ASSUME NEW d \in Caller, At(d, "store")'  PROVE FALSE
    OBVIOUS
  <2>1. Only(c) /\ ~At(c, "store")'
    BY <1>1, Renewed DEF At
  <2>2. At(d, "store")
    BY <2>1, OthersStay
  <2>3. Cardinality(Reading) = 0
    BY <2>2 DEF LocksOK, LocksHaveOwners
  <2> QED
    BY <2>3, <1>4, FS_EmptySet DEF LocksOK
<1> QED
  BY <1>5, <1>6, <1>7, <1>8, ReadersChange

LEMMA HandlerReturnsLocks ==
    ASSUME TypeOK, LocksOK, NEW c \in Caller, HandlerReturns(c)
    PROVE  LocksOK'
<1> DEFINE f == [Head(stack[c]) EXCEPT !.run = Tail(@)]
<1>1. /\ f \in Frame /\ f.pc = "run" /\ stack[c] # <<>>
      /\ \A id : Owns(f, id) <=> Owns(Head(stack[c]), id)
  BY HandlerReturnsRenews DEF HandlerReturns
<1>2. Renews(c, f)
  BY <1>1 DEF HandlerReturns, Goto, Renews
<1>3. Head(stack[c]).pc = "run" /\ UNCHANGED <<readers, locked>>
  BY DEF HandlerReturns, At
<1> HIDE DEF f
<1>4. Reading' = Reading /\ \A id : Owners(id)' = Owners(id)
  BY <1>1, <1>2, <1>3, SameLocks
<1>5. Only(c) /\ ~At(c, "store")'
  BY <1>1, <1>2, Renewed DEF At
<1> QED
  BY <1>3, <1>4, <1>5, NothingTaken

\* A goroutine whose handler calls: its top becomes f, and a call is above it.
Sunk(c, n) == \A i \in 3..(n + 1) : stack'[c][i] = stack[c][i - 1]

LEMMA CallAbove ==
    ASSUME TypeOK, NEW c \in Caller, Only(c), NEW n \in Nat, n > 0, Len(stack[c]) = n,
           NEW f, NEW new, Len(stack'[c]) = n + 1, stack'[c][1] = new, stack'[c][2] = f,
           Sunk(c, n), NEW t, t = Top(c)
    PROVE  \E u : /\ OpenCalls' = OpenCalls \cup {u} /\ u \notin OpenCalls
                  /\ FrameOf(u)' = new /\ FrameOf(t)' = f
                  /\ \A p \in OpenCalls \ {t} : FrameOf(p)' = FrameOf(p)
<1>1. OpenCalls' = OpenCalls \cup {<<c, n + 1>>}
  <2> DEFINE S == OpenCalls \cup {<<c, n + 1>>}
  <2>1. \A p \in S : p = <<p[1], p[2]>>
    BY OpenPairs
  <2>2. ASSUME NEW d, NEW k  PROVE <<d, k>> \in OpenCalls' <=> <<d, k>> \in S
    <3>1. CASE d = c
      <4>1. k \in 1..(n + 1) <=> k \in 1..n \/ k = n + 1
        OBVIOUS
      <4>2. <<d, k>> = <<c, n + 1>> <=> k = n + 1
        BY <3>1
      <4>3. <<d, k>> \in OpenCalls' <=> k \in 1..(n + 1)
        BY <3>1, Open
      <4>4. <<d, k>> \in OpenCalls <=> k \in 1..n
        BY <3>1, Open
      <4> QED
        BY <4>1, <4>2, <4>3, <4>4
    <3>2. CASE d # c /\ d \in Caller
      BY <3>2, OthersOpen
    <3>3. CASE d \notin Caller
      BY <3>3, Open
    <3> QED
      BY <3>1, <3>2, <3>3
  <2> HIDE DEF S
  <2>3. OpenCalls' = S
    BY <2>1, <2>2, OpenIsSame
  <2> QED
    BY <2>3 DEF S
<1>2. <<c, n + 1>> \notin OpenCalls
  BY Open
<1>3. FrameOf(<<c, n + 1>>)' = new
  <2>1. (n + 1) + 1 - (n + 1) = 1
    OBVIOUS
  <2> QED
    BY <2>1 DEF FrameOf
<1>4. FrameOf(<<c, n>>)' = f
  <2>1. (n + 1) + 1 - n = 2
    OBVIOUS
  <2> QED
    BY <2>1 DEF FrameOf
<1>5. ASSUME NEW p \in OpenCalls \ {<<c, n>>}  PROVE FrameOf(p)' = FrameOf(p)
  <2>1. PICK d, k : p = <<d, k>> /\ d \in Caller /\ k \in 1..Len(stack[d])
    BY OpenPairs, Open
  <2>2. CASE d # c
    BY <2>1, <2>2, OthersOpen
  <2>3. CASE d = c
    <3>1. k \in 1..n /\ k # n
      BY <2>1, <2>3
    <3>2. (n + 1) + 1 - k \in 3..(n + 1) /\ ((n + 1) + 1 - k) - 1 = n + 1 - k
      BY <3>1
    <3>3. stack'[c][(n + 1) + 1 - k] = stack[c][n + 1 - k]
      BY <3>2 DEF Sunk
    <3>4. p[1] = c /\ p[2] = k
      BY <2>1, <2>3
    <3> QED
      BY <3>3, <3>4 DEF FrameOf
  <2> QED
    BY <2>2, <2>3
<1>6. t = <<c, n>>
  BY DEF Top
<1> DEFINE u == <<c, n + 1>>
<1>7. OpenCalls' = OpenCalls \cup {u} /\ u \notin OpenCalls /\ FrameOf(u)' = new
  BY <1>1, <1>2, <1>3
<1>8. FrameOf(t)' = f /\ \A p \in OpenCalls \ {t} : FrameOf(p)' = FrameOf(p)
  BY <1>4, <1>5, <1>6
<1> HIDE DEF u
<1> QED
  BY <1>7, <1>8

LEMMA HandlerCallsLocks ==
    ASSUME TypeOK, LocksOK, NEW c \in Caller, HandlerCalls(c)
    PROVE  LocksOK'
<1> DEFINE n == Len(stack[c])
<1>0. PICK t : t = Top(c)
  OBVIOUS
<1>1. PICK f, new :
        /\ f.pc = "run" /\ new.pc \in {"lock", "between"}
        /\ \A id : Owns(f, id) <=> Owns(Head(stack[c]), id)
        /\ \A id : ~Owns(new, id)
        /\ stack[c] # <<>> /\ Only(c)
        /\ Len(stack'[c]) = n + 1 /\ n \in Nat \ {0}
        /\ Head(stack'[c]) = new /\ stack'[c][1] = new /\ stack'[c][2] = f
        /\ Sunk(c, n)
  BY HandlerCallsStacks DEF Sunk
<1>2. Len(stack[c]) = n /\ n \in Nat /\ n > 0
  BY <1>1
<1> HIDE DEF n
<1>3. PICK u : /\ OpenCalls' = OpenCalls \cup {u} /\ u \notin OpenCalls
               /\ FrameOf(u)' = new /\ FrameOf(t)' = f
               /\ \A p \in OpenCalls \ {t} : FrameOf(p)' = FrameOf(p)
  BY <1>0, <1>1, <1>2, CallAbove
<1>4. Head(stack[c]).pc = "run" /\ UNCHANGED <<readers, locked>>
  BY DEF HandlerCalls, At
<1>5. t \in OpenCalls /\ FrameOf(t) = Head(stack[c])
  BY <1>0, <1>1, TopIs
<1>6. Reading' = Reading
  <2>1. new.pc # "run" /\ f.pc = "run" /\ FrameOf(t).pc = "run"
    BY <1>1, <1>4, <1>5
  <2>2. ASSUME NEW p  PROVE p \in Reading' <=> p \in Reading
    <3>1. CASE p = t
      BY <3>1, <2>1, <1>3, <1>5 DEF Reading
    <3>2. CASE p = u
      BY <3>2, <2>1, <1>3 DEF Reading
    <3>3. CASE p # t /\ p # u
      BY <3>3, <1>3 DEF Reading
    <3> QED
      BY <3>1, <3>2, <3>3
  <2> QED
    BY <2>2
<1>7. ASSUME NEW id  PROVE Owners(id)' = Owners(id)
  <2>1. ~Owns(new, id) /\ (Owns(f, id) <=> Owns(FrameOf(t), id))
    BY <1>1, <1>5
  <2>2. ASSUME NEW p  PROVE p \in Owners(id)' <=> p \in Owners(id)
    <3>1. CASE p = t
      BY <3>1, <2>1, <1>3, <1>5 DEF Owners
    <3>2. CASE p = u
      BY <3>2, <2>1, <1>3 DEF Owners
    <3>3. CASE p # t /\ p # u
      BY <3>3, <1>3 DEF Owners
    <3> QED
      BY <3>1, <3>2, <3>3
  <2> QED
    BY <2>2
<1>8. ~At(c, "store")'
  BY <1>1 DEF At
<1> QED
  BY <1>1, <1>4, <1>6, <1>7, <1>8, NothingTaken

LEMMA HandlerPanicsLocks ==
    ASSUME TypeOK, LocksOK, NEW c \in Caller, HandlerPanics(c)
    PROVE  LocksOK'
<1> DEFINE running == {i \in DOMAIN stack[c] : stack[c][i].pc = "run"}
           mine == {p \in Reading : p[1] = c}
           n == Len(stack[c])
<1>1. /\ stack' = [stack EXCEPT ![c] = <<>>] /\ Only(c) /\ stack'[c] = <<>>
      /\ stack[c] \in Seq(Frame) /\ DOMAIN stack[c] = 1..n /\ n \in Nat
      /\ Len(stack'[c]) = 0
  <2>1. stack[c] \in Seq(Frame) /\ stack \in [Caller -> Seq(Frame)]
    BY DEF TypeOK
  <2> QED
    BY <2>1, LenProperties, EmptySeq DEF HandlerPanics, Only
<1>2. /\ readers' = readers - Cardinality(running)
      /\ locked' = locked \ Held(stack[c])
  BY DEF HandlerPanics
<1>3. /\ \A p \in OpenCalls' : p \in OpenCalls /\ p[1] # c /\ FrameOf(p)' = FrameOf(p)
      /\ \A p \in OpenCalls : p[1] # c => p \in OpenCalls' /\ FrameOf(p)' = FrameOf(p)
  <2>1. ASSUME NEW p \in OpenCalls'
        PROVE  p \in OpenCalls /\ p[1] # c /\ FrameOf(p)' = FrameOf(p)
    <3>1. PICK d, k : p = <<d, k>> /\ d \in Caller /\ k \in 1..Len(stack'[d])
      BY OpenPairs, Open
    <3>2. d # c
      BY <3>1, <1>1
    <3> QED
      BY <3>1, <3>2, <1>1, OthersOpen
  <2>2. ASSUME NEW p \in OpenCalls, p[1] # c
        PROVE  p \in OpenCalls' /\ FrameOf(p)' = FrameOf(p)
    <3>1. PICK d, k : p = <<d, k>> /\ d \in Caller /\ k \in 1..Len(stack[d])
      BY OpenPairs, Open
    <3> QED
      BY <3>1, <2>2, <1>1, OthersOpen
  <2> QED
    BY <2>1, <2>2
<1>4. \A i \in 1..n : <<c, n + 1 - i>> \in OpenCalls /\ FrameOf(<<c, n + 1 - i>>) = stack[c][i]
  <2> SUFFICES ASSUME NEW i \in 1..n
               PROVE  <<c, n + 1 - i>> \in OpenCalls /\ FrameOf(<<c, n + 1 - i>>) = stack[c][i]
    OBVIOUS
  <2>1. n + 1 - i \in 1..n /\ n + 1 - (n + 1 - i) = i
    BY <1>1
  <2> QED
    BY <2>1, Open DEF FrameOf
<1>5. ASSUME NEW p \in OpenCalls, p[1] = c
      PROVE  \E i \in 1..n : p = <<c, n + 1 - i>>
  <2>1. PICK d, k : p = <<d, k>> /\ d \in Caller /\ k \in 1..Len(stack[d])
    BY OpenPairs, Open
  <2>2. n + 1 - k \in 1..n /\ n + 1 - (n + 1 - k) = k /\ d = c
    BY <2>1, <1>5, <1>1
  <2> QED
    BY <2>1, <2>2
<1>6. mine \in SUBSET Reading /\ Reading' = Reading \ mine
  BY <1>3 DEF Reading
<1>7. IsFiniteSet(Reading) /\ readers = Cardinality(Reading)
  BY DEF LocksOK, LocksHaveOwners
<1>8. Cardinality(running) = Cardinality(mine) /\ IsFiniteSet(mine)
  <2> DEFINE at == [i \in running |-> <<c, n + 1 - i>>]
  <2>1. \A i \in running : <<c, n + 1 - i>> \in mine
    BY <1>1, <1>4 DEF Reading
  <2>2. \A i, j \in running : <<c, n + 1 - i>> = <<c, n + 1 - j>> => i = j
    <3>1. \A i, j \in 1..n : n + 1 - i = n + 1 - j => i = j
      BY <1>1
    <3> QED
      BY <3>1, <1>1
  <2>3. \A p \in mine : \E i \in running : p = <<c, n + 1 - i>>
    BY <1>1, <1>4, <1>5 DEF Reading
  <2>4. IsFiniteSet(running)
    <3>1. IsFiniteSet(1..n)
      BY <1>1, FS_Interval
    <3>2. running \in SUBSET (1..n)
      BY <1>1
    <3> HIDE DEF running, n
    <3> QED
      BY <3>1, <3>2, FS_Subset
  <2> HIDE DEF running, mine, n
  <2>5. at \in [running -> mine] /\ \A i \in running : at[i] = <<c, n + 1 - i>>
    BY <2>1
  <2> HIDE DEF at
  <2>6. at \in Bijection(running, mine)
    BY <2>2, <2>3, <2>5 DEF Bijection, Injection, Surjection, IsInjective
  <2> QED
    BY <2>4, <2>6, FS_Bijection DEF ExistsBijection
<1> HIDE DEF running, mine
<1>9. IsFiniteSet(Reading') /\ readers' = Cardinality(Reading')
  <2>1. Reading' \cup mine = Reading /\ Reading' \cap mine = {}
    BY <1>6
  <2>2. IsFiniteSet(Reading')
    BY <1>6, <1>7, FS_Subset
  <2>3. Cardinality(Reading') \in Nat /\ Cardinality(mine) \in Nat
    BY <2>2, <1>8, FS_CardinalityType
  <2>4. Cardinality(Reading' \cup mine)
           = Cardinality(Reading') + Cardinality(mine) - Cardinality(Reading' \cap mine)
    BY <2>2, <1>8, FS_Union
  <2>5. Cardinality(Reading' \cap mine) = 0
    BY <2>1, FS_EmptySet
  <2>6. Cardinality(Reading) = Cardinality(Reading') + Cardinality(mine)
    <3>1. Cardinality(Reading' \cup mine) = Cardinality(Reading)
      BY ONLY <2>1
    <3>2. Cardinality(Reading' \cup mine) = Cardinality(Reading') + Cardinality(mine)
      BY <2>3, <2>4, <2>5
    <3> QED
      BY <3>1, <3>2
  <2>7. readers' = Cardinality(Reading) - Cardinality(mine)
    BY <1>2, <1>7, <1>8
  <2>8. readers' = Cardinality(Reading')
    BY <2>3, <2>6, <2>7
  <2> QED
    BY <2>2, <2>8
<1>10. \A id \in Id : /\ id \in locked' <=> Owners(id)' # {}
                      /\ \A p, q \in Owners(id)' : p = q
  <2> SUFFICES ASSUME NEW id \in Id
               PROVE  /\ id \in locked' <=> Owners(id)' # {}
                      /\ \A p, q \in Owners(id)' : p = q
    OBVIOUS
  <2>1. /\ id \in locked <=> Owners(id) # {}
        /\ \A p, q \in Owners(id) : p = q
    BY DEF LocksOK, LocksHaveOwners
  <2>2. Owners(id)' = {p \in Owners(id) : p[1] # c}
    BY <1>3 DEF Owners
  <2>3. id \in Held(stack[c]) <=> \E i \in 1..n : Owns(stack[c][i], id)
    BY <1>1 DEF Held, Owns
  <2>4. id \in Held(stack[c]) <=> \E p \in Owners(id) : p[1] = c
    <3>1. ASSUME NEW i \in 1..n, Owns(stack[c][i], id)
          PROVE  \E p \in Owners(id) : p[1] = c
      <4>1. <<c, n + 1 - i>> \in Owners(id) /\ <<c, n + 1 - i>>[1] = c
        BY <3>1, <1>4 DEF Owners
      <4> QED
        BY <4>1
    <3>2. ASSUME NEW p \in Owners(id), p[1] = c
          PROVE  \E i \in 1..n : Owns(stack[c][i], id)
      <4>1. p \in OpenCalls /\ Owns(FrameOf(p), id)
        BY DEF Owners
      <4>2. PICK i \in 1..n : p = <<c, n + 1 - i>>
        BY <4>1, <3>2, <1>5
      <4> QED
        BY <4>1, <4>2, <1>4
    <3> QED
      BY <2>3, <3>1, <3>2
  <2> QED
    BY <2>1, <2>2, <2>4, <1>2
<1>11. \A d \in Caller : At(d, "store")' => readers' = 0
  <2> SUFFICES ASSUME NEW d \in Caller, At(d, "store")'  PROVE readers' = 0
    OBVIOUS
  <2>1. At(d, "store")
    BY <1>1, OthersStay DEF At
  <2>2. Reading = {}
    BY <2>1, <1>7, FS_EmptySet DEF LocksOK, LocksHaveOwners
  <2> QED
    BY <2>2, <1>6, <1>9, FS_EmptySet
<1>12. LocksHaveOwners'
  BY <1>9, <1>10, <1>11 DEF LocksHaveOwners
<1> QED
  BY <1>9, <1>12 DEF LocksOK

-----------------------------------------------------------------------------
LEMMA InvInit == Init => Inv
<1> SUFFICES ASSUME Init  PROVE Inv
  OBVIOUS
<1>1. <<>> \in Seq(Handler) /\ <<>> \in Seq(Frame) /\ Len(<<>>) = 0
  BY EmptySeq
<1>2. TypeOK /\ \A c \in Caller : stack[c] = <<>>
  BY <1>1 DEF Init, TypeOK
<1> QED
  BY <1>1, <1>2 DEF Inv, NestingOK, RegistrationOK, At

LEMMA InvStep == Inv /\ [Next]_vars => Inv'
<1> SUFFICES ASSUME Inv, [Next]_vars  PROVE Inv'
  OBVIOUS
<1>1. CASE UNCHANGED vars
  BY <1>1 DEF vars, Inv, TypeOK, NestingOK, RegistrationOK, At
<1>2. ASSUME NEW c \in Caller, On(c) \/ Call(c)  PROVE Inv'
  BY <1>2, BeginsInv
<1>3. ASSUME NEW c \in Caller, Advance(c)  PROVE Inv'
  BY <1>3, AnnounceInv, DrainedInv, StoreInv, LockInv, ReturnInv, RLockInv, RUnlockInv,
     HandlerReturnsInv, HandlerCallsInv, HandlerPanicsInv DEF Advance
<1> QED
  BY <1>1, <1>2, <1>3 DEF Next

\* Whatever goroutines register and trigger at once, and whatever their handlers do,
\* no registration is lost or overtaken by a later one: HookRegistry.On holds the
\* lock from the look-up of the list to its replacement (hooks.go:50-54).
THEOREM NoRegistrationLost == Spec => RegistrationsKept
<1>1. Inv /\ [Next]_vars => [\A e \in Events : IsPrefix(handlers[e], handlers'[e])]_vars
  <2> SUFFICES ASSUME Inv, Next
               PROVE  \A e \in Events : IsPrefix(handlers[e], handlers'[e])
    OBVIOUS
  <2>1. PICK c \in Caller : On(c) \/ Call(c) \/ Advance(c)
    BY DEF Next
  <2>2. CASE Store(c)
    BY <2>2, StoreInv
  <2>3. CASE handlers' = handlers
    <3>1. handlers \in [Events -> Seq(Handler)]
      BY DEF Inv, TypeOK
    <3> QED
      BY <2>3, <3>1, LenProperties DEF IsPrefix
  <2>4. Store(c) \/ handlers' = handlers
    BY <2>1 DEF On, Call, Advance, Announce, Drained, Lock, Return, RLock, RUnlock,
       HandlerReturns, HandlerCalls, HandlerPanics
  <2> QED
    BY <2>2, <2>3, <2>4
<1> QED
  BY <1>1, InvInit, InvStep, PTL DEF Spec, RegistrationsKept

LEMMA LocksInit == Init => LocksOK
<1> SUFFICES ASSUME Init  PROVE LocksOK
  OBVIOUS
<1>1. /\ readers = 0 /\ locked = {}
      /\ \A c \in Caller : stack[c] = <<>> /\ Len(stack[c]) = 0
  BY EmptySeq DEF Init
<1>2. OpenCalls = {}
  BY <1>1 DEF OpenCalls
<1>3. Reading = {} /\ \A id : Owners(id) = {}
  BY <1>2 DEF Reading, Owners
<1> QED
  BY <1>1, <1>3, FS_EmptySet DEF LocksOK, LocksHaveOwners

LEMMA LocksStep == Inv /\ LocksOK /\ [Next]_vars => LocksOK'
<1> SUFFICES ASSUME Inv, LocksOK, [Next]_vars  PROVE LocksOK'
  OBVIOUS
<1>1. TypeOK /\ NestingOK
  BY DEF Inv
<1>2. CASE UNCHANGED vars
  BY <1>2 DEF vars, LocksOK, LocksHaveOwners, Reading, Owners, OpenCalls, FrameOf, Owns, At
<1>3. ASSUME NEW c \in Caller, On(c) \/ Call(c)  PROVE LocksOK'
  BY <1>1, <1>3, BeginsLocks
<1>4. ASSUME NEW c \in Caller, Advance(c)  PROVE LocksOK'
  BY <1>1, <1>4, AnnounceLocks, DrainedLocks, StoreLocks, LockLocks, ReturnLocks, RLockLocks,
     RUnlockLocks, HandlerReturnsLocks, HandlerCallsLocks, HandlerPanicsLocks DEF Advance
<1> QED
  BY <1>2, <1>3, <1>4 DEF Next

\* Whatever the handlers do - panic at any depth, call the manager for another transfer
\* or for the one they were told of - no lock is left behind by a call that is over, and
\* none is held by two: the deferred unlocks undo what the calls took
\* (hooks.go:50-51 and 63-64, transfer.go:362-365).
THEOREM NoLockIsLeft == Spec => []LocksHaveOwners
<1>1. LocksOK => LocksHaveOwners
  BY DEF LocksOK
<1> QED
  BY <1>1, InvInit, InvStep, LocksInit, LocksStep, PTL DEF Spec

-----------------------------------------------------------------------------
(* No goroutines wait for each other. *)

\* The handlers in the registry's map, and whether one of them calls the manager.
Registry == {h \in Handler : \E e \in Events : Contains(handlers[e], h)}
Settled == \E h \in Registry : Chains(h)

\* The handler that c is about to register.
Coming(c) == {h \in Handler : Registering(c) /\ Last(Head(stack[c]).run) = h}

\* The handlers that call the manager come last, and until then no calls nest.
ChainsOK ==
    /\ Settled => \A c \in Caller : ~Registering(c)
    /\ \A c, d \in Caller : \A h \in Coming(c) : Chains(h) /\ Registering(d) => c = d
    /\ \A c \in Caller : Len(stack[c]) > 1 => Settled

\* A Trigger runs handlers that are registered.
Runs(f, known) == f.pc = "run" => \A k \in 1..Len(f.run) : f.run[k] \in known
RunsOK == \A c \in Caller : \A i \in 1..Len(stack[c]) : Runs(stack[c][i], Registry)

\* The registry's lock is taken by a registration that will give it back.
WriterOK == writer # NoCaller => At(writer, "drain") \/ At(writer, "store")

\* Handlers call the manager only for transfers of a lower rank.
Downward(rank) ==
    \A h \in Handler, id \in Id : Does[h][id] \in Id => rank[Does[h][id]] < rank[id]

\* So calls that nest are for transfers of ever lower ranks.
Lower(rank, f, g) == rank[f.id] < rank[g.id]
Descends(rank) ==
    \A c \in Caller : \A i, j \in 1..Len(stack[c]) :
        i < j => Lower(rank, stack[c][i], stack[c][j])

OrderOK(rank) == WriterOK /\ ChainsOK /\ RunsOK /\ Descends(rank)

-----------------------------------------------------------------------------
LEMMA RegisteringAt ==
    ASSUME TypeOK, NEW c \in Caller
    PROVE  Registering(c) <=> At(c, "want") \/ At(c, "drain") \/ At(c, "store")
<1>1. CASE stack[c] = <<>>
  BY <1>1 DEF Registering, At
<1>2. CASE stack[c] # <<>>
  <2>1. Head(stack[c]) \in Frame
    <3>1. stack[c] \in Seq(Frame)
      BY DEF TypeOK
    <3> QED
      BY <1>2, <3>1, Popped
  <2> QED
    BY <1>2, <2>1, Frames DEF Registering, At
<1> QED
  BY <1>1, <1>2

\* A step at the top of c that registers what it did, and leaves the rest to be as it was.
LEMMA RenewsOrder ==
    ASSUME Inv, NEW rank, OrderOK(rank), NEW c \in Caller, NEW f, Renews(c, f),
           handlers' = handlers, Runs(f, Registry),
           \/ f.pc \in {"lock", "between", "run"} /\ f.id = Head(stack[c]).id /\ ~Registering(c)
           \/ Registering(c) /\ Last(f.run) = Last(Head(stack[c]).run)
    PROVE  ChainsOK' /\ RunsOK' /\ Descends(rank)'
<1>0. TypeOK
  BY DEF Inv
<1>1. /\ Only(c) /\ stack' \in [Caller -> Seq(Frame)]
      /\ stack'[c] # <<>> /\ Head(stack'[c]) = f /\ stack'[c][1] = f
      /\ Len(stack'[c]) = Len(stack[c]) /\ Len(stack[c]) \in Nat \ {0}
      /\ Head(stack[c]) = stack[c][1]
      /\ \A i \in 2..Len(stack[c]) : stack'[c][i] = stack[c][i]
  BY <1>0, Renewed
<1>2. Registry' = Registry /\ (Settled' <=> Settled)
  BY DEF Settled, Registry
<1>4. /\ Registering(c)' => Registering(c)
      /\ Coming(c)' \subseteq Coming(c)
  <2>1. f \in Frame
    BY DEF Renews
  <2>2. CASE f.pc \in {"lock", "between", "run"}
    <3>1. f.method # "On"
      BY <2>1, <2>2, Frames
    <3> QED
      BY <3>1, <1>1 DEF Registering, Coming
  <2>3. CASE Registering(c) /\ Last(f.run) = Last(Head(stack[c]).run)
    BY <2>3, <1>1 DEF Registering, Coming
  <2> QED
    BY <2>2, <2>3
<1>5. \A d \in Caller : (Registering(d)' => Registering(d)) /\ Coming(d)' \subseteq Coming(d)
  <2> SUFFICES ASSUME NEW d \in Caller
               PROVE  (Registering(d)' => Registering(d)) /\ Coming(d)' \subseteq Coming(d)
    OBVIOUS
  <2>1. CASE d # c
    BY <2>1, <1>1 DEF Only, Registering, Coming
  <2> QED
    BY <2>1, <1>4
<1>6. \A d \in Caller : Len(stack'[d]) = Len(stack[d])
  BY <1>1 DEF Only
<1>7. ChainsOK'
  BY <1>2, <1>5, <1>6 DEF OrderOK, ChainsOK
<1>8. RunsOK'
  <2> SUFFICES ASSUME NEW d \in Caller, NEW i \in 1..Len(stack'[d])
               PROVE  Runs(stack'[d][i], Registry)
    BY <1>2 DEF RunsOK
  <2>1. CASE d # c
    BY <2>1, <1>1 DEF OrderOK, RunsOK, Only
  <2>2. CASE d = c /\ i = 1
    BY <2>2, <1>1
  <2>3. CASE d = c /\ i # 1
    <3>1. i \in 2..Len(stack[c]) /\ i \in 1..Len(stack[c])
      BY <2>3, <1>1
    <3> QED
      BY <2>3, <3>1, <1>1 DEF OrderOK, RunsOK
  <2> QED
    BY <2>1, <2>2, <2>3
<1>9. Descends(rank)'
  <2> SUFFICES ASSUME NEW d \in Caller, NEW i \in 1..Len(stack'[d]),
                      NEW j \in 1..Len(stack'[d]), i < j
               PROVE  Lower(rank, stack'[d][i], stack'[d][j])
    BY DEF Descends, Lower
  <2>0. \A x \in Caller : \A k, l \in 1..Len(stack[x]) :
            k < l => Lower(rank, stack[x][k], stack[x][l])
    BY DEF OrderOK, Descends
  <2>1. CASE d # c
    BY <2>1, <1>1, <2>0 DEF Only
  <2>2. CASE d = c
    <3>1. i \in 1..Len(stack[c]) /\ j \in 2..Len(stack[c]) /\ j \in 1..Len(stack[c])
          /\ Len(stack[c]) > 1 /\ (i # 1 => i \in 2..Len(stack[c]))
      BY <2>2, <1>1
    <3>2. Lower(rank, stack[c][i], stack[c][j])
      BY <3>1, <2>0
    <3>3. stack'[c][j] = stack[c][j]
      BY <3>1, <1>1
    <3>4. CASE i = 1
      <4>1. Settled
        BY <3>1 DEF OrderOK, ChainsOK
      <4>2. ~Registering(c)
        BY <4>1 DEF OrderOK, ChainsOK
      <4>3. f.id = stack[c][1].id
        BY <4>2, <1>1
      <4> QED
        BY <3>2, <3>3, <3>4, <4>3, <2>2, <1>1 DEF Lower
    <3>5. CASE i # 1
      BY <3>1, <3>2, <3>3, <3>5, <2>2, <1>1
    <3> QED
      BY <3>4, <3>5
  <2> QED
    BY <2>1, <2>2
<1> QED
  BY <1>7, <1>8, <1>9

\* A goroutine whose top is a call of the manager, or that has none, registers nothing.
LEMMA NotRegistering ==
    ASSUME NEW c \in Caller, stack' \in [Caller -> Seq(Frame)],
           \A step : At(c, step)' => step \in {"lock", "between", "run"}
    PROVE  ~Registering(c)' /\ Coming(c)' = {}
<1>1. ASSUME Registering(c)'  PROVE FALSE
  <2>1. stack'[c] # <<>> /\ stack'[c] \in Seq(Frame) /\ Head(stack'[c]).method = "On"
    BY <1>1 DEF Registering
  <2>2. Head(stack'[c]) \in Frame
    BY <2>1, Popped
  <2>3. Head(stack'[c]).pc \in {"want", "drain", "store"}
    BY <2>1, <2>2, Frames
  <2>4. PICK step : step = Head(stack'[c]).pc
    OBVIOUS
  <2>5. At(c, step)'
    BY <2>1, <2>4 DEF At
  <2> QED
    BY <2>3, <2>4, <2>5
<1> QED
  BY <1>1 DEF Coming

LEMMA OthersComing ==
    ASSUME NEW c \in Caller, Only(c), NEW d \in Caller \ {c}
    PROVE  (Registering(d)' <=> Registering(d)) /\ Coming(d)' = Coming(d)
BY DEF Only, Registering, Coming

\* Nothing is registered, and nobody begins to.
LEMMA SameChains ==
    ASSUME ChainsOK, NEW c \in Caller, Only(c), handlers' = handlers,
           ~Registering(c)', Coming(c)' = {},
           Len(stack'[c]) > 1 => Settled
    PROVE  ChainsOK'
<1>1. Settled' <=> Settled
  BY DEF Settled, Registry
<1>2. \A d \in Caller : (Registering(d)' => Registering(d)) /\ Coming(d)' \subseteq Coming(d)
  BY OthersComing
<1>3. \A d \in Caller : Len(stack'[d]) > 1 => Settled
  BY DEF ChainsOK, Only
<1> QED
  BY <1>1, <1>2, <1>3 DEF ChainsOK

\* A step of a goroutine that is not past Lock of the registry does not touch its lock.
LEMMA SameWriter ==
    ASSUME Inv, WriterOK, NEW c \in Caller, Only(c), writer' = writer,
           ~At(c, "drain"), ~At(c, "store")
    PROVE  WriterOK'
<1> SUFFICES ASSUME writer # NoCaller
             PROVE  At(writer, "drain")' \/ At(writer, "store")'
  BY DEF WriterOK
<1>1. PICK w : w = writer
  OBVIOUS
<1>2. w \in Caller /\ (At(w, "drain") \/ At(w, "store"))
  BY <1>1 DEF Inv, TypeOK, WriterOK
<1>3. w # c
  BY <1>2
<1>4. At(w, "drain")' \/ At(w, "store")'
  BY <1>2, <1>3, OthersStay
<1>5. writer' = w
  BY <1>1
<1> QED
  BY <1>4, <1>5 DEF At

\* A stack of one frame, of a call that is yet to run handlers.
LEMMA BeginsStacks ==
    ASSUME Inv, NEW rank, OrderOK(rank), NEW c \in Caller, On(c) \/ Call(c)
    PROVE  RunsOK' /\ Descends(rank)' /\ Len(stack'[c]) = 1
<1>1. PICK f \in Frame : /\ f.pc \in {"want", "lock", "between"}
                         /\ stack'[c] = <<f>> \o <<>>
  BY Begins DEF Inv
<1>2. Only(c) /\ handlers' = handlers
  BY Begins DEF Inv
<1>3. <<>> \in Seq(Frame) /\ Len(<<>>) = 0
  BY EmptySeq
<1>4. stack'[c][1] = f /\ Len(stack'[c]) = 1
  BY <1>1, <1>3, Pushed
<1>5. Registry' = Registry
  BY <1>2 DEF Registry
<1>6. RunsOK'
  <2> SUFFICES ASSUME NEW d \in Caller, NEW i \in 1..Len(stack'[d])
               PROVE  Runs(stack'[d][i], Registry)
    BY <1>5 DEF RunsOK
  <2>1. CASE d = c
    <3>1. i = 1
      BY <2>1, <1>4
    <3> QED
      BY <2>1, <3>1, <1>1, <1>4 DEF Runs
  <2>2. CASE d # c
    BY <2>2, <1>2 DEF OrderOK, RunsOK, Only
  <2> QED
    BY <2>1, <2>2
<1>7. Descends(rank)'
  <2> SUFFICES ASSUME NEW d \in Caller, NEW i \in 1..Len(stack'[d]),
                      NEW j \in 1..Len(stack'[d]), i < j
               PROVE  Lower(rank, stack'[d][i], stack'[d][j])
    BY DEF Descends, Lower
  <2>1. ASSUME d = c  PROVE FALSE
    <3>1. Len(stack'[d]) = 1
      BY <2>1, <1>4
    <3>2. i = 1 /\ j = 1
      BY <3>1
    <3> QED
      BY <3>2
  <2> QED
    BY <2>1, <1>2 DEF OrderOK, Descends, Only
<1> QED
  BY <1>4, <1>6, <1>7

LEMMA CallOrder ==
    ASSUME Inv, NEW rank, OrderOK(rank), NEW c \in Caller, Call(c)
    PROVE  OrderOK(rank)'
<1>1. /\ RunsOK' /\ Descends(rank)' /\ Len(stack'[c]) = 1
      /\ Only(c) /\ stack' \in [Caller -> Seq(Frame)] /\ stack[c] = <<>>
      /\ UNCHANGED <<handlers, readers, writer, locked>>
  BY BeginsStacks, Begins DEF Inv
<1>2. PICK method \in Methods, id \in Id :
        stack'[c] = <<Enter(method, id)>> \o <<>>
  BY <1>1 DEF Call, Push, Inv, TypeOK
<1>3. Enter(method, id) \in Frame /\ Enter(method, id).pc \in {"lock", "between"}
  BY EnterType DEF Frame
<1>4. Head(stack'[c]) = Enter(method, id)
  <2>1. <<>> \in Seq(Frame)
    BY EmptySeq
  <2> QED
    BY <1>2, <1>3, <2>1, Pushed
<1>5. ~Registering(c)' /\ Coming(c)' = {}
  BY <1>1, <1>3, <1>4, NotRegistering DEF At
<1>6. ChainsOK'
  <2>1. ChainsOK /\ handlers' = handlers /\ ~(Len(stack'[c]) > 1)
    BY <1>1 DEF OrderOK
  <2> QED
    BY <2>1, <1>1, <1>5, SameChains
<1>7. WriterOK'
  BY <1>1, SameWriter DEF At, OrderOK
<1> QED
  BY <1>1, <1>6, <1>7 DEF OrderOK

LEMMA TakenIs ==
    ASSUME NEW h \in Handler
    PROVE  Taken(h) <=> h \in Registry \/ \E c \in Caller : h \in Coming(c)
BY DEF Taken, Registry, Coming

\* A registration that begins comes after no handler that calls the manager, and one of
\* such a handler is alone.
LEMMA OnOrder ==
    ASSUME Inv, NEW rank, OrderOK(rank), ChainsLast, NEW c \in Caller, On(c)
    PROVE  OrderOK(rank)'
<1>1. /\ RunsOK' /\ Descends(rank)' /\ Len(stack'[c]) = 1
      /\ Only(c) /\ stack' \in [Caller -> Seq(Frame)] /\ stack[c] = <<>>
      /\ UNCHANGED <<handlers, readers, writer, locked>>
  BY BeginsStacks, Begins DEF Inv
<1>2. PICK event \in Events, h \in Handler :
        /\ InOrder(h)
        /\ stack' = [stack EXCEPT ![c] =
              <<[method |-> "On", hooks |-> <<event>>, run |-> <<h>>, pc |-> "want"]>>
              \o stack[c]]
  BY DEF On, Push
<1> DEFINE f == [method |-> "On", hooks |-> <<event>>, run |-> <<h>>, pc |-> "want"]
<1>3. f \in Frame /\ f.run = <<h>>
  BY DEF Frame, OnFrame
<1>4. stack'[c] = <<f>> \o <<>>
  BY <1>1, <1>2 DEF Inv, TypeOK
<1> HIDE DEF f
<1>5. Head(stack'[c]) = f
  <2>1. <<>> \in Seq(Frame)
    BY EmptySeq
  <2> QED
    BY <1>3, <1>4, <2>1, Pushed
<1>6. Last(<<h>>) = h
  BY DEF Last
<1>7. Coming(c)' \subseteq {h}
  BY <1>3, <1>5, <1>6 DEF Coming
<1>8. ~Settled
  <2>1. \A g \in Handler : Chains(g) => g \notin Registry
    BY <1>2, TakenIs DEF InOrder
  <2> QED
    BY <2>1 DEF Settled, Registry
<1>9. \A d \in Caller : \A g \in Coming(d) : ~Chains(g)
  <2>1. \A g \in Handler : Chains(g) => \A d \in Caller : g \notin Coming(d)
    BY <1>2, TakenIs DEF InOrder
  <2> QED
    BY <2>1 DEF Coming
<1>10. Chains(h) => \A d \in Caller : ~Registering(d)
  BY <1>2 DEF InOrder
<1>11. \A d \in Caller \ {c} :
          (Registering(d)' <=> Registering(d)) /\ Coming(d)' = Coming(d)
  BY <1>1, OthersComing
<1>12. ~Settled'
  BY <1>1, <1>8 DEF Settled, Registry
<1>13. \A d \in Caller : ~(Len(stack'[d]) > 1)
  <2>1. \A d \in Caller : ~(Len(stack[d]) > 1)
    BY <1>8 DEF OrderOK, ChainsOK
  <2>2. ~(Len(stack'[c]) > 1)
    BY <1>1
  <2> QED
    BY <2>1, <2>2, <1>1 DEF Only
<1>14. ASSUME NEW d \in Caller, NEW b \in Caller, NEW g \in Coming(d)', Chains(g),
              Registering(b)'
       PROVE  d = b
  <2>1. d = c
    BY <1>9, <1>11, <1>14
  <2>2. g = h
    BY <2>1, <1>7, <1>14
  <2>3. \A x \in Caller : ~Registering(x)
    BY <2>2, <1>10, <1>14
  <2> QED
    BY <2>1, <2>3, <1>11, <1>14
<1>15. ChainsOK'
  BY <1>12, <1>13, <1>14 DEF ChainsOK
<1>16. WriterOK'
  BY <1>1, SameWriter DEF At, OrderOK
<1> QED
  BY <1>1, <1>15, <1>16 DEF OrderOK

\* The innermost call ends, and the list of handlers may have grown.
LEMMA PopsStacks ==
    ASSUME Inv, NEW rank, OrderOK(rank), NEW c \in Caller, stack[c] # <<>>, Pop(c),
           Registry \subseteq Registry'
    PROVE  /\ RunsOK' /\ Descends(rank)'
           /\ Len(stack'[c]) > 1 => Len(stack[c]) > 1
           /\ Len(stack'[c]) = Len(stack[c]) - 1 /\ Len(stack[c]) \in Nat \ {0}
<1>1. Only(c)
  BY TopPopped DEF Inv
<1>2. /\ Len(stack'[c]) = Len(stack[c]) - 1 /\ Len(stack[c]) \in Nat \ {0}
      /\ \A i \in 1..Len(stack'[c]) :
            i + 1 \in 2..Len(stack[c]) /\ stack'[c][i] = stack[c][i + 1]
  <2>1. stack[c] \in Seq(Frame) /\ stack'[c] = Tail(stack[c])
    BY DEF Inv, TypeOK, Pop
  <2> QED
    BY <2>1, Popped
<1>3. \A f : Runs(f, Registry) => Runs(f, Registry')
  BY DEF Runs
<1>4. RunsOK'
  <2> SUFFICES ASSUME NEW d \in Caller, NEW i \in 1..Len(stack'[d])
               PROVE  Runs(stack'[d][i], Registry')
    BY DEF RunsOK
  <2>1. CASE d # c
    BY <2>1, <1>1, <1>3 DEF OrderOK, RunsOK, Only
  <2>2. CASE d = c
    <3>1. i + 1 \in 1..Len(stack[c]) /\ stack'[c][i] = stack[c][i + 1]
      BY <2>2, <1>2
    <3> QED
      BY <2>2, <3>1, <1>3 DEF OrderOK, RunsOK
  <2> QED
    BY <2>1, <2>2
<1>5. Descends(rank)'
  <2> SUFFICES ASSUME NEW d \in Caller, NEW i \in 1..Len(stack'[d]),
                      NEW j \in 1..Len(stack'[d]), i < j
               PROVE  Lower(rank, stack'[d][i], stack'[d][j])
    BY DEF Descends, Lower
  <2>0. \A x \in Caller : \A k, l \in 1..Len(stack[x]) :
            k < l => Lower(rank, stack[x][k], stack[x][l])
    BY DEF OrderOK, Descends
  <2>1. CASE d # c
    BY <2>1, <1>1, <2>0 DEF Only
  <2>2. CASE d = c
    <3>1. /\ i + 1 \in 1..Len(stack[c]) /\ stack'[c][i] = stack[c][i + 1]
          /\ j + 1 \in 1..Len(stack[c]) /\ stack'[c][j] = stack[c][j + 1]
          /\ i + 1 < j + 1
      BY <2>2, <1>2
    <3> QED
      BY <2>2, <3>1, <2>0
  <2> QED
    BY <2>1, <2>2
<1> QED
  BY <1>2, <1>4, <1>5

LEMMA ReturnOrder ==
    ASSUME Inv, NEW rank, OrderOK(rank), NEW c \in Caller, Return(c)
    PROVE  OrderOK(rank)'
<1>1. /\ At(c, "between") /\ stack[c] # <<>> /\ Pop(c)
      /\ UNCHANGED <<handlers, readers, writer>>
  BY DEF Return, At
<1>2. /\ Only(c) /\ stack' \in [Caller -> Seq(Frame)]
      /\ \A step : At(c, step)' => step = "run"
  BY <1>1, TopPopped DEF Inv
<1>3. Registry' = Registry
  BY <1>1 DEF Registry
<1>4. RunsOK' /\ Descends(rank)' /\ (Len(stack'[c]) > 1 => Len(stack[c]) > 1)
  BY <1>1, <1>3, PopsStacks
<1>5. ~Registering(c)' /\ Coming(c)' = {}
  BY <1>2, NotRegistering
<1>6. ChainsOK'
  <2>1. ChainsOK /\ handlers' = handlers /\ (Len(stack'[c]) > 1 => Settled)
    BY <1>1, <1>4 DEF OrderOK, ChainsOK
  <2> QED
    BY <2>1, <1>2, <1>5, SameChains
<1>7. WriterOK'
  BY <1>1, <1>2, SameWriter DEF At, OrderOK
<1> QED
  BY <1>4, <1>6, <1>7 DEF OrderOK

\* The handler is in the map now. If it calls the manager, no other is being registered.
LEMMA StoreOrder ==
    ASSUME Inv, NEW rank, OrderOK(rank), NEW c \in Caller, Store(c)
    PROVE  OrderOK(rank)'
<1> DEFINE top == Head(stack[c])
<1>1. /\ At(c, "store") /\ stack[c] # <<>> /\ Pop(c) /\ writer' = NoCaller
      /\ top \in OnFrame /\ top.method = "On"
  <2>1. At(c, "store") /\ stack[c] # <<>> /\ Pop(c) /\ writer' = NoCaller
    BY DEF Store, At
  <2>2. top \in OnFrame /\ top.pc = "store"
    BY <2>1, AtTop DEF Inv
  <2> QED
    BY <2>1, <2>2 DEF OnFrame
<1>2. PICK e \in Events : top.hooks = <<e>>
  BY <1>1 DEF OnFrame
<1>3. Head(top.hooks) = e
  BY <1>2
<1>4. PICK h \in Handler : top.run = handlers[e] \o <<h>>
  BY <1>1, <1>3 DEF Inv, RegistrationOK
<1>5. handlers' = [handlers EXCEPT ![e] = handlers[e] \o <<h>>]
  BY <1>3, <1>4 DEF Store
<1>6. handlers[e] \in Seq(Handler) /\ handlers \in [Events -> Seq(Handler)]
  BY DEF Inv, TypeOK
<1>7. /\ Len(handlers[e]) \in Nat
      /\ Len(handlers[e] \o <<h>>) = Len(handlers[e]) + 1
      /\ (handlers[e] \o <<h>>)[Len(handlers[e]) + 1] = h
      /\ \A i \in 1..Len(handlers[e]) : (handlers[e] \o <<h>>)[i] = handlers[e][i]
  <2>1. <<h>> \in Seq(Handler) /\ Len(<<h>>) = 1 /\ <<h>>[1] = h
    OBVIOUS
  <2> QED
    BY <1>6, <2>1, LenProperties, ConcatProperties
<1>8. Last(top.run) = h
  BY <1>4, <1>7 DEF Last
<1>9. Registry' = Registry \cup {h}
  <2>1. \A g : Contains(handlers[e] \o <<h>>, g) <=> Contains(handlers[e], g) \/ g = h
    BY <1>7 DEF Contains
  <2>2. \A g : (\E x \in Events : Contains(handlers'[x], g))
                <=> (\E x \in Events : Contains(handlers[x], g)) \/ g = h
    BY <2>1, <1>5, <1>6
  <2> QED
    BY <2>2 DEF Registry
<1>10. Registering(c) /\ h \in Coming(c)
  BY <1>1, <1>8 DEF Registering, Coming
<1>11. ~Settled
  BY <1>10 DEF OrderOK, ChainsOK
<1>12. /\ Only(c) /\ stack' \in [Caller -> Seq(Frame)]
       /\ \A step : At(c, step)' => step = "run"
  BY <1>1, TopPopped DEF Inv
<1>13. RunsOK' /\ Descends(rank)' /\ (Len(stack'[c]) > 1 => Len(stack[c]) > 1)
  BY <1>1, <1>9, PopsStacks
<1>14. ~Registering(c)' /\ Coming(c)' = {}
  BY <1>12, NotRegistering
<1>15. \A d \in Caller \ {c} :
          (Registering(d)' <=> Registering(d)) /\ Coming(d)' = Coming(d)
  BY <1>12, OthersComing
<1>16. ASSUME Settled', NEW d \in Caller  PROVE ~Registering(d)'
  <2>1. Chains(h)
    BY <1>9, <1>11, <1>16 DEF Settled
  <2>2. \A b \in Caller : Registering(b) => b = c
    BY <2>1, <1>10 DEF OrderOK, ChainsOK
  <2> QED
    BY <2>2, <1>14, <1>15
<1>17. \A d \in Caller : ~(Len(stack'[d]) > 1)
  BY <1>11, <1>12, <1>13 DEF OrderOK, ChainsOK, Only
<1>18. \A d, b \in Caller : \A g \in Coming(d)' : Chains(g) /\ Registering(b)' => d = b
  BY <1>14, <1>15 DEF OrderOK, ChainsOK
<1>19. ChainsOK'
  BY <1>16, <1>17, <1>18 DEF ChainsOK
<1>20. WriterOK'
  BY <1>1 DEF WriterOK
<1> QED
  BY <1>13, <1>19, <1>20 DEF OrderOK

\* A handler in the loop of Trigger calls the manager, so one that does is registered, and
\* the call is for a transfer of a lower rank than all the open ones.
LEMMA HandlerCallsOrder ==
    ASSUME Inv, NEW rank \in [Id -> Nat], Downward(rank), OrderOK(rank),
           NEW c \in Caller, HandlerCalls(c)
    PROVE  OrderOK(rank)'
<1> DEFINE n == Len(stack[c])
           top == Head(stack[c])
<1>1. PICK f, new :
        /\ f.pc = "run" /\ new.pc \in {"lock", "between"}
        /\ f.id = top.id /\ f.run = Tail(top.run)
        /\ new.id = Told(c)
        /\ Only(c) /\ stack' \in [Caller -> Seq(Frame)]
        /\ Len(stack'[c]) = n + 1 /\ n \in Nat \ {0}
        /\ Head(stack'[c]) = new /\ stack'[c][1] = new /\ stack'[c][2] = f
        /\ \A i \in 3..(n + 1) : stack'[c][i] = stack[c][i - 1]
  BY HandlerCallsStacks DEF Inv
<1>2. /\ At(c, "run") /\ top.run # <<>> /\ Told(c) \in Id
      /\ UNCHANGED <<handlers, readers, writer, locked>>
  BY DEF HandlerCalls
<1>3. top \in CallFrame /\ top = stack[c][1] /\ top.pc = "run"
  BY <1>2, AtTop DEF Inv
<1>4. top.run \in Seq(Handler) /\ top.id \in Id
  BY <1>3 DEF CallFrame
<1>5. /\ Len(top.run) \in Nat \ {0} /\ Head(top.run) = top.run[1] /\ top.run[1] \in Handler
      /\ Len(f.run) = Len(top.run) - 1
      /\ \A k \in 1..Len(f.run) : k + 1 \in 2..Len(top.run) /\ f.run[k] = top.run[k + 1]
  BY <1>1, <1>2, <1>4, Popped
<1>6. Runs(top, Registry)
  <2>1. 1 \in 1..Len(stack[c])
    BY <1>1
  <2> QED
    BY <2>1, <1>3 DEF OrderOK, RunsOK
<1>7. Runs(f, Registry)
  BY <1>3, <1>5, <1>6 DEF Runs
<1>8. Settled
  <2>1. top.run[1] \in Registry
    <3>1. 1 \in 1..Len(top.run)
      BY <1>5
    <3> QED
      BY <3>1, <1>3, <1>6 DEF Runs
  <2>2. Chains(top.run[1])
    BY <1>2, <1>4, <1>5 DEF Chains, Told
  <2> QED
    BY <2>1, <2>2 DEF Settled
<1>9. Registry' = Registry
  BY <1>2 DEF Registry
<1>10. RunsOK'
  <2> SUFFICES ASSUME NEW d \in Caller, NEW i \in 1..Len(stack'[d])
               PROVE  Runs(stack'[d][i], Registry)
    BY <1>9 DEF RunsOK
  <2>0. \A x \in Caller : \A k \in 1..Len(stack[x]) : Runs(stack[x][k], Registry)
    BY DEF OrderOK, RunsOK
  <2>1. CASE d # c
    BY <2>0, <2>1, <1>1 DEF Only
  <2>2. CASE d = c /\ i = 1
    BY <2>2, <1>1 DEF Runs
  <2>3. CASE d = c /\ i = 2
    BY <2>3, <1>1, <1>7
  <2>4. CASE d = c /\ i # 1 /\ i # 2
    <3>1. i \in 3..(n + 1) /\ i - 1 \in 1..n
      BY <2>4, <1>1
    <3> QED
      BY <2>0, <2>4, <3>1, <1>1
  <2> QED
    BY <2>1, <2>2, <2>3, <2>4
<1>11. \A i \in 1..n : stack[c][i].id \in Id
  <2> SUFFICES ASSUME NEW i \in 1..n  PROVE stack[c][i].id \in Id
    OBVIOUS
  <2>1. CASE i = 1
    BY <2>1, <1>3, <1>4
  <2>2. CASE i # 1
    <3>1. i \in 2..n
      BY <2>2, <1>1
    <3>2. stack[c][i].pc = "run"
      BY <3>1 DEF Inv, NestingOK
    <3>3. stack[c][i] \in Frame
      BY DEF Inv, TypeOK
    <3> QED
      BY <3>2, <3>3 DEF Frame, OnFrame, CallFrame
  <2> QED
    BY <2>1, <2>2
<1>12. rank[Told(c)] < rank[top.id] /\ rank[Told(c)] \in Nat
  BY <1>2, <1>4, <1>5 DEF Downward, Told
<1>13. \A i \in 1..n : Lower(rank, new, stack[c][i])
  <2> SUFFICES ASSUME NEW i \in 1..n  PROVE rank[Told(c)] < rank[stack[c][i].id]
    BY <1>1 DEF Lower
  <2>1. CASE i = 1
    BY <2>1, <1>3, <1>12
  <2>2. CASE i # 1
    <3>1. 1 \in 1..n /\ 1 < i
      BY <2>2, <1>1
    <3>2. rank[top.id] < rank[stack[c][i].id]
      BY <3>1, <1>3 DEF OrderOK, Descends, Lower
    <3>3. rank[top.id] \in Nat /\ rank[stack[c][i].id] \in Nat
      BY <1>4, <1>11
    <3> QED
      BY <3>2, <3>3, <1>12
  <2> QED
    BY <2>1, <2>2
<1>14. Descends(rank)'
  <2> SUFFICES ASSUME NEW d \in Caller, NEW i \in 1..Len(stack'[d]),
                      NEW j \in 1..Len(stack'[d]), i < j
               PROVE  Lower(rank, stack'[d][i], stack'[d][j])
    BY DEF Descends, Lower
  <2>0. \A x \in Caller : \A k, l \in 1..Len(stack[x]) :
            k < l => Lower(rank, stack[x][k], stack[x][l])
    BY DEF OrderOK, Descends
  <2>1. CASE d # c
    BY <2>1, <1>1, <2>0 DEF Only
  <2>2. CASE d = c
    <3>1. ASSUME NEW k \in 2..(n + 1)
          PROVE  k - 1 \in 1..n /\ stack'[c][k].id = stack[c][k - 1].id
      <4>1. k - 1 \in 1..n
        BY <1>1
      <4>2. CASE k = 2
        <5>1. k - 1 = 1
          BY <4>2
        <5> QED
          BY <4>1, <4>2, <5>1, <1>1, <1>3
      <4>3. CASE k # 2
        <5>1. k \in 3..(n + 1)
          BY <4>3, <1>1
        <5> QED
          BY <4>1, <5>1, <1>1
      <4> QED
        BY <4>2, <4>3
    <3>2. i \in 1..(n + 1) /\ j \in 2..(n + 1)
      BY <2>2, <1>1
    <3>3. j - 1 \in 1..n /\ stack'[c][j].id = stack[c][j - 1].id
      BY <3>1, <3>2
    <3>4. CASE i = 1
      <4>1. Lower(rank, new, stack[c][j - 1])
        BY <3>3, <1>13
      <4> QED
        BY <4>1, <3>3, <3>4, <2>2, <1>1 DEF Lower
    <3>5. CASE i # 1
      <4>1. i \in 2..(n + 1) /\ i - 1 < j - 1
        BY <3>2, <3>5
      <4>2. i - 1 \in 1..n /\ stack'[c][i].id = stack[c][i - 1].id
        BY <3>1, <4>1
      <4>3. Lower(rank, stack[c][i - 1], stack[c][j - 1])
        BY <2>0, <3>3, <4>1, <4>2
      <4> QED
        BY <4>2, <4>3, <3>3, <2>2 DEF Lower
    <3> QED
      BY <3>4, <3>5
  <2> QED
    BY <2>1, <2>2
<1>15. ~Registering(c)' /\ Coming(c)' = {}
  <2>1. \A step : At(c, step)' => step = new.pc
    BY <1>1 DEF At
  <2> QED
    BY <2>1, <1>1, NotRegistering
<1>16. ChainsOK'
  BY <1>1, <1>2, <1>8, <1>15, SameChains DEF OrderOK
<1>17. WriterOK'
  BY <1>1, <1>2, SameWriter DEF At, OrderOK
<1> QED
  BY <1>10, <1>14, <1>16, <1>17 DEF OrderOK

LEMMA HandlerPanicsOrder ==
    ASSUME Inv, NEW rank, OrderOK(rank), NEW c \in Caller, HandlerPanics(c)
    PROVE  OrderOK(rank)'
<1>1. /\ stack' = [stack EXCEPT ![c] = <<>>] /\ At(c, "run")
      /\ UNCHANGED <<handlers, writer>>
  BY DEF HandlerPanics
<1>2. /\ stack' \in [Caller -> Seq(Frame)] /\ Only(c)
      /\ stack'[c] = <<>> /\ Len(stack'[c]) = 0
  <2>1. <<>> \in Seq(Frame) /\ Len(<<>>) = 0
    BY EmptySeq
  <2> QED
    BY <1>1, <2>1 DEF Inv, TypeOK, Only
<1>3. Registry' = Registry
  BY <1>1 DEF Registry
<1>4. RunsOK'
  BY <1>2, <1>3 DEF OrderOK, RunsOK, Only
<1>5. Descends(rank)'
  BY <1>2 DEF OrderOK, Descends, Only, Lower
<1>6. ~Registering(c)' /\ Coming(c)' = {}
  BY <1>2 DEF Registering, Coming
<1>7. ChainsOK'
  <2>1. ~(Len(stack'[c]) > 1)
    BY <1>2
  <2> QED
    BY <2>1, <1>1, <1>2, <1>6, SameChains DEF OrderOK
<1>8. WriterOK'
  BY <1>1, <1>2, SameWriter DEF At, OrderOK
<1> QED
  BY <1>4, <1>5, <1>7, <1>8 DEF OrderOK

\* The steps that replace the top.
LEMMA RenewedOrder ==
    ASSUME Inv, NEW rank, OrderOK(rank), NEW c \in Caller,
           \/ Announce(c) \/ Drained(c) \/ Lock(c) \/ RLock(c) \/ RUnlock(c)
           \/ HandlerReturns(c)
    PROVE  ChainsOK' /\ RunsOK' /\ Descends(rank)'
<1>0. TypeOK
  BY DEF Inv
<1>1. CASE Announce(c)
  <2>1. PICK f : Renews(c, f) /\ f.pc = "drain" /\ f.run = Head(stack[c]).run
    BY <1>0, <1>1, AnnounceRenews
  <2>2. Registering(c) /\ handlers' = handlers
    BY <1>0, <1>1, RegisteringAt DEF Announce
  <2>3. Runs(f, Registry)
    BY <2>1 DEF Runs
  <2> QED
    BY <2>1, <2>2, <2>3, RenewsOrder
<1>2. CASE Drained(c)
  <2>1. PICK f : /\ Renews(c, f) /\ f.pc = "store"
                 /\ \E h \in Handler : /\ f.run = handlers[Head(f.hooks)] \o <<h>>
                                       /\ Head(stack[c]).run = <<h>>
    BY <1>0, <1>2, DrainedRenews
  <2>2. PICK h \in Handler : /\ f.run = handlers[Head(f.hooks)] \o <<h>>
                             /\ Head(stack[c]).run = <<h>>
    BY <2>1
  <2>3. Last(f.run) = h /\ Last(<<h>>) = h
    <3>1. handlers[Head(f.hooks)] \in Seq(Handler)
      <4>1. f \in OnFrame
        BY <2>1 DEF Renews, Frame, OnFrame, CallFrame
      <4>2. PICK e \in Events : f.hooks = <<e>>
        BY <4>1 DEF OnFrame
      <4>3. Head(f.hooks) = e
        BY <4>2
      <4> QED
        BY <4>3, <1>0 DEF TypeOK
    <3>2. PICK s \in Seq(Handler) : s = handlers[Head(f.hooks)]
      BY <3>1
    <3>3. <<h>> \in Seq(Handler) /\ Len(<<h>>) = 1 /\ <<h>>[1] = h
      OBVIOUS
    <3>4. Len(s \o <<h>>) = Len(s) + 1 /\ (s \o <<h>>)[Len(s) + 1] = h
      BY <3>3, LenProperties, ConcatProperties
    <3> QED
      BY <2>2, <3>2, <3>3, <3>4 DEF Last
  <2>4. Registering(c) /\ handlers' = handlers
    BY <1>0, <1>2, RegisteringAt DEF Drained
  <2>5. Runs(f, Registry)
    BY <2>1 DEF Runs
  <2> QED
    BY <2>1, <2>2, <2>3, <2>4, <2>5, RenewsOrder
<1>3. ASSUME At(c, "lock") \/ At(c, "between") \/ At(c, "run")  PROVE ~Registering(c)
  BY <1>0, <1>3, RegisteringAt DEF At
<1>4. CASE Lock(c)
  <2>1. PICK f : Renews(c, f) /\ f.pc = "between" /\ f.id = Head(stack[c]).id
    BY <1>0, <1>4, LockRenews
  <2>2. ~Registering(c) /\ handlers' = handlers
    BY <1>3, <1>4 DEF Lock
  <2>3. Runs(f, Registry)
    BY <2>1 DEF Runs
  <2> QED
    BY <2>1, <2>2, <2>3, RenewsOrder
<1>5. CASE RLock(c)
  <2>1. PICK f : /\ Renews(c, f) /\ f.pc = "run" /\ f.id = Head(stack[c]).id
                 /\ \E e \in Events : f.run = handlers[e]
    BY <1>0, <1>5, RLockRenews
  <2>2. ~Registering(c) /\ handlers' = handlers
    BY <1>3, <1>5 DEF RLock
  <2>3. Runs(f, Registry)
    <3>1. PICK e \in Events : f.run = handlers[e]
      BY <2>1
    <3>2. handlers[e] \in Seq(Handler)
      BY <1>0 DEF TypeOK
    <3>3. \A k \in 1..Len(handlers[e]) : handlers[e][k] \in Handler
      BY <3>2, ElementOfSeq
    <3> QED
      BY <3>1, <3>3 DEF Runs, Registry, Contains
  <2> QED
    BY <2>1, <2>2, <2>3, RenewsOrder
<1>6. CASE RUnlock(c)
  <2>1. PICK f : Renews(c, f) /\ f.pc = "between" /\ f.id = Head(stack[c]).id
    BY <1>0, <1>6, RUnlockRenews
  <2>2. ~Registering(c) /\ handlers' = handlers
    BY <1>3, <1>6 DEF RUnlock
  <2>3. Runs(f, Registry)
    BY <2>1 DEF Runs
  <2> QED
    BY <2>1, <2>2, <2>3, RenewsOrder
<1>7. CASE HandlerReturns(c)
  <2> DEFINE top == Head(stack[c])
             f == [Head(stack[c]) EXCEPT !.run = Tail(@)]
  <2>1. /\ f \in Frame /\ f.pc = "run" /\ stack[c] # <<>>
        /\ f.id = top.id /\ f.run = Tail(top.run)
    BY <1>0, <1>7, HandlerReturnsRenews DEF HandlerReturns
  <2>2. Renews(c, f)
    BY <1>7, <2>1 DEF HandlerReturns, Goto, Renews
  <2>3. ~Registering(c) /\ handlers' = handlers /\ top.run # <<>> /\ At(c, "run")
    BY <1>3, <1>7 DEF HandlerReturns
  <2>4. top \in CallFrame /\ top = stack[c][1] /\ top.pc = "run"
    BY <1>0, <2>3, AtTop
  <2>5. top.run \in Seq(Handler)
    BY <2>4 DEF CallFrame
  <2> HIDE DEF f
  <2>6. /\ Len(f.run) = Len(top.run) - 1 /\ Len(top.run) \in Nat \ {0}
        /\ \A k \in 1..Len(f.run) : k + 1 \in 2..Len(top.run) /\ f.run[k] = top.run[k + 1]
    BY <2>1, <2>3, <2>5, Popped
  <2>7. Runs(top, Registry)
    <3>1. 1 \in 1..Len(stack[c])
      <4>1. stack[c] \in Seq(Frame) /\ stack[c] # <<>>
        BY <1>0, <2>1 DEF TypeOK
      <4>2. Len(stack[c]) \in Nat \ {0}
        BY <4>1, Popped
      <4> QED
        BY <4>2
    <3> QED
      BY <3>1, <2>4 DEF OrderOK, RunsOK
  <2>8. Runs(f, Registry)
    BY <2>4, <2>6, <2>7 DEF Runs
  <2> QED
    BY <2>1, <2>2, <2>3, <2>8, RenewsOrder
<1> QED
  BY <1>1, <1>2, <1>4, <1>5, <1>6, <1>7

LEMMA WriterRenewed ==
    ASSUME Inv, WriterOK, NEW c \in Caller,
           \/ Announce(c) \/ Drained(c) \/ Lock(c) \/ RLock(c) \/ RUnlock(c)
           \/ HandlerReturns(c)
    PROVE  WriterOK'
<1>0. TypeOK
  BY DEF Inv
<1>1. CASE Announce(c)
  <2>1. PICK f : Renews(c, f) /\ f.pc = "drain"
    BY <1>0, <1>1, AnnounceRenews
  <2>2. stack'[c] # <<>> /\ Head(stack'[c]) = f
    BY <1>0, <2>1, Renewed
  <2>3. writer' = c
    BY <1>1 DEF Announce
  <2> QED
    BY <2>1, <2>2, <2>3 DEF WriterOK, At
<1>2. CASE Drained(c)
  <2>1. PICK f : Renews(c, f) /\ f.pc = "store"
    BY <1>0, <1>2, DrainedRenews
  <2>2. stack'[c] # <<>> /\ Head(stack'[c]) = f
    BY <1>0, <2>1, Renewed
  <2>3. writer' = c
    BY <1>2 DEF Drained, Inv, RegistrationOK
  <2> QED
    BY <2>1, <2>2, <2>3 DEF WriterOK, At
<1>3. CASE Lock(c) \/ RLock(c) \/ RUnlock(c) \/ HandlerReturns(c)
  <2>1. \E f : Renews(c, f)
    <3>1. CASE Lock(c)
      BY <1>0, <3>1, LockRenews
    <3>2. CASE RLock(c)
      BY <1>0, <3>2, RLockRenews
    <3>3. CASE RUnlock(c)
      BY <1>0, <3>3, RUnlockRenews
    <3>4. CASE HandlerReturns(c)
      <4>1. [Head(stack[c]) EXCEPT !.run = Tail(@)] \in Frame /\ stack[c] # <<>>
        BY <1>0, <3>4, HandlerReturnsRenews DEF HandlerReturns
      <4>2. Renews(c, [Head(stack[c]) EXCEPT !.run = Tail(@)])
        BY <3>4, <4>1 DEF HandlerReturns, Goto, Renews
      <4> QED
        BY <4>2
    <3> QED
      BY <1>3, <3>1, <3>2, <3>3, <3>4
  <2>2. Only(c)
    BY <1>0, <2>1, Renewed
  <2>3. writer' = writer /\ (At(c, "lock") \/ At(c, "between") \/ At(c, "run"))
    BY <1>3 DEF Lock, RLock, RUnlock, HandlerReturns
  <2> QED
    BY <2>2, <2>3, SameWriter DEF At
<1> QED
  BY <1>1, <1>2, <1>3

LEMMA OrderInit ==
    ASSUME NEW rank, Init
    PROVE  OrderOK(rank)
<1>1. /\ \A c \in Caller : stack[c] = <<>> /\ Len(stack[c]) = 0
      /\ writer = NoCaller /\ handlers = [e \in Events |-> <<>>]
  BY EmptySeq DEF Init
<1>2. ~Settled
  <2>1. Len(<<>>) = 0
    OBVIOUS
  <2>2. \A e \in Events : \A h : ~Contains(handlers[e], h)
    BY <1>1, <2>1 DEF Contains
  <2> QED
    BY <2>2 DEF Settled, Registry
<1>3. ChainsOK
  BY <1>1, <1>2 DEF ChainsOK, Registering
<1>4. WriterOK /\ RunsOK /\ Descends(rank)
  BY <1>1 DEF WriterOK, RunsOK, Descends
<1> QED
  BY <1>3, <1>4 DEF OrderOK

LEMMA OrderStep ==
    ASSUME ChainsLast, NEW rank \in [Id -> Nat], Downward(rank),
           Inv, OrderOK(rank), [Next]_vars
    PROVE  OrderOK(rank)'
<1>1. CASE UNCHANGED vars
  <2>1. ChainsOK'
    BY <1>1 DEF vars, OrderOK, ChainsOK, Settled, Registry, Registering, Coming
  <2>2. RunsOK' /\ WriterOK' /\ Descends(rank)'
    BY <1>1 DEF vars, OrderOK, RunsOK, Registry, WriterOK, At, Descends, Lower
  <2> QED
    BY <2>1, <2>2 DEF OrderOK
<1>2. ASSUME NEW c \in Caller, On(c) \/ Call(c)  PROVE OrderOK(rank)'
  BY <1>2, OnOrder, CallOrder
<1>3. ASSUME NEW c \in Caller, Advance(c)  PROVE OrderOK(rank)'
  <2>1. CASE \/ Announce(c) \/ Drained(c) \/ Lock(c) \/ RLock(c) \/ RUnlock(c)
             \/ HandlerReturns(c)
    <3>1. WriterOK
      BY DEF OrderOK
    <3>2. WriterOK'
      BY <2>1, <3>1, WriterRenewed
    <3>3. ChainsOK' /\ RunsOK' /\ Descends(rank)'
      BY <2>1, RenewedOrder
    <3> QED
      BY <3>2, <3>3 DEF OrderOK
  <2>2. CASE Store(c) \/ Return(c) \/ HandlerCalls(c) \/ HandlerPanics(c)
    BY <2>2, StoreOrder, ReturnOrder, HandlerCallsOrder, HandlerPanicsOrder
  <2> QED
    BY <1>3, <2>1, <2>2 DEF Advance
<1> QED
  BY <1>1, <1>2, <1>3 DEF Next

-----------------------------------------------------------------------------
(* Who waits for whom. *)

\* An open call that runs handlers is its goroutine's only one while somebody registers.
LEMMA ReaderRuns ==
    ASSUME Inv, NEW rank, OrderOK(rank), NEW c \in Caller, Registering(c),
           NEW p \in Reading
    PROVE  p[1] \in Caller /\ At(p[1], "run")
<1>1. PICK d, k : p = <<d, k>> /\ d \in Caller /\ k \in 1..Len(stack[d])
  BY OpenPairs, Open DEF Reading
<1>2. ~(Len(stack[d]) > 1) /\ Len(stack[d]) \in Nat
  BY <1>1, LenProperties DEF OrderOK, ChainsOK, Inv, TypeOK
<1>3. Len(stack[d]) = 1 /\ k = 1
  <2>1. \A n \in Nat : ~(n > 1) /\ k \in 1..n => n = 1 /\ k = 1
    OBVIOUS
  <2>2. k \in 1..Len(stack[d])
    BY <1>1
  <2> QED
    BY <1>2, <2>1, <2>2
<1>4. stack[d] \in Seq(Frame) /\ stack[d] # <<>>
  <2>1. stack[d] \in Seq(Frame)
    BY <1>1 DEF Inv, TypeOK
  <2>2. Len(<<>>) = 0 /\ 0 # 1
    OBVIOUS
  <2> QED
    BY <1>3, <2>1, <2>2
<1>5. FrameOf(p) = stack[d][1] /\ Head(stack[d]) = stack[d][1]
  <2>1. Len(stack[d]) + 1 - k = 1
    BY <1>3
  <2> QED
    BY <1>1, <2>1, <1>4, Popped DEF FrameOf
<1> QED
  BY <1>1, <1>4, <1>5 DEF Reading, At

\* A goroutine that has a mutex and waits for another: that is of a lower rank.
LEMMA OwnersWaitLower ==
    ASSUME Inv, NEW rank \in [Id -> Nat], OrderOK(rank), NEW d \in Caller, At(d, "lock"),
           NEW id \in Id, NEW p \in Owners(id), p[1] = d
    PROVE  /\ Head(stack[d]).id \in Id
           /\ rank[Head(stack[d]).id] < rank[id]
<1>1. PICK b, k : p = <<b, k>> /\ b \in Caller /\ k \in 1..Len(stack[b])
  BY OpenPairs, Open DEF Owners
<1>2. b = d /\ k \in 1..Len(stack[d])
  BY <1>1
<1>3. /\ Head(stack[d]) = stack[d][1] /\ Head(stack[d]).pc = "lock"
      /\ Head(stack[d]) \in CallFrame /\ stack[d] # <<>> /\ stack[d] \in Seq(Frame)
  BY AtTop DEF Inv, TypeOK
<1>4. Len(stack[d]) \in Nat \ {0}
  BY <1>3, Popped
<1> DEFINE i == Len(stack[d]) + 1 - k
<1>5. i \in 1..Len(stack[d]) /\ 1 \in 1..Len(stack[d])
  BY <1>2, <1>4
<1>6. FrameOf(p) = stack[d][i] /\ Owns(FrameOf(p), id)
  BY <1>1, <1>2 DEF FrameOf, Owners
<1>7. stack[d][i].pc \in {"between", "run"} /\ stack[d][i].id = id
  BY <1>6 DEF Owns
<1>8. i # 1
  BY <1>3, <1>7
<1>9. 1 < i
  BY <1>5, <1>8
<1> HIDE DEF i
<1>10. Lower(rank, stack[d][1], stack[d][i])
  BY <1>5, <1>9 DEF OrderOK, Descends
<1> QED
  BY <1>3, <1>7, <1>10 DEF Lower, CallFrame

LEMMA LeastRank ==
    ASSUME NEW S \in SUBSET Nat, S # {}
    PROVE  \E n \in S : \A m \in S : n <= m
<1>1. PICK n \in S : \A m \in S : ~(<<m, n>> \in OpToRel(<, Nat))
  BY NatLessThanWellFounded, WFMin
<1>2. \A m \in S : ~(m < n)
  BY <1>1 DEF OpToRel
<1>3. \A m \in S : n <= m
  BY <1>2
<1> QED
  BY <1>3

LEMMA NobodyWaits ==
    ASSUME NEW rank \in [Id -> Nat], Inv, LocksOK, OrderOK(rank)
    PROVE  NobodyWaitsInVain
<1> SUFFICES ASSUME NEW group \in SUBSET Caller, group # {}, \A c \in group : Blocked(c)
             PROVE  \E c \in group : /\ \E d \in Caller : WaitsFor(c, d)
                                     /\ \A d \in group : ~WaitsFor(c, d)
  BY DEF NobodyWaitsInVain
<1>0. TypeOK
  BY DEF Inv
\* Whoever is blocked waits for somebody.
<1>1. ASSUME NEW c \in group  PROVE \E d \in Caller : WaitsFor(c, d)
  <2>1. CASE (At(c, "want") \/ At(c, "between")) /\ writer # NoCaller
    BY <2>1, <1>0 DEF WaitsFor, TypeOK
  <2>2. CASE At(c, "drain") /\ readers # 0
    <3>1. PICK p \in Reading : TRUE
      BY <2>2, FS_EmptySet DEF LocksOK, LocksHaveOwners
    <3>2. p[1] \in Caller
      BY OpenPairs, Open DEF Reading
    <3> QED
      BY <2>2, <3>1, <3>2 DEF WaitsFor
  <2>3. CASE At(c, "lock") /\ Head(stack[c]).id \in locked
    <3>1. PICK p \in Owners(Head(stack[c]).id) : TRUE
      BY <2>3, <1>0 DEF LocksOK, LocksHaveOwners, TypeOK
    <3>2. p[1] \in Caller
      BY OpenPairs, Open DEF Owners
    <3> QED
      BY <2>3, <3>1, <3>2 DEF WaitsFor
  <2> QED
    BY <2>1, <2>2, <2>3 DEF Blocked
\* A registration in the way of others waits only for Triggers that go on.
<1>2. ASSUME NEW c \in group, At(c, "drain")
      PROVE  \A d \in group : ~WaitsFor(c, d)
  <2>1. Registering(c)
    BY <1>0, <1>2, RegisteringAt
  <2>2. \A p \in Reading : At(p[1], "run")
    BY <2>1, ReaderRuns
  <2>3. \A d \in group : ~At(d, "run")
    BY DEF Blocked, At
  <2> QED
    BY <1>2, <2>2, <2>3 DEF WaitsFor, At
<1>3. CASE \E c \in group : At(c, "drain")
  BY <1>1, <1>2, <1>3
<1>4. CASE (\A c \in group : ~At(c, "drain")) /\ writer \in group
  <2>1. writer # NoCaller
    BY <1>4, RegistryAssumption
  <2>2. At(writer, "store")
    BY <1>4, <2>1 DEF OrderOK, WriterOK
  <2>3. ~Blocked(writer)
    BY <2>2 DEF Blocked, At
  <2> QED
    BY <1>4, <2>3
\* Else one waits for someone outside, or all for mutexes: take that of the lowest rank.
<1>5. CASE (\A c \in group : ~At(c, "drain")) /\ writer \notin group
  <2>1. CASE \E c \in group : ~At(c, "lock")
    <3>1. PICK c \in group : ~At(c, "lock")
      BY <2>1
    <3>2. \A d \in group : ~WaitsFor(c, d)
      BY <3>1, <1>5 DEF WaitsFor
    <3> QED
      BY <1>1, <3>1, <3>2
  <2>2. CASE \A c \in group : At(c, "lock")
    <3> DEFINE ranks == {rank[Head(stack[c]).id] : c \in group}
    <3>1. \A c \in group : Head(stack[c]).id \in Id
      BY <1>0, <2>2, AtTop DEF CallFrame
    <3>2. ranks \in SUBSET Nat /\ ranks # {}
      BY <3>1
    <3>3. PICK least \in ranks : \A r \in ranks : least <= r
      <4> HIDE DEF ranks
      <4> QED
        BY <3>2, LeastRank
    <3>4. PICK c \in group : rank[Head(stack[c]).id] = least
      BY <3>3
    <3>5. ASSUME NEW d \in group, WaitsFor(c, d)  PROVE FALSE
      <4>1. PICK p \in Owners(Head(stack[c]).id) : p[1] = d
        BY <2>2, <3>5 DEF WaitsFor, At
      <4>2. rank[Head(stack[d]).id] < rank[Head(stack[c]).id] /\ At(d, "lock")
        BY <2>2, <3>1, <4>1, OwnersWaitLower
      <4>3. rank[Head(stack[d]).id] \in Nat /\ rank[Head(stack[c]).id] \in Nat
        BY <3>1
      <4>4. least <= rank[Head(stack[d]).id]
        BY <3>3
      <4> QED
        BY <3>4, <4>2, <4>3, <4>4
    <3> QED
      BY <1>1, <3>4, <3>5
  <2> QED
    BY <2>1, <2>2
<1> QED
  BY <1>3, <1>4, <1>5

\* If the handlers that call the manager do so only for transfers of lower ranks and the host
\* registers them last, no goroutines ever wait for each other, nor for locks that
\* nobody has: any number of Triggers, moves and registrations, nested and panicking,
\* go on until all have returned (hooks.go:29, transfer.go:365 and 381).
THEOREM NoDeadlock ==
    ASSUME ChainsLast, NEW rank \in [Id -> Nat], Downward(rank)
    PROVE  Spec => []NobodyWaitsInVain
<1>1. Init => OrderOK(rank)
  BY OrderInit
<1>2. Inv /\ OrderOK(rank) /\ [Next]_vars => OrderOK(rank)'
  BY OrderStep
<1>3. Inv /\ LocksOK /\ OrderOK(rank) => NobodyWaitsInVain
  BY NobodyWaits
<1> QED
  BY <1>1, <1>2, <1>3, InvInit, InvStep, LocksInit, LocksStep, PTL DEF Spec

=============================================================================
