--------------------------- MODULE IOManagerProofs ---------------------------
(***************************************************************************)
(* Proofs about the events of IOManager, for any number of fibers,         *)
(* callbacks, descriptors and idle workers, and with descriptors that are  *)
(* closed and contexts that contextResize loses, unless said otherwise.    *)
(***************************************************************************)
EXTENDS IOManager, FiniteSetTheorems, TLAPS

(* f is inside addEvent(fd, e), before or after contextResize.             *)
Adding(f, fd, e) == InCall(f, {"grow", "add"}, fd, e)

Gives(f, x) == call[f].op \in {"grow", "add"} /\ call[f].who = x

(* Somebody is in an EventContext exactly while its bit is in events.      *)
CtxInv == \A c \in Ctx, e \in Event : e \in events[c] <=> waiter[c][e] # None

(* While addEvent runs nobody else adds that event and no context of the   *)
(* descriptor has it, unless it was closed under a user; while delEvent    *)
(* runs nobody adds the event and no fiber is behind it.                   *)
AloneInv ==
    /\ \A f, g \in Fiber, fd \in Fd, e \in Event :
           Adding(f, fd, e) /\ Adding(g, fd, e) => f = g \/ fd \in overtaken
    /\ \A f \in Fiber, c \in Ctx, e \in Event :
           Adding(f, c.fd, e) => e \notin events[c] \/ c.fd \in overtaken
    /\ \A f \in Fiber : call[f].op = "del" =>
           /\ waiter[call[f].ctx][call[f].ev] \notin Fiber
           /\ \A g \in Fiber : ~Adding(g, call[f].ctx.fd, call[f].ev)

(* A fiber gives itself or a callback away, and a callback only one does.  *)
GiveInv ==
    /\ \A f \in Fiber, x \in Waiter : Gives(f, x) => x = f \/ x \in Callback
    /\ \A f, g \in Fiber, x \in Waiter : Gives(f, x) /\ Gives(g, x) => f = g

(* Who is in a context or is being given away is a user of the event,      *)
(* unless the descriptor was closed under one.                             *)
UseInv ==
    /\ \A f \in Fiber, x \in Waiter, fd \in Fd, e \in Event :
           Gives(f, x) /\ Adding(f, fd, e) => <<fd, e>> \in uses[x] \/ fd \in overtaken
    /\ \A c \in Ctx, e \in Event, x \in Waiter :
           waiter[c][e] = x => <<c.fd, e>> \in uses[x] \/ c.fd \in overtaken

Held(x) == \E c \in Ctx, e \in Event : waiter[c][e] = x

(* A waiter is in one place: one context, the scheduler's list, a call.    *)
PlaceInv(x) ==
    /\ \A c, d \in Ctx, e, h \in Event : waiter[c][e] = x /\ waiter[d][h] = x => c = d /\ e = h
    /\ scheduled[x] \in {0, 1}
    /\ Held(x) => scheduled[x] = 0
    /\ \A f \in Fiber : Gives(f, x) => ~Held(x) /\ scheduled[x] = 0

(* A fiber is in a context or scheduled exactly while it has yielded.      *)
HoldInv ==
    \A f \in Fiber : call[f].op = "hold" <=> Held(f) \/ scheduled[f] = 1

CountInv == IsFiniteSet(Waiting) /\ pending = Cardinality(Waiting)

Inv ==
    /\ TypeOK /\ CtxInv /\ AloneInv /\ GiveInv /\ UseInv
    /\ \A x \in Waiter : PlaceInv(x)
    /\ HoldInv /\ CountInv
    /\ aborted # "context"

-----------------------------------------------------------------------------
(* Without close().  The registration in epoll is what the context says,   *)
(* and every event that has come is in epoll's ready list or in a result   *)
(* that is not stale.                                                      *)

NoCloseInv ==
    /\ open = Fd
    /\ \A f \in Fiber : call[f].op # "close" /\ (call[f].op = "cancelAll" => ~call[f].close)

RegInv ==
    /\ \A c \in Ctx : events[c] # {} => reg[c.fd] = [mask |-> events[c], ctx |-> c]
    /\ \A fd \in Fd : Registered(fd) =>
           reg[fd].ctx.fd = fd /\ events[reg[fd].ctx] = reg[fd].mask /\ reg[fd].mask # {}

Fresh(r) == r.ev \cap Event \subseteq events[r.ctx]

Reported(c, e) ==
    cond[c.fd] \cap {e, "ERR"} # {} =>
        \/ edge[c.fd]
        \/ \E i \in Idler : \E r \in batch[i] :
               r.ctx = c /\ r.ev \cap {e, "ERR"} # {} /\ Fresh(r)

EdgeInv == \A c \in Ctx : \A e \in events[c] : Reported(c, e)

QuietInv == NoCloseInv /\ RegInv /\ EdgeInv

FullInv == Inv /\ (~MayClose => QuietInv)
-----------------------------------------------------------------------------
(* Calls and types *)

LEMMA CallFields ==
    ASSUME NEW k \in Call
    PROVE  /\ k.op = "grow" => k.fd \in Fd /\ k.ev \in Event /\ k.who \in Waiter
           /\ k.op = "add" => k.ctx \in Ctx /\ k.ev \in Event /\ k.who \in Waiter
           /\ k.op \in {"del", "cancel"} => k.ctx \in Ctx /\ k.ev \in Event
           /\ k.op = "cancelAll" => k.ctx \in Ctx /\ k.close \in BOOLEAN
           /\ k.op = "close" => k.fd \in Fd
    BY DEF Call, NoCall

LEMMA CallMakes ==
    /\ NoCall \in Call /\ [op |-> "hold"] \in Call
    /\ \A fd \in Fd, e \in Event, x \in Waiter : [op |-> "grow", fd |-> fd, ev |-> e, who |-> x] \in Call
    /\ \A c \in Ctx, e \in Event, x \in Waiter : [op |-> "add", ctx |-> c, ev |-> e, who |-> x] \in Call
    /\ \A c \in Ctx, e \in Event : /\ [op |-> "del", ctx |-> c, ev |-> e] \in Call
                                   /\ [op |-> "cancel", ctx |-> c, ev |-> e] \in Call
    /\ \A c \in Ctx, b \in BOOLEAN : [op |-> "cancelAll", ctx |-> c, close |-> b] \in Call
    /\ \A fd \in Fd : [op |-> "close", fd |-> fd] \in Call
    BY DEF Call

TableType == size \in Nat /\ gen \in [Fd -> 0 .. MaxGen]
CtxType ==
    /\ events \in [Ctx -> SUBSET Event] /\ waiter \in [Ctx -> [Event -> Waiter \cup {None}]]
    /\ pending \in Nat /\ scheduled \in [Waiter -> Nat]
KernelType ==
    /\ reg \in [Fd -> [mask : SUBSET Event, ctx : Ctx] \cup {NotRegistered}]
    /\ edge \in [Fd -> BOOLEAN] /\ cond \in [Fd -> SUBSET Ready] /\ open \subseteq Fd
RestType ==
    /\ call \in [Fiber -> Call] /\ batch \in [Idler -> SUBSET Result]
    /\ aborted \in {"no", "events", "context", "triggerEvent"}
UseType == uses \in [Waiter -> SUBSET (Fd \X Event)] /\ overtaken \subseteq Fd

LEMMA TypeParts == TypeOK <=> TableType /\ CtxType /\ KernelType /\ RestType /\ UseType
    BY DEF TypeOK, TableType, CtxType, KernelType, RestType, UseType

LEMMA EpollCtlType ==
    ASSUME KernelType, NEW op, NEW c \in Ctx, NEW mask \in SUBSET Event, EpollCtl(op, c, mask)
    PROVE  KernelType'
    <1>1. c.fd \in Fd
        BY DEF Ctx
    <1>2. [mask |-> mask, ctx |-> c] \in [mask : SUBSET Event, ctx : Ctx]
        OBVIOUS
    <1>3. reg' \in [Fd -> [mask : SUBSET Event, ctx : Ctx] \cup {NotRegistered}]
        BY <1>1, <1>2 DEF EpollCtl, KernelType
    <1>4. edge' \in [Fd -> BOOLEAN]
        BY <1>1 DEF EpollCtl, KernelType
    <1> QED
        BY <1>3, <1>4 DEF EpollCtl, KernelType

LEMMA CtxOfType == ASSUME TableType, NEW fd \in Fd PROVE CtxOf(fd) \in Ctx /\ CtxOf(fd).fd = fd
    BY DEF TableType, CtxOf, Ctx

-----------------------------------------------------------------------------
(* Steps that leave the contexts alone and start no addEvent or delEvent   *)

(* A call that is not a wait ends, or one that only cancels starts.        *)
Passive == {"run", "close", "cancel", "cancelAll"}
CallShrinks ==
    /\ call' \in [Fiber -> Call]
    /\ \A g \in Fiber : call'[g] = call[g] \/ (call[g].op # "hold" /\ call'[g].op \in Passive)

CoreInv == CtxInv /\ AloneInv /\ GiveInv /\ (\A x \in Waiter : PlaceInv(x)) /\ HoldInv /\ CountInv

LEMMA Shrinks ==
    ASSUME CallShrinks
    PROVE  /\ \A g \in Fiber, fd \in Fd, e \in Event : Adding(g, fd, e)' => Adding(g, fd, e)
           /\ \A g \in Fiber, x \in Waiter : Gives(g, x)' => Gives(g, x)
           /\ \A g \in Fiber : call'[g].op = "hold" <=> call[g].op = "hold"
           /\ \A g \in Fiber : call'[g].op = "del" => call'[g] = call[g]
    BY DEF CallShrinks, Passive, Adding, InCall, Gives

LEMMA PassiveStep ==
    ASSUME Inv, CallShrinks, UNCHANGED <<ctxVars, scheduled>>, overtaken \subseteq overtaken'
    PROVE  CoreInv'
    <1>0. call \in [Fiber -> Call] /\ \A c \in Ctx : c.fd \in Fd
        BY DEF Inv, TypeOK, Ctx
    <1>1. CtxInv'
        BY DEF Inv, CtxInv, ctxVars
    <1>2. AloneInv'
        BY <1>0, Shrinks, CallFields DEF Inv, AloneInv, ctxVars
    <1>3. GiveInv'
        BY Shrinks DEF Inv, GiveInv
    <1>4. \A x \in Waiter : Held(x)' <=> Held(x)
        BY DEF Held, ctxVars
    <1>5. (\A x \in Waiter : PlaceInv(x))'
        BY <1>4, Shrinks DEF Inv, PlaceInv, ctxVars
    <1>6. HoldInv'
        BY <1>4, Shrinks DEF Inv, HoldInv, Waiter
    <1>7. CountInv'
        BY DEF Inv, CountInv, Waiting, ctxVars
    <1> QED
        BY <1>1, <1>2, <1>3, <1>5, <1>6, <1>7 DEF CoreInv

-----------------------------------------------------------------------------
(* Trigger *)

LEMMA EventSets ==
    ASSUME NEW es \in SUBSET Event
    PROVE  es \in {{}, {"READ"}, {"WRITE"}, {"READ", "WRITE"}}
    BY DEF Event

LEMMA EventCount ==
    ASSUME NEW es \in SUBSET Event
    PROVE  /\ IsFiniteSet(es)
           /\ Cardinality(es) = (IF "READ" \in es THEN 1 ELSE 0) + (IF "WRITE" \in es THEN 1 ELSE 0)
    <1>1. Cardinality({"READ", "WRITE"}) = 2 /\ IsFiniteSet({"READ", "WRITE"})
        <2>1. {"READ", "WRITE"} = {"READ"} \cup {"WRITE"}
            OBVIOUS
        <2>2. IsFiniteSet({"READ"}) /\ Cardinality({"READ"}) = 1
            BY FS_Singleton
        <2> QED
            BY <2>1, <2>2, FS_AddElement
    <1>2. /\ IsFiniteSet({"READ"}) /\ Cardinality({"READ"}) = 1
          /\ IsFiniteSet({"WRITE"}) /\ Cardinality({"WRITE"}) = 1
          /\ IsFiniteSet({}) /\ Cardinality({}) = 0
        BY FS_Singleton, FS_EmptySet
    <1> QED
        BY <1>1, <1>2, EventSets

LEMMA OneLess ==
    ASSUME NEW S, IsFiniteSet(S), NEW x \in S
    PROVE  IsFiniteSet(S \ {x}) /\ Cardinality(S \ {x}) = Cardinality(S) - 1
    BY FS_RemoveElement

LEMMA OneMore ==
    ASSUME NEW S, IsFiniteSet(S), NEW x, x \notin S
    PROVE  IsFiniteSet(S \cup {x}) /\ Cardinality(S \cup {x}) = Cardinality(S) + 1
    BY FS_AddElement

(* Taking events out of one context takes as many pairs out of Waiting.    *)
LEMMA WaitingLess ==
    ASSUME IsFiniteSet(Waiting), NEW c \in Ctx, events \in [Ctx -> SUBSET Event],
           NEW es \in SUBSET events[c], events' = [events EXCEPT ![c] = @ \ es]
    PROVE  /\ IsFiniteSet(Waiting') /\ Cardinality(Waiting') = Cardinality(Waiting) - Cardinality(es)
           /\ Cardinality(Waiting') \in Nat
    <1>1. Waiting' = (Waiting \ {<<c, e>> : e \in es})
        BY DEF Waiting
    <1> DEFINE R == IF "READ" \in es THEN Waiting \ {<<c, "READ">>} ELSE Waiting
    <1>2. Waiting' = IF "WRITE" \in es THEN R \ {<<c, "WRITE">>} ELSE R
        BY <1>1 DEF Event, Waiting
    <1>3. "READ" \in es => <<c, "READ">> \in Waiting
        BY DEF Waiting, Event
    <1>4. "WRITE" \in es => <<c, "WRITE">> \in R
        BY DEF Waiting, Event
    <1>5. Cardinality(Waiting) \in Nat
        BY FS_CardinalityType
    <1>6. /\ IsFiniteSet(R)
          /\ Cardinality(R) = Cardinality(Waiting) - (IF "READ" \in es THEN 1 ELSE 0)
        <2>1. CASE "READ" \in es
            <3>1. R = Waiting \ {<<c, "READ">>}
                BY <2>1
            <3>2. IsFiniteSet(Waiting \ {<<c, "READ">>})
                BY FS_RemoveElement
            <3>3. Cardinality(Waiting \ {<<c, "READ">>}) = Cardinality(Waiting) - 1
                BY <1>3, <2>1, OneLess
            <3> HIDE DEF R
            <3> QED
                BY <2>1, <3>1, <3>2, <3>3
        <2>2. CASE "READ" \notin es
            BY <2>2, <1>5
        <2> QED
            BY <2>1, <2>2
    <1> HIDE DEF R
    <1>7. /\ IsFiniteSet(Waiting')
          /\ Cardinality(Waiting') = Cardinality(R) - (IF "WRITE" \in es THEN 1 ELSE 0)
        <2>1. CASE "WRITE" \in es
            <3>1. IsFiniteSet(R \ {<<c, "WRITE">>})
                BY <1>6, FS_RemoveElement
            <3>2. Cardinality(R \ {<<c, "WRITE">>}) = Cardinality(R) - 1
                BY <1>4, <1>6, <2>1, OneLess
            <3> QED
                BY <1>2, <2>1, <3>1, <3>2
        <2>2. CASE "WRITE" \notin es
            BY <2>2, <1>2, <1>5, <1>6
        <2> QED
            BY <2>1, <2>2
    <1>8. Cardinality(Waiting') \in Nat
        BY <1>7, FS_CardinalityType
    <1>9. es \in SUBSET Event
        OBVIOUS
    <1> QED
        BY <1>5, <1>6, <1>7, <1>8, <1>9, EventCount

LEMMA TriggerStep ==
    ASSUME Inv, CallShrinks, NEW c \in Ctx, NEW es \in SUBSET events[c], Trigger(c, es),
           UNCHANGED overtaken
    PROVE  CoreInv' /\ CtxType'
    <1> DEFINE hit(x) == {e \in es : waiter[c][e] = x}
    <1>0. /\ call \in [Fiber -> Call] /\ \A d \in Ctx : d.fd \in Fd
          /\ events \in [Ctx -> SUBSET Event] /\ waiter \in [Ctx -> [Event -> Waiter \cup {None}]]
          /\ scheduled \in [Waiter -> Nat] /\ es \subseteq Event /\ None \notin Waiter
        BY IOManagerAssumption DEF Inv, TypeOK, Ctx, Waiter
    <1>1. /\ events' = [events EXCEPT ![c] = @ \ es] /\ events' \in [Ctx -> SUBSET Event]
          /\ \A d \in Ctx, e \in Event : e \in events'[d] <=> e \in events[d] /\ ~(d = c /\ e \in es)
        BY <1>0 DEF Trigger
    <1>2. /\ waiter' \in [Ctx -> [Event -> Waiter \cup {None}]]
          /\ \A d \in Ctx, e \in Event :
                 waiter'[d][e] = IF d = c /\ e \in es THEN None ELSE waiter[d][e]
        BY <1>0 DEF Trigger
    <1>3. CtxInv'
        BY <1>0, <1>1, <1>2 DEF Inv, CtxInv
    <1>4. CountInv' /\ pending' \in Nat
        BY <1>0, <1>1, WaitingLess DEF Inv, CountInv, Trigger
    <1>5. AloneInv'
        <2>1. \A d \in Ctx, e \in Event : waiter'[d][e] \in Fiber => waiter[d][e] \in Fiber
            BY <1>0, <1>2 DEF Waiter
        <2> QED
            BY <1>0, <1>1, <2>1, Shrinks, CallFields DEF Inv, AloneInv
    <1>6. GiveInv'
        BY Shrinks DEF Inv, GiveInv
    <1>7. ASSUME NEW x \in Waiter
          PROVE  /\ scheduled'[x] = scheduled[x] + (IF hit(x) = {} THEN 0 ELSE 1)
                 /\ Held(x)' => Held(x)
                 /\ hit(x) # {} => Held(x) /\ ~Held(x)'
                 /\ Held(x) /\ hit(x) = {} => Held(x)'
        <2>1. \A e, h \in hit(x) : e = h
            BY <1>0 DEF Inv, PlaceInv
        <2>2. hit(x) = {} \/ \E e \in Event : hit(x) = {e}
            BY <1>0, <2>1
        <2>3. Cardinality(hit(x)) = IF hit(x) = {} THEN 0 ELSE 1
            <3> HIDE DEF hit
            <3> QED
                BY <2>2, FS_EmptySet, FS_Singleton
        <2>4. scheduled'[x] = scheduled[x] + Cardinality(hit(x))
            BY DEF Trigger
        <2>5. Held(x)' => Held(x)
            BY <1>0, <1>2 DEF Held
        <2>6. hit(x) # {} => Held(x) /\ ~Held(x)'
            BY <1>0, <1>2 DEF Held, Inv, PlaceInv
        <2>7. Held(x) /\ hit(x) = {} => Held(x)'
            BY <1>0, <1>2 DEF Held
        <2> QED
            BY <2>3, <2>4, <2>5, <2>6, <2>7
    <1>8. scheduled' \in [Waiter -> Nat]
        <2>1. \A x \in Waiter : scheduled'[x] \in Nat
            BY <1>0, <1>7
        <2> QED
            BY <2>1 DEF Trigger
    <1> HIDE DEF hit
    <1>9. (\A x \in Waiter : PlaceInv(x))'
        <2> SUFFICES ASSUME NEW x \in Waiter PROVE PlaceInv(x)'
            OBVIOUS
        <2>1. PlaceInv(x)
            BY DEF Inv
        <2>2. \A d, b \in Ctx, e, h \in Event : waiter'[d][e] = x /\ waiter'[b][h] = x => d = b /\ e = h
            <3> SUFFICES ASSUME NEW d \in Ctx, NEW b \in Ctx, NEW e \in Event, NEW h \in Event,
                                waiter'[d][e] = x, waiter'[b][h] = x
                         PROVE  d = b /\ e = h
                OBVIOUS
            <3>1. waiter[d][e] = x /\ waiter[b][h] = x
                BY <1>0, <1>2
            <3> QED
                BY <2>1, <3>1 DEF PlaceInv
        <2>3. scheduled'[x] \in {0, 1} /\ (Held(x)' => scheduled'[x] = 0)
            BY <1>0, <1>7, <2>1 DEF PlaceInv
        <2>4. \A f \in Fiber : Gives(f, x)' => ~Held(x)' /\ scheduled'[x] = 0
            BY <1>0, <1>7, <2>1, Shrinks DEF PlaceInv
        <2> QED
            BY <2>2, <2>3, <2>4 DEF PlaceInv
    <1>10. HoldInv'
        <2> SUFFICES ASSUME NEW f \in Fiber
                     PROVE  call'[f].op = "hold" <=> Held(f)' \/ scheduled'[f] = 1
            BY DEF HoldInv
        <2>1. f \in Waiter /\ PlaceInv(f) /\ (call[f].op = "hold" <=> Held(f) \/ scheduled[f] = 1)
            BY DEF Inv, HoldInv, Waiter
        <2> QED
            BY <1>0, <1>7, <2>1, Shrinks DEF PlaceInv
    <1> QED
        BY <1>1, <1>2, <1>3, <1>4, <1>5, <1>6, <1>8, <1>9, <1>10 DEF CoreInv, CtxType

-----------------------------------------------------------------------------
(* The calls *)

LEMMA InvFacts ==
    ASSUME Inv
    PROVE  /\ TableType /\ CtxType /\ KernelType /\ RestType /\ UseType
           /\ \A d \in Ctx : d.fd \in Fd
           /\ None \notin Waiter /\ Fiber \cap Callback = {} /\ Waiter = Fiber \cup Callback
    BY TypeParts, IOManagerAssumption DEF Inv, Ctx, Waiter

UseOK == UseType /\ UseInv

(* Nobody comes to be a user, and who is not one any more is nowhere.      *)
LEMMA UseStep ==
    ASSUME Inv, overtaken' = overtaken, uses' \in [Waiter -> SUBSET (Fd \X Event)],
           \A f \in Fiber, x \in Waiter : Gives(f, x)' => Gives(f, x),
           \A f \in Fiber, fd \in Fd, e \in Event : Adding(f, fd, e)' => Adding(f, fd, e),
           \A c \in Ctx, e \in Event : waiter'[c][e] \in {waiter[c][e], None},
           \A x \in Waiter :
               \/ uses'[x] = uses[x]
               \/ /\ \A f \in Fiber : ~Gives(f, x)'
                  /\ \A c \in Ctx, e \in Event : waiter'[c][e] # x
    PROVE  UseOK'
    <1>1. UseType'
        BY InvFacts DEF UseType
    <1>2. ASSUME NEW f \in Fiber, NEW x \in Waiter, NEW fd \in Fd, NEW e \in Event,
                 Gives(f, x)', Adding(f, fd, e)'
          PROVE  <<fd, e>> \in uses'[x] \/ fd \in overtaken'
        BY <1>2 DEF Inv, UseInv
    <1>3. ASSUME NEW c \in Ctx, NEW e \in Event, NEW x \in Waiter, waiter'[c][e] = x
          PROVE  <<c.fd, e>> \in uses'[x] \/ c.fd \in overtaken'
        BY <1>3, InvFacts DEF Inv, UseInv
    <1> QED
        BY <1>1, <1>2, <1>3 DEF UseOK, UseInv

LEMMA UseSame ==
    ASSUME Inv, CallShrinks, UNCHANGED useVars,
           \A c \in Ctx, e \in Event : waiter'[c][e] \in {waiter[c][e], None}
    PROVE  UseOK'
    <1>1. overtaken' = overtaken /\ uses' = uses /\ uses \in [Waiter -> SUBSET (Fd \X Event)]
        BY InvFacts DEF useVars, UseType
    <1>2. /\ \A f \in Fiber, x \in Waiter : Gives(f, x)' => Gives(f, x)
          /\ \A f \in Fiber, fd \in Fd, e \in Event : Adding(f, fd, e)' => Adding(f, fd, e)
        BY Shrinks
    <1> QED
        BY <1>1, <1>2, UseStep

LEMMA TriggerWaiters ==
    ASSUME CtxType, NEW c \in Ctx, NEW es, Trigger(c, es)
    PROVE  \A d \in Ctx, e \in Event : waiter'[d][e] \in {waiter[d][e], None}
    BY DEF Trigger, CtxType

(* A user of a descriptor that is closed is one of those it is closed      *)
(* under: who is in a context or is being given away is not scheduled.     *)
LEMMA CloseUse ==
    ASSUME Inv, NEW f \in Fiber, Close(f), CallShrinks, call[f].fd \in Fd
    PROVE  UseOK' /\ overtaken \subseteq overtaken'
    <1> DEFINE fd == call[f].fd
    <1>1. /\ overtaken' = overtaken \cup {n \in {fd} : \E e \in Event : UsersOf(n, e) # {}}
          /\ uses' = [x \in Waiter |-> uses[x] \ ({fd} \X Event)]
          /\ UNCHANGED waiter
        BY DEF Close, ctxVars
    <1> HIDE DEF fd
    <1>2. UseType' /\ overtaken \subseteq overtaken'
        BY <1>1, InvFacts DEF UseType, fd
    <1>3. ASSUME NEW x \in Waiter, NEW n \in Fd, NEW e \in Event, scheduled[x] = 0,
                 <<n, e>> \in uses[x] \/ n \in overtaken
          PROVE  <<n, e>> \in uses'[x] \/ n \in overtaken'
        <2>1. CASE n = fd
            BY <1>1, <1>3, <2>1 DEF UsersOf
        <2>2. CASE n # fd
            BY <1>1, <1>3, <2>2
        <2> QED
            BY <2>1, <2>2
    <1>4. ASSUME NEW g \in Fiber, NEW x \in Waiter, NEW n \in Fd, NEW e \in Event,
                 Gives(g, x)', Adding(g, n, e)'
          PROVE  <<n, e>> \in uses'[x] \/ n \in overtaken'
        <2>1. Gives(g, x) /\ Adding(g, n, e) /\ scheduled[x] = 0
            BY <1>4, Shrinks DEF Inv, PlaceInv
        <2> QED
            BY <1>3, <2>1 DEF Inv, UseInv
    <1>5. ASSUME NEW c \in Ctx, NEW e \in Event, NEW x \in Waiter, waiter'[c][e] = x
          PROVE  <<c.fd, e>> \in uses'[x] \/ c.fd \in overtaken'
        <2>1. waiter[c][e] = x /\ scheduled[x] = 0 /\ c.fd \in Fd
            BY <1>1, <1>5, InvFacts DEF Inv, PlaceInv, Held
        <2> QED
            BY <1>3, <2>1 DEF Inv, UseInv
    <1> QED
        BY <1>2, <1>4, <1>5 DEF UseOK, UseInv

(* Steps that leave the contexts alone, for what each does to the calls    *)
LEMMA CallStep ==
    ASSUME Inv, UNCHANGED <<ctxVars, scheduled>>, AloneInv', GiveInv',
           \A f \in Fiber : call'[f].op = "hold" <=> call[f].op = "hold",
           \A f \in Fiber, x \in Waiter : Gives(f, x)' => Gives(f, x) \/ (~Held(x) /\ scheduled[x] = 0)
    PROVE  CoreInv'
    <1>1. CtxInv' /\ CountInv'
        BY DEF Inv, CtxInv, CountInv, Waiting, ctxVars
    <1>2. \A x \in Waiter : Held(x)' <=> Held(x)
        BY DEF Held, ctxVars
    <1>3. (\A x \in Waiter : PlaceInv(x))'
        BY <1>2 DEF Inv, PlaceInv, ctxVars
    <1>4. HoldInv'
        BY <1>2 DEF Inv, HoldInv, Waiter
    <1> QED
        BY <1>1, <1>3, <1>4 DEF CoreInv

LEMMA AddEventInv ==
    ASSUME Inv, NEW f \in Fiber, NEW fd \in Fd, NEW e \in Event, NEW who \in {f} \cup Callback,
           AddEvent(f, fd, e, who)
    PROVE  CoreInv' /\ UseOK' /\ call' \in [Fiber -> Call]
    <1> DEFINE k == IF fd < size THEN [op |-> "add", ctx |-> CtxOf(fd), ev |-> e, who |-> who]
                                 ELSE [op |-> "grow", fd |-> fd, ev |-> e, who |-> who]
    <1>0. call \in [Fiber -> Call] /\ who \in Waiter /\ CtxOf(fd) \in Ctx /\ CtxOf(fd).fd = fd
        BY InvFacts, CtxOfType DEF RestType
    <1>1. /\ k \in Call /\ k.op \in {"add", "grow"} /\ k.ev = e /\ k.who = who
          /\ (IF k.op = "grow" THEN k.fd ELSE k.ctx.fd) = fd
        BY <1>0, CallMakes
    <1>2. /\ call[f].op = "run" /\ call' = [call EXCEPT ![f] = k] /\ UNCHANGED <<ctxVars, scheduled>>
        BY DEF AddEvent, NoCall
    <1> HIDE DEF k
    <1>3. /\ call' \in [Fiber -> Call] /\ call'[f] = k
          /\ \A g \in Fiber : g # f => call'[g] = call[g]
        BY <1>0, <1>1, <1>2
    <1>4. /\ \A n \in Fd, h \in Event : Adding(f, n, h)' <=> n = fd /\ h = e
          /\ \A x \in Waiter : Gives(f, x)' <=> x = who
        BY <1>0, <1>1, <1>3 DEF Adding, InCall, Gives
    <1>5. ASSUME NEW g \in Fiber, g # f
          PROVE  /\ \A n \in Fd, h \in Event : Adding(g, n, h)' <=> Adding(g, n, h)
                 /\ \A x \in Waiter : Gives(g, x)' <=> Gives(g, x)
                 /\ ~(call[g].op = "del" /\ call[g].ctx.fd = fd /\ call[g].ev = e)
        BY <1>3, <1>5 DEF Adding, Gives, AddEvent, NobodyIn, InCall
    <1>6. ASSUME fd \notin overtaken
          PROVE  /\ \A c \in Ctx : c.fd = fd => e \notin events[c]
                 /\ \A g \in Fiber : ~Adding(g, fd, e)
        <2>1. \A x \in Waiter : scheduled[x] = 0 => <<fd, e>> \notin uses[x]
            BY DEF AddEvent, UsersOf
        <2>2. ASSUME NEW c \in Ctx, c.fd = fd, e \in events[c] PROVE FALSE
            <3>1. waiter[c][e] \in Waiter
                BY <2>2, InvFacts DEF Inv, CtxInv, CtxType
            <3>2. scheduled[waiter[c][e]] = 0 /\ <<fd, e>> \in uses[waiter[c][e]]
                BY <1>6, <2>2, <3>1 DEF Inv, UseInv, PlaceInv, Held
            <3> QED
                BY <2>1, <3>1, <3>2
        <2>3. ASSUME NEW g \in Fiber, Adding(g, fd, e) PROVE FALSE
            <3>1. call[g].op \in {"grow", "add"} /\ call[g].who \in Waiter /\ Gives(g, call[g].who)
                BY <1>0, <2>3, CallFields DEF Adding, InCall, Gives
            <3>2. scheduled[call[g].who] = 0 /\ <<fd, e>> \in uses[call[g].who]
                BY <1>6, <2>3, <3>1 DEF Inv, UseInv, PlaceInv
            <3> QED
                BY <2>1, <3>1, <3>2
        <2> QED
            BY <2>2, <2>3
    <1>b. overtaken' = overtaken /\ uses' = [uses EXCEPT ![who] = {<<fd, e>>}]
        BY DEF AddEvent
    <1>7. AloneInv'
        <2>1. \A c \in Ctx : c.fd \in Fd
            BY InvFacts
        <2>2. \A g, h \in Fiber, n \in Fd, a \in Event :
                  Adding(g, n, a)' /\ Adding(h, n, a)' => g = h \/ n \in overtaken'
            BY <1>4, <1>5, <1>6, <1>b DEF Inv, AloneInv
        <2>3. \A g \in Fiber, c \in Ctx, h \in Event :
                  Adding(g, c.fd, h)' => h \notin events'[c] \/ c.fd \in overtaken'
            BY <1>2, <1>4, <1>5, <1>6, <1>b, <2>1 DEF Inv, AloneInv, ctxVars
        <2>4. ASSUME NEW g \in Fiber, call'[g].op = "del"
              PROVE  /\ waiter'[call'[g].ctx][call'[g].ev] \notin Fiber
                     /\ \A h \in Fiber : ~Adding(h, call[g].ctx.fd, call[g].ev)'
            <3>1. g # f /\ call'[g] = call[g] /\ call[g].ctx \in Ctx /\ call[g].ev \in Event
                BY <1>0, <1>1, <1>3, <2>4, CallFields
            <3>2. call[g].ctx.fd \in Fd
                BY <2>1, <3>1
            <3>3. waiter'[call'[g].ctx][call'[g].ev] \notin Fiber
                BY <1>2, <2>4, <3>1 DEF Inv, AloneInv, ctxVars
            <3>4. \A h \in Fiber : ~Adding(h, call[g].ctx.fd, call[g].ev)'
                BY <1>4, <1>5, <2>4, <3>1, <3>2 DEF Inv, AloneInv
            <3> QED
                BY <3>3, <3>4
        <2> QED
            BY <2>2, <2>3, <2>4 DEF AloneInv
    <1>8. ~Held(who) /\ scheduled[who] = 0 /\ \A g \in Fiber : g # f => ~Gives(g, who)
        <2>1. CASE who = f
            BY <1>0, <1>2, <2>1, InvFacts DEF Inv, HoldInv, PlaceInv, GiveInv
        <2>2. CASE who # f
            BY <1>0, <2>2 DEF AddEvent, Free, Held, Gives
        <2> QED
            BY <2>1, <2>2
    <1>9. GiveInv'
        BY <1>0, <1>4, <1>5, <1>8 DEF Inv, GiveInv
    <1>10. /\ \A g \in Fiber : call'[g].op = "hold" <=> call[g].op = "hold"
           /\ \A g \in Fiber, x \in Waiter : Gives(g, x)' => Gives(g, x) \/ (~Held(x) /\ scheduled[x] = 0)
        BY <1>1, <1>2, <1>3, <1>4, <1>5, <1>8
    <1>11. UseOK'
        <2>1. UseType'
            BY <1>0, <1>b, InvFacts DEF UseType
        <2>2. /\ uses'[who] = {<<fd, e>>} /\ \A x \in Waiter : x # who => uses'[x] = uses[x]
            BY <1>0, <1>b, InvFacts DEF UseType
        <2>3. ASSUME NEW g \in Fiber, NEW x \in Waiter, NEW n \in Fd, NEW h \in Event,
                     Gives(g, x)', Adding(g, n, h)'
              PROVE  <<n, h>> \in uses'[x] \/ n \in overtaken'
            <3>1. CASE g = f
                BY <1>4, <2>2, <2>3, <3>1
            <3>2. CASE g # f
                BY <1>5, <1>8, <1>b, <2>2, <2>3, <3>2 DEF Inv, UseInv
            <3> QED
                BY <3>1, <3>2
        <2>4. ASSUME NEW c \in Ctx, NEW h \in Event, NEW x \in Waiter, waiter'[c][h] = x
              PROVE  <<c.fd, h>> \in uses'[x] \/ c.fd \in overtaken'
            <3>1. waiter[c][h] = x /\ x # who
                BY <1>2, <1>8, <2>4 DEF ctxVars, Held
            <3> QED
                BY <1>b, <2>2, <3>1 DEF Inv, UseInv
        <2> QED
            BY <2>1, <2>3, <2>4 DEF UseOK, UseInv
    <1> QED
        BY <1>2, <1>3, <1>7, <1>9, <1>10, <1>11, CallStep

LEMMA ContextResizeInv ==
    ASSUME Inv, NEW f \in Fiber, ContextResize(f)
    PROVE  CoreInv' /\ UseOK' /\ call' \in [Fiber -> Call] /\ TableType'
    <1> DEFINE fd == call[f].fd
               k == [op |-> "add", ctx |-> [fd |-> fd, gen |-> gen'[fd]], ev |-> call[f].ev,
                     who |-> call[f].who]
    <1>0. /\ call \in [Fiber -> Call] /\ call[f].op = "grow"
          /\ fd \in Fd /\ call[f].ev \in Event /\ call[f].who \in Waiter
        BY InvFacts, CallFields DEF RestType, ContextResize
    <1>1. TableType'
        <2>1. \A n \in Nat : (3 * n) \div 2 \in Nat
            OBVIOUS
        <2>2. size' \in Nat
            BY <1>0, <2>1, IOManagerAssumption DEF ContextResize
        <2>3. gen' \in [Fd -> 0 .. MaxGen]
            BY InvFacts, IOManagerAssumption DEF ContextResize, TableType
        <2> QED
            BY <2>2, <2>3 DEF TableType
    <1>2. [fd |-> fd, gen |-> gen'[fd]] \in Ctx
        BY <1>0, <1>1 DEF TableType, Ctx
    <1>3. /\ k \in Call /\ k.op = "add" /\ k.ev = call[f].ev /\ k.who = call[f].who /\ k.ctx.fd = fd
        BY <1>0, <1>2, CallMakes
    <1>4. call' = [call EXCEPT ![f] = k] /\ UNCHANGED <<ctxVars, scheduled, useVars>>
        BY DEF ContextResize
    <1> HIDE DEF k
    <1>5. /\ call' \in [Fiber -> Call] /\ call'[f] = k
          /\ \A g \in Fiber : g # f => call'[g] = call[g]
        BY <1>0, <1>3, <1>4
    <1>6. /\ \A g \in Fiber : \A n, h : Adding(g, n, h)' <=> Adding(g, n, h)
          /\ \A g \in Fiber, x \in Waiter : Gives(g, x)' <=> Gives(g, x)
          /\ \A g \in Fiber : call'[g].op \in {"hold", "del"} => call'[g] = call[g]
          /\ \A g \in Fiber : call[g].op \in {"hold", "del"} => call'[g] = call[g]
        BY <1>0, <1>3, <1>5 DEF Adding, InCall, Gives
    <1>7. AloneInv' /\ GiveInv'
        BY <1>4, <1>6 DEF Inv, AloneInv, GiveInv, ctxVars, useVars
    <1>8. UseOK'
        BY <1>4, <1>6, InvFacts, UseStep DEF ctxVars, useVars, UseType
    <1> QED
        BY <1>1, <1>4, <1>5, <1>6, <1>7, <1>8, CallStep

LEMMA BeginDelInv ==
    ASSUME Inv, NEW f \in Fiber, NEW fd \in Fd, NEW e \in Event, BeginDel(f, fd, e)
    PROVE  CoreInv' /\ UseOK' /\ call' \in [Fiber -> Call]
    <1> DEFINE c == CtxOf(fd)
               k == [op |-> "del", ctx |-> c, ev |-> e]
    <1>0. call \in [Fiber -> Call] /\ c \in Ctx /\ c.fd = fd
        BY InvFacts, CtxOfType DEF RestType
    <1>1. /\ k \in Call /\ k.op = "del" /\ k.ev = e /\ k.ctx = c
        BY <1>0, CallMakes
    <1>2. /\ call[f].op = "run" /\ call' = [call EXCEPT ![f] = k]
          /\ UNCHANGED <<ctxVars, scheduled, useVars>>
          /\ waiter[c][e] \in Callback
        BY DEF BeginDel, NoCall
    <1> HIDE DEF k, c
    <1>3. /\ call' \in [Fiber -> Call] /\ call'[f] = k
          /\ \A g \in Fiber : g # f => call'[g] = call[g]
        BY <1>0, <1>1, <1>2
    <1>4. /\ \A g \in Fiber : \A n, h : Adding(g, n, h)' <=> Adding(g, n, h)
          /\ \A g \in Fiber, x \in Waiter : Gives(g, x)' <=> Gives(g, x)
          /\ \A g \in Fiber : call'[g].op = "hold" <=> call[g].op = "hold"
        BY <1>1, <1>2, <1>3 DEF Adding, InCall, Gives
    <1>5. waiter[c][e] \notin Fiber /\ \A g \in Fiber : ~Adding(g, fd, e)
        BY <1>0, <1>2, InvFacts DEF BeginDel, NobodyIn, Adding
    <1>6. GiveInv'
        BY <1>4 DEF Inv, GiveInv
    <1>7. AloneInv'
        BY <1>0, <1>1, <1>2, <1>3, <1>4, <1>5 DEF Inv, AloneInv, ctxVars, useVars
    <1>8. UseOK'
        BY <1>2, <1>4, InvFacts, UseStep DEF ctxVars, useVars, UseType
    <1> QED
        BY <1>2, <1>3, <1>4, <1>6, <1>7, <1>8, CallStep

(* Add: the first assertion fails, epoll_ctl does, or the event is waited  *)
(* for in a context that is clean.                                         *)
AddAborts(f, c, e) ==
    /\ e \in events[c] /\ aborted' = "events"
    /\ UNCHANGED <<ctxVars, kernelVars, call, useVars>>
AddFails(f) == Return(f) /\ Release(call[f].who) /\ UNCHANGED <<ctxVars, kernelVars, aborted>>
AddWorks(f, c, e) ==
    /\ e \notin events[c] /\ waiter[c][e] = None
    /\ EpollCtl(IF events[c] = {} THEN "ADD" ELSE "MOD", c, events[c] \cup {e})
    /\ ~CtlFails(IF events[c] = {} THEN "ADD" ELSE "MOD", c.fd)
    /\ pending' = pending + 1
    /\ events' = [events EXCEPT ![c] = @ \cup {e}]
    /\ aborted' = "no"
    /\ waiter' = [waiter EXCEPT ![c][e] = call[f].who]
    /\ call' = [call EXCEPT ![f] = IF call[f].who = f THEN [op |-> "hold"] ELSE NoCall]
    /\ UNCHANGED useVars

LEMMA AddCases ==
    ASSUME Inv, NEW f \in Fiber, Add(f)
    PROVE  /\ call[f].op = "add" /\ call[f].ctx \in Ctx /\ call[f].ev \in Event
           /\ call[f].who \in Waiter
           /\ \/ AddAborts(f, call[f].ctx, call[f].ev)
              \/ AddFails(f)
              \/ AddWorks(f, call[f].ctx, call[f].ev)
           /\ UNCHANGED <<tableVars, scheduled, batch>>
    <1>1. /\ call[f].op = "add" /\ call[f].ctx \in Ctx /\ call[f].ev \in Event /\ call[f].who \in Waiter
        BY InvFacts, CallFields DEF RestType, Add
    <1>2. call[f].ev \notin events[call[f].ctx] => waiter[call[f].ctx][call[f].ev] = None
        BY <1>1 DEF Inv, CtxInv
    <1>3. \/ AddAborts(f, call[f].ctx, call[f].ev)
          \/ AddFails(f)
          \/ AddWorks(f, call[f].ctx, call[f].ev)
        BY <1>2 DEF Add, AddAborts, AddFails, AddWorks
    <1> QED
        BY <1>1, <1>3 DEF Add

LEMMA ReturnShrinks ==
    ASSUME Inv, NEW f \in Fiber, call[f].op # "hold", Return(f)
    PROVE  CallShrinks
    BY InvFacts, CallMakes DEF RestType, CallShrinks, Return, NoCall, Passive

LEMMA AddWorksInv ==
    ASSUME Inv, NEW f \in Fiber, Add(f), AddWorks(f, call[f].ctx, call[f].ev)
    PROVE  CoreInv' /\ UseOK' /\ CtxType' /\ call' \in [Fiber -> Call]
    <1> SUFFICES ASSUME NEW c, NEW e, NEW x,
                        c = call[f].ctx, e = call[f].ev, x = call[f].who
                 PROVE  CoreInv' /\ UseOK' /\ CtxType' /\ call' \in [Fiber -> Call]
        OBVIOUS
    <1> DEFINE k == IF x = f THEN [op |-> "hold"] ELSE NoCall
    <1>0. /\ call \in [Fiber -> Call] /\ c \in Ctx /\ e \in Event /\ x \in Waiter /\ x # None
          /\ call[f].op = "add" /\ e \notin events[c] /\ waiter[c][e] = None
          /\ UNCHANGED <<scheduled, useVars>>
          /\ events \in [Ctx -> SUBSET Event] /\ waiter \in [Ctx -> [Event -> Waiter \cup {None}]]
          /\ pending \in Nat /\ scheduled \in [Waiter -> Nat]
        BY InvFacts, AddCases DEF RestType, CtxType, AddWorks
    <1>1. /\ events' \in [Ctx -> SUBSET Event]
          /\ \A d \in Ctx, h \in Event : h \in events'[d] <=> h \in events[d] \/ (d = c /\ h = e)
        BY <1>0 DEF AddWorks
    <1>2. /\ waiter' \in [Ctx -> [Event -> Waiter \cup {None}]]
          /\ \A d \in Ctx, h \in Event : waiter'[d][h] = IF d = c /\ h = e THEN x ELSE waiter[d][h]
        BY <1>0 DEF AddWorks
    <1>3. call' = [call EXCEPT ![f] = k] /\ k \in Call /\ k.op = IF x = f THEN "hold" ELSE "run"
        BY CallMakes DEF AddWorks, NoCall
    <1>4. CtxType'
        BY <1>0, <1>1, <1>2 DEF CtxType, AddWorks
    <1>5. CountInv'
        <2>1. Waiting' = Waiting \cup {<<c, e>>} /\ <<c, e>> \notin Waiting
            BY <1>0, <1>1 DEF Waiting
        <2> QED
            BY <2>1, OneMore DEF Inv, CountInv, AddWorks
    <1>6. CtxInv'
        BY <1>0, <1>1, <1>2 DEF Inv, CtxInv
    <1>7. Gives(f, x) /\ Adding(f, c.fd, e)
        BY <1>0 DEF Gives, Adding, InCall
    <1> HIDE DEF k
    <1>8. /\ call' \in [Fiber -> Call] /\ call'[f] = k
          /\ \A g \in Fiber : g # f => call'[g] = call[g]
        BY <1>0, <1>3
    <1>9. /\ \A n, h : ~Adding(f, n, h)' /\ \A y : ~Gives(f, y)'
          /\ \A g \in Fiber : \A n, h : g # f => (Adding(g, n, h)' <=> Adding(g, n, h))
          /\ \A g \in Fiber : \A y : g # f => (Gives(g, y)' <=> Gives(g, y))
        BY <1>3, <1>8 DEF Adding, InCall, Gives
    <1>10. AloneInv'
        <2>1. \A g \in Fiber : call'[g].op = "del" =>
                  /\ g # f /\ call'[g] = call[g] /\ call[g].ctx \in Ctx /\ call[g].ev \in Event
                  /\ ~(call[g].ctx = c /\ call[g].ev = e)
            BY <1>0, <1>3, <1>7, <1>8, CallFields DEF Inv, AloneInv
        <2>2. \A g \in Fiber : ~(g # f /\ Adding(g, c.fd, e)) \/ c.fd \in overtaken
            BY <1>0, <1>7, InvFacts DEF Inv, AloneInv
        <2>3. \A g \in Fiber, d \in Ctx, h \in Event :
                  Adding(g, d.fd, h)' => h \notin events'[d] \/ d.fd \in overtaken'
            BY <1>0, <1>1, <1>9, <2>2 DEF Inv, AloneInv, useVars
        <2>4. \A g, h \in Fiber, n \in Fd, m \in Event :
                  Adding(g, n, m)' /\ Adding(h, n, m)' => g = h \/ n \in overtaken'
            BY <1>0, <1>9 DEF Inv, AloneInv, useVars
        <2>5. \A g \in Fiber : call'[g].op = "del" =>
                  /\ waiter'[call'[g].ctx][call'[g].ev] \notin Fiber
                  /\ \A h \in Fiber : ~Adding(h, call[g].ctx.fd, call[g].ev)'
            BY <1>2, <1>9, <2>1 DEF Inv, AloneInv
        <2> QED
            BY <2>3, <2>4, <2>5 DEF AloneInv
    <1>11. GiveInv'
        BY <1>9 DEF Inv, GiveInv
    <1>12. /\ Held(x)' /\ ~Held(x) /\ scheduled[x] = 0
           /\ \A y \in Waiter : y # x => (Held(y)' <=> Held(y))
           /\ \A g \in Fiber : g # f => ~Gives(g, x)
        <2>1. ~Held(x) /\ scheduled[x] = 0 /\ \A g \in Fiber : g # f => ~Gives(g, x)
            BY <1>0, <1>7 DEF Inv, PlaceInv, GiveInv
        <2>2. Held(x)'
            BY <1>0, <1>2 DEF Held
        <2>3. ASSUME NEW y \in Waiter, y # x PROVE Held(y)' <=> Held(y)
            BY <1>0, <1>2, <2>3, InvFacts DEF Held
        <2> QED
            BY <2>1, <2>2, <2>3
    <1>13. (\A y \in Waiter : PlaceInv(y))'
        <2> SUFFICES ASSUME NEW y \in Waiter PROVE PlaceInv(y)'
            OBVIOUS
        <2>1. PlaceInv(y)
            BY DEF Inv
        <2>2. \A d, b \in Ctx, h, m \in Event : waiter'[d][h] = y /\ waiter'[b][m] = y => d = b /\ h = m
            BY <1>0, <1>2, <1>12, <2>1 DEF PlaceInv, Held
        <2> QED
            BY <1>0, <1>9, <1>12, <2>1, <2>2 DEF PlaceInv
    <1>14. HoldInv'
        <2> SUFFICES ASSUME NEW g \in Fiber
                     PROVE  call'[g].op = "hold" <=> Held(g)' \/ scheduled'[g] = 1
            BY DEF HoldInv
        <2>1. g \in Waiter /\ (call[g].op = "hold" <=> Held(g) \/ scheduled[g] = 1)
            BY DEF Inv, HoldInv, Waiter
        <2>2. x = f \/ x \notin Fiber
            BY <1>0, <1>7, InvFacts DEF Inv, GiveInv
        <2> QED
            BY <1>0, <1>3, <1>8, <1>12, <2>1, <2>2
    <1>15. UseOK'
        <2>1. UseType'
            BY <1>0, InvFacts DEF useVars, UseType
        <2>2. ASSUME NEW g \in Fiber, NEW y \in Waiter, NEW n \in Fd, NEW h \in Event,
                     Gives(g, y)', Adding(g, n, h)'
              PROVE  <<n, h>> \in uses'[y] \/ n \in overtaken'
            BY <1>0, <1>9, <2>2 DEF Inv, UseInv, useVars
        <2>3. ASSUME NEW d \in Ctx, NEW h \in Event, NEW y \in Waiter, waiter'[d][h] = y
              PROVE  <<d.fd, h>> \in uses'[y] \/ d.fd \in overtaken'
            <3>1. CASE d = c /\ h = e
                BY <1>0, <1>2, <1>7, <2>3, <3>1, InvFacts DEF Inv, UseInv, useVars
            <3>2. CASE ~(d = c /\ h = e)
                BY <1>0, <1>2, <2>3, <3>2 DEF Inv, UseInv, useVars
            <3> QED
                BY <3>1, <3>2
        <2> QED
            BY <2>1, <2>2, <2>3 DEF UseOK, UseInv
    <1> QED
        BY <1>4, <1>5, <1>6, <1>8, <1>10, <1>15, <1>11, <1>13, <1>14 DEF CoreInv

(* DelEvent takes a callback, or nobody, out of a context.                 *)
LEMMA DelEventInv ==
    ASSUME Inv, NEW f \in Fiber, DelEvent(f), call[f].ev \in events[call[f].ctx],
           ~CtlFails(OpWithout(events[call[f].ctx] \ {call[f].ev}), call[f].ctx.fd)
    PROVE  CoreInv' /\ UseOK' /\ CtxType'
    <1> DEFINE c == call[f].ctx
               e == call[f].ev
    <1>0. /\ call \in [Fiber -> Call] /\ c \in Ctx /\ e \in Event /\ call[f].op = "del" /\ e \in events[c]
          /\ waiter[c][e] \notin Fiber /\ Return(f) /\ UNCHANGED <<scheduled, overtaken>>
          /\ events \in [Ctx -> SUBSET Event] /\ waiter \in [Ctx -> [Event -> Waiter \cup {None}]]
          /\ pending \in Nat /\ scheduled \in [Waiter -> Nat] /\ None \notin Waiter
        BY InvFacts, CallFields DEF RestType, CtxType, DelEvent, Inv, AloneInv, Release
    <1>1. /\ events' = [events EXCEPT ![c] = @ \ {e}] /\ events' \in [Ctx -> SUBSET Event]
          /\ \A d \in Ctx, h \in Event : h \in events'[d] <=> h \in events[d] /\ ~(d = c /\ h = e)
        BY <1>0 DEF DelEvent
    <1>2. /\ waiter' \in [Ctx -> [Event -> Waiter \cup {None}]]
          /\ \A d \in Ctx, h \in Event : waiter'[d][h] = IF d = c /\ h = e THEN None ELSE waiter[d][h]
        <2>1. waiter' = [waiter EXCEPT ![c] = [waiter[c] EXCEPT ![e] = None]]
            BY <1>0 DEF DelEvent
        <2> HIDE DEF c, e
        <2>2. [waiter[c] EXCEPT ![e] = None] \in [Event -> Waiter \cup {None}]
            BY ONLY <1>0
        <2>3. /\ waiter'[c] = [waiter[c] EXCEPT ![e] = None]
              /\ \A d \in Ctx : d # c => waiter'[d] = waiter[d]
              /\ waiter' \in [Ctx -> [Event -> Waiter \cup {None}]]
            BY ONLY <1>0, <2>1, <2>2
        <2>4. \A h \in Event : waiter'[c][h] = IF h = e THEN None ELSE waiter[c][h]
            BY ONLY <1>0, <2>3
        <2> QED
            BY ONLY <2>3, <2>4
    <1>3. CallShrinks
        BY <1>0, ReturnShrinks
    <1> HIDE DEF c, e
    <1>4. CountInv' /\ pending' \in Nat
        <2>1. {e} \in SUBSET events[c] /\ pending' = pending - 1
            BY <1>0 DEF DelEvent, c, e
        <2>2. Cardinality({e}) = 1
            BY FS_Singleton
        <2>3. IsFiniteSet(Waiting)
            BY DEF Inv, CountInv
        <2>4. events' = [events EXCEPT ![c] = @ \ {e}] /\ c \in Ctx /\ events \in [Ctx -> SUBSET Event]
            BY <1>0, <1>1
        <2>5. /\ IsFiniteSet(Waiting') /\ Cardinality(Waiting') = Cardinality(Waiting) - Cardinality({e})
              /\ Cardinality(Waiting') \in Nat
            BY ONLY <2>1, <2>3, <2>4, WaitingLess
        <2> QED
            BY <2>1, <2>2, <2>5 DEF Inv, CountInv
    <1>5. CtxType'
        BY <1>0, <1>1, <1>2, <1>4 DEF CtxType
    <1>6. CtxInv'
        BY <1>0, <1>1, <1>2 DEF Inv, CtxInv
    <1>7. AloneInv'
        <2>1. \A d \in Ctx, h \in Event : waiter'[d][h] \in Fiber => waiter[d][h] \in Fiber
            BY <1>0, <1>2 DEF Waiter
        <2> QED
            BY <1>0, <1>1, <1>3, <2>1, Shrinks, CallFields, InvFacts DEF Inv, AloneInv
    <1>8. GiveInv'
        BY <1>3, Shrinks DEF Inv, GiveInv
    <1>9. /\ \A x \in Waiter : Held(x)' => Held(x)
          /\ \A g \in Fiber : Held(g) => Held(g)'
        <2>1. ASSUME NEW x \in Waiter, Held(x)' PROVE Held(x)
            <3>1. PICK d \in Ctx, h \in Event : waiter'[d][h] = x
                BY <2>1 DEF Held
            <3> QED
                BY <1>0, <1>2, <3>1 DEF Held
        <2>2. ASSUME NEW g \in Fiber, Held(g) PROVE Held(g)'
            <3>1. PICK d \in Ctx, h \in Event : waiter[d][h] = g
                BY <2>2 DEF Held
            <3>2. waiter'[d][h] = g
                BY <1>0, <1>2, <3>1
            <3> QED
                BY <3>2 DEF Held
        <2> QED
            BY <2>1, <2>2
    <1>10. (\A x \in Waiter : PlaceInv(x))'
        <2> SUFFICES ASSUME NEW x \in Waiter PROVE PlaceInv(x)'
            OBVIOUS
        <2>1. PlaceInv(x)
            BY DEF Inv
        <2>2. \A d, b \in Ctx, h, m \in Event : waiter'[d][h] = x /\ waiter'[b][m] = x => d = b /\ h = m
            BY <1>0, <1>2, <2>1 DEF PlaceInv
        <2> QED
            BY <1>0, <1>3, <1>9, <2>1, <2>2, Shrinks DEF PlaceInv
    <1>11. HoldInv'
        BY <1>0, <1>3, <1>9, Shrinks DEF Inv, HoldInv, Waiter
    <1>12. UseOK'
        <2> SUFFICES ASSUME NEW x, x = waiter[c][e] PROVE UseOK'
            OBVIOUS
        <2>1. uses' = [uses EXCEPT ![x] = {}] /\ uses \in [Waiter -> SUBSET (Fd \X Event)]
            BY <1>0, InvFacts DEF DelEvent, Release, UseType, c, e
        <2>2. x \in Waiter /\ Held(x) /\ PlaceInv(x)
            BY <1>0 DEF Inv, CtxInv, Held
        <2>3. /\ \A g \in Fiber, y \in Waiter : Gives(g, y)' => Gives(g, y)
              /\ \A g \in Fiber, n \in Fd, h \in Event : Adding(g, n, h)' => Adding(g, n, h)
            BY <1>3, Shrinks
        <2>4. \A d \in Ctx, h \in Event : waiter'[d][h] \in {waiter[d][h], None} /\ waiter'[d][h] # x
            BY <1>0, <1>2, <2>2 DEF PlaceInv
        <2>5. uses' \in [Waiter -> SUBSET (Fd \X Event)]
            BY <2>1
        <2>6. ASSUME NEW y \in Waiter
              PROVE  \/ uses'[y] = uses[y]
                     \/ /\ \A g \in Fiber : ~Gives(g, y)'
                        /\ \A d \in Ctx, h \in Event : waiter'[d][h] # y
            BY <2>1, <2>2, <2>3, <2>4 DEF PlaceInv
        <2> QED
            BY <1>0, <2>3, <2>4, <2>5, <2>6, UseStep
    <1> QED
        BY <1>12, <1>4, <1>5, <1>6, <1>7, <1>8, <1>10, <1>11 DEF CoreInv

LEMMA RunInv ==
    ASSUME Inv, UNCHANGED ctxVars, NEW x \in Waiter, scheduled[x] > 0,
           scheduled' = [scheduled EXCEPT ![x] = @ - 1], Release(x),
           \/ x \in Callback /\ UNCHANGED call
           \/ x \in Fiber /\ call[x].op = "hold" /\ Return(x)
    PROVE  CoreInv' /\ UseOK' /\ CtxType' /\ call' \in [Fiber -> Call]
    <1>1. /\ CtxType /\ call \in [Fiber -> Call] /\ scheduled \in [Waiter -> Nat]
          /\ PlaceInv(x) /\ NoCall \in Call /\ NoCall.op = "run"
        BY InvFacts, CallMakes DEF Inv, RestType, CtxType, NoCall
    <1>2. scheduled[x] = 1 /\ ~Held(x) /\ \A f \in Fiber : ~Gives(f, x)
        BY <1>1 DEF PlaceInv
    <1>3. /\ scheduled' \in [Waiter -> Nat] /\ scheduled'[x] = 0
          /\ \A y \in Waiter : y # x => scheduled'[y] = scheduled[y]
        BY <1>1, <1>2
    <1>4. /\ call' \in [Fiber -> Call] /\ \A g \in Fiber : g # x => call'[g] = call[g]
          /\ x \in Fiber => call[x].op = "hold" /\ call'[x].op = "run"
        BY <1>1, InvFacts DEF Return
    <1>5. /\ \A g \in Fiber : \A n, h : Adding(g, n, h)' <=> Adding(g, n, h)
          /\ \A g \in Fiber : \A y : Gives(g, y)' <=> Gives(g, y)
          /\ \A g \in Fiber : call'[g].op = "del" => call'[g] = call[g]
        BY <1>4 DEF Adding, InCall, Gives
    <1>6. CtxInv' /\ CountInv'
        BY DEF Inv, CtxInv, CountInv, Waiting, ctxVars
    <1>7. AloneInv' /\ GiveInv'
        BY <1>5 DEF Inv, AloneInv, GiveInv, ctxVars, Release
    <1>8. \A y \in Waiter : Held(y)' <=> Held(y)
        BY DEF Held, ctxVars
    <1>9. (\A y \in Waiter : PlaceInv(y))'
        BY <1>2, <1>3, <1>5, <1>8 DEF Inv, PlaceInv, ctxVars
    <1>10. HoldInv'
        BY <1>2, <1>3, <1>4, <1>8 DEF Inv, HoldInv, Waiter
    <1>11. CtxType'
        BY <1>1, <1>3 DEF CtxType, ctxVars
    <1>12. UseOK'
        <2>1. /\ uses' \in [Waiter -> SUBSET (Fd \X Event)] /\ overtaken' = overtaken
              /\ \A y \in Waiter : uses'[y] = uses[y] \/ y = x
            BY InvFacts DEF Release, UseType
        <2>2. \A c \in Ctx, e \in Event : waiter'[c][e] = waiter[c][e] /\ waiter[c][e] # x
            BY <1>2 DEF ctxVars, Held
        <2> QED
            BY <1>2, <1>5, <2>1, <2>2, UseStep
    <1> QED
        BY <1>12, <1>4, <1>6, <1>7, <1>9, <1>10, <1>11 DEF CoreInv

-----------------------------------------------------------------------------
(* Every step *)

LEMMA InvInit == Init => Inv
    <1> SUFFICES ASSUME Init PROVE Inv
        OBVIOUS
    <1> USE IOManagerAssumption
    <1>1. TypeOK
        BY CallMakes DEF Init, TypeOK, Event, Ready, Waiter, Ctx
    <1>2. Waiting = {} /\ CountInv
        BY FS_EmptySet DEF Init, Waiting, CountInv
    <1>3. /\ CtxInv /\ AloneInv /\ GiveInv /\ UseInv /\ HoldInv /\ aborted # "context"
          /\ \A x \in Waiter : PlaceInv(x)
        BY DEF Init, CtxInv, AloneInv, GiveInv, UseInv, HoldInv, PlaceInv, Held, Adding, InCall, Gives,
               NoCall, Waiter
    <1> QED
        BY <1>1, <1>2, <1>3 DEF Inv

(* What is left of Inv once the contexts are dealt with                    *)
LEMMA InvFrom ==
    ASSUME CoreInv', UseOK', TableType', CtxType', KernelType', RestType', aborted' # "context"
    PROVE  Inv'
    BY DEF Inv, CoreInv, UseOK, UseType, TypeOK, TableType, CtxType, KernelType, RestType

LEMMA FiberStepInv ==
    ASSUME Inv, aborted = "no", NEW f \in Fiber, FiberStep(f)
    PROVE  Inv'
    <1>0. /\ TableType /\ CtxType /\ KernelType /\ RestType /\ call \in [Fiber -> Call]
          /\ \A c \in Ctx : c.fd \in Fd
        BY InvFacts DEF RestType
    <1>1. ASSUME NEW fd \in Fd, NEW e \in Event, NEW who \in {f} \cup Callback, AddEvent(f, fd, e, who)
          PROVE  Inv'
        <2>1. CoreInv' /\ UseOK' /\ call' \in [Fiber -> Call]
            BY <1>1, AddEventInv
        <2> QED
            BY <1>0, <1>1, <2>1, InvFrom DEF AddEvent, TableType, CtxType, KernelType, RestType,
               tableVars, ctxVars, kernelVars
    <1>2. CASE ContextResize(f)
        <2>1. CoreInv' /\ UseOK' /\ call' \in [Fiber -> Call] /\ TableType'
            BY <1>2, ContextResizeInv
        <2> QED
            BY <1>0, <1>2, <2>1, InvFrom DEF ContextResize, CtxType, KernelType, RestType,
               ctxVars, kernelVars
    <1>3. CASE Add(f)
        <2>1. /\ call[f].op = "add" /\ call[f].ctx \in Ctx /\ call[f].ev \in Event
              /\ call[f].who \in Waiter
              /\ \/ AddAborts(f, call[f].ctx, call[f].ev)
                 \/ AddFails(f)
                 \/ AddWorks(f, call[f].ctx, call[f].ev)
              /\ UNCHANGED <<tableVars, scheduled, batch>>
            BY <1>3, AddCases
        <2>4. CASE AddAborts(f, call[f].ctx, call[f].ev)
            <3>1. CallShrinks
                BY <1>0, <2>4 DEF AddAborts, CallShrinks
            <3>2. CoreInv' /\ UseOK'
                BY <2>1, <2>4, <3>1, PassiveStep, UseSame DEF AddAborts, ctxVars, useVars
            <3> QED
                BY <1>0, <2>1, <2>4, <3>2, InvFrom DEF AddAborts, TableType, CtxType, KernelType,
                   RestType, tableVars, ctxVars, kernelVars
        <2>2. CASE AddFails(f)
            <3>1. CallShrinks /\ CoreInv'
                BY <2>1, <2>2, ReturnShrinks, PassiveStep DEF AddFails, Release
            <3>2. UseOK'
                <4> SUFFICES ASSUME NEW x, x = call[f].who PROVE UseOK'
                    OBVIOUS
                <4>1. Gives(f, x) /\ x \in Waiter /\ PlaceInv(x)
                    BY <2>1 DEF Gives, Inv
                <4>2. /\ \A g \in Fiber, y \in Waiter : Gives(g, y)' => Gives(g, y)
                      /\ \A g \in Fiber, n \in Fd, h \in Event : Adding(g, n, h)' => Adding(g, n, h)
                    BY <3>1, Shrinks
                <4>3. /\ uses' \in [Waiter -> SUBSET (Fd \X Event)] /\ overtaken' = overtaken
                      /\ \A y \in Waiter : uses'[y] = uses[y] \/ y = x
                    BY <2>2, InvFacts DEF AddFails, Release, UseType
                <4>4. \A g \in Fiber : ~Gives(g, x)'
                    <5>1. ~Gives(f, x)'
                        BY <1>0, <2>2 DEF AddFails, Return, Gives, NoCall
                    <5> QED
                        BY <4>1, <4>2, <5>1 DEF Inv, GiveInv
                <4>5. \A c \in Ctx, e \in Event : waiter'[c][e] = waiter[c][e] /\ waiter[c][e] # x
                    BY <2>2, <4>1 DEF AddFails, ctxVars, PlaceInv, Held
                <4>6. ASSUME NEW y \in Waiter
                      PROVE  \/ uses'[y] = uses[y]
                             \/ /\ \A g \in Fiber : ~Gives(g, y)'
                                /\ \A c \in Ctx, e \in Event : waiter'[c][e] # y
                    BY <4>3, <4>4, <4>5
                <4> QED
                    BY <4>2, <4>3, <4>5, <4>6, UseStep
            <3> QED
                BY <1>0, <2>1, <2>2, <3>1, <3>2, InvFrom DEF AddFails, CallShrinks, TableType, CtxType,
                   KernelType, RestType, tableVars, ctxVars, kernelVars
        <2>3. CASE AddWorks(f, call[f].ctx, call[f].ev)
            <3>1. CoreInv' /\ UseOK' /\ CtxType' /\ call' \in [Fiber -> Call]
                BY <1>3, <2>3, AddWorksInv
            <3>2. events[call[f].ctx] \cup {call[f].ev} \in SUBSET Event
                BY <1>0, <2>1 DEF CtxType
            <3>3. KernelType'
                BY <1>0, <2>1, <2>3, <3>2, EpollCtlType DEF AddWorks
            <3> QED
                BY <1>0, <2>1, <2>3, <3>1, <3>3, InvFrom DEF AddWorks, TableType, RestType, tableVars
        <2> QED
            BY <2>1, <2>2, <2>3, <2>4
    <1>4. ASSUME NEW fd \in Fd, NEW e \in Event, BeginCancel(f, fd, e) PROVE Inv'
        <2>1. CallShrinks
            <3>1. [op |-> "cancel", ctx |-> CtxOf(fd), ev |-> e] \in Call
                BY <1>0, CallMakes, CtxOfType
            <3>2. /\ call[f].op = "run"
                  /\ call' = [call EXCEPT ![f] = [op |-> "cancel", ctx |-> CtxOf(fd), ev |-> e]]
                BY <1>4 DEF BeginCancel, NoCall
            <3> QED
                BY <1>0, <3>1, <3>2 DEF CallShrinks, Passive
        <2>2. CoreInv' /\ UseOK'
            BY <1>4, <2>1, PassiveStep, UseSame DEF BeginCancel, ctxVars, useVars
        <2> QED
            BY <1>0, <1>4, <2>1, <2>2, InvFrom DEF BeginCancel, CallShrinks, TableType, CtxType,
               KernelType, RestType, tableVars, ctxVars, kernelVars
    <1>5. ASSUME NEW fd \in Fd, NEW e \in Event, BeginDel(f, fd, e) PROVE Inv'
        <2>1. CoreInv' /\ UseOK' /\ call' \in [Fiber -> Call]
            BY <1>5, BeginDelInv
        <2> QED
            BY <1>0, <1>5, <2>1, InvFrom DEF BeginDel, TableType, CtxType, KernelType, RestType,
               tableVars, ctxVars, kernelVars
    <1>6. ASSUME NEW fd \in Fd, NEW close \in BOOLEAN, BeginCancelAll(f, fd, close) PROVE Inv'
        <2>1. CallShrinks
            <3>1. /\ [op |-> "cancelAll", ctx |-> CtxOf(fd), close |-> close] \in Call
                  /\ [op |-> "close", fd |-> fd] \in Call
                BY <1>0, CallMakes, CtxOfType
            <3>2. /\ call[f].op = "run"
                  /\ \/ call' = [call EXCEPT ![f] = [op |-> "cancelAll", ctx |-> CtxOf(fd), close |-> close]]
                     \/ call' = [call EXCEPT ![f] = [op |-> "close", fd |-> fd]]
                <4>1. CASE fd < size
                    BY <1>6, <4>1 DEF BeginCancelAll, NoCall
                <4>2. CASE ~(fd < size)
                    BY <1>6, <4>2 DEF BeginCancelAll, NoCall
                <4> QED
                    BY <4>1, <4>2
            <3> QED
                BY <1>0, <3>1, <3>2 DEF CallShrinks, Passive
        <2>2. CoreInv' /\ UseOK'
            BY <1>6, <2>1, PassiveStep, UseSame DEF BeginCancelAll, ctxVars, useVars
        <2> QED
            BY <1>0, <1>6, <2>1, <2>2, InvFrom DEF BeginCancelAll, CallShrinks, TableType, CtxType,
               KernelType, RestType, tableVars, ctxVars, kernelVars
    <1>7. CASE CancelEvent(f)
        <2>1. /\ call[f].op = "cancel" /\ call[f].ctx \in Ctx /\ call[f].ev \in Event /\ Return(f)
              /\ UNCHANGED <<tableVars, batch, aborted, useVars>>
            BY <1>0, <1>7, CallFields DEF CancelEvent
        <2>2. CallShrinks
            BY <2>1, ReturnShrinks
        <2>3. TableType' /\ RestType' /\ aborted' # "context"
            BY <1>0, <2>1, <2>2 DEF TableType, RestType, CallShrinks, tableVars
        <2>4. CASE UNCHANGED <<ctxVars, kernelVars, scheduled>>
            <3>1. CoreInv' /\ UseOK'
                BY <2>1, <2>2, <2>4, PassiveStep, UseSame DEF ctxVars, useVars
            <3>2. CtxType' /\ KernelType'
                BY <1>0, <2>4 DEF CtxType, KernelType, ctxVars, kernelVars
            <3> QED
                BY <2>3, <3>1, <3>2, InvFrom
        <2>5. ASSUME NEW op, NEW c \in Ctx, NEW e \in Event, e \in events[c],
                     EpollCtl(op, c, events[c] \ {e}), Trigger(c, {e})
              PROVE  Inv'
            <3>1. {e} \in SUBSET events[c] /\ events[c] \ {e} \in SUBSET Event
                BY <1>0, <2>5 DEF CtxType
            <3>2. CoreInv' /\ CtxType' /\ UseOK'
                BY <1>0, <2>1, <2>2, <2>5, <3>1, TriggerStep, TriggerWaiters, UseSame DEF useVars
            <3>3. KernelType'
                BY <1>0, <2>5, <3>1, EpollCtlType
            <3> QED
                BY <2>3, <3>2, <3>3, InvFrom
        <2> QED
            BY <1>7, <2>1, <2>4, <2>5 DEF CancelEvent
    <1>8. CASE DelEvent(f)
        <2>1. /\ call[f].op = "del" /\ call[f].ctx \in Ctx /\ call[f].ev \in Event /\ Return(f)
              /\ UNCHANGED <<tableVars, scheduled, batch, aborted>>
            BY <1>0, <1>8, CallFields DEF DelEvent
        <2>2. CallShrinks
            BY <2>1, ReturnShrinks
        <2>3. TableType' /\ RestType' /\ aborted' # "context"
            BY <1>0, <2>1, <2>2 DEF TableType, RestType, CallShrinks, tableVars
        <2>4. CASE UNCHANGED <<ctxVars, kernelVars, useVars>>
            <3>1. CoreInv' /\ UseOK'
                BY <2>1, <2>2, <2>4, PassiveStep, UseSame DEF ctxVars, useVars
            <3>2. CtxType' /\ KernelType'
                BY <1>0, <2>1, <2>4 DEF CtxType, KernelType, ctxVars, kernelVars
            <3> QED
                BY <2>3, <3>1, <3>2, InvFrom
        <2>5. CASE /\ call[f].ev \in events[call[f].ctx]
                   /\ ~CtlFails(OpWithout(events[call[f].ctx] \ {call[f].ev}), call[f].ctx.fd)
            <3>1. CoreInv' /\ UseOK' /\ CtxType'
                BY <1>8, <2>5, DelEventInv
            <3>2. events[call[f].ctx] \ {call[f].ev} \in SUBSET Event
                BY <1>0, <2>1 DEF CtxType
            <3>3. KernelType'
                BY <1>0, <1>8, <2>1, <2>5, <3>2, EpollCtlType DEF DelEvent
            <3> QED
                BY <2>3, <3>1, <3>3, InvFrom
        <2> QED
            BY <1>8, <2>4, <2>5 DEF DelEvent
    <1>9. CASE CancelAll(f)
        <2>1. /\ call[f].op = "cancelAll" /\ call[f].ctx \in Ctx
              /\ UNCHANGED <<tableVars, batch, aborted, useVars>>
            BY <1>0, <1>9, CallFields DEF CancelAll
        <2>2. CallShrinks
            BY <1>0, <1>9, <2>1, CallMakes DEF CancelAll, CallShrinks, Passive, NoCall
        <2>3. TableType' /\ RestType' /\ aborted' # "context"
            BY <1>0, <2>1, <2>2 DEF TableType, RestType, CallShrinks, tableVars
        <2>4. CASE UNCHANGED <<ctxVars, kernelVars, scheduled>>
            <3>1. CoreInv' /\ UseOK'
                BY <2>1, <2>2, <2>4, PassiveStep, UseSame DEF ctxVars, useVars
            <3>2. CtxType' /\ KernelType'
                BY <1>0, <2>4 DEF CtxType, KernelType, ctxVars, kernelVars
            <3> QED
                BY <2>3, <3>1, <3>2, InvFrom
        <2>5. ASSUME NEW c \in Ctx, EpollCtl("DEL", c, {}), Trigger(c, events[c])
              PROVE  Inv'
            <3>1. events[c] \in SUBSET events[c] /\ {} \in SUBSET Event
                OBVIOUS
            <3>2. CoreInv' /\ CtxType' /\ UseOK'
                BY <1>0, <2>1, <2>2, <2>5, <3>1, TriggerStep, TriggerWaiters, UseSame DEF useVars
            <3>3. KernelType'
                BY <1>0, <2>5, <3>1, EpollCtlType
            <3> QED
                BY <2>3, <3>2, <3>3, InvFrom
        <2> QED
            BY <1>9, <2>1, <2>4, <2>5 DEF CancelAll
    <1>10. CASE Close(f)
        <2>1. call[f].op = "close" /\ call[f].fd \in Fd /\ Return(f)
            BY <1>0, <1>10, CallFields DEF Close
        <2>2. CallShrinks
            BY <2>1, ReturnShrinks
        <2>3. CoreInv' /\ UseOK'
            BY <1>10, <2>1, <2>2, CloseUse, PassiveStep DEF Close
        <2>4. KernelType'
            BY <1>0, <1>10, <2>1 DEF Close, KernelType
        <2> QED
            BY <1>0, <1>10, <2>2, <2>3, <2>4, InvFrom DEF Close, CallShrinks, TableType, CtxType,
               RestType, tableVars, ctxVars
    <1>11. CASE Resume(f)
        <2>1. CoreInv' /\ UseOK' /\ CtxType' /\ call' \in [Fiber -> Call]
            BY <1>11, RunInv DEF Resume, Waiter
        <2> QED
            BY <1>0, <1>11, <2>1, InvFrom DEF Resume, TableType, KernelType, RestType, tableVars,
               kernelVars
    <1> QED
        BY <1>1, <1>2, <1>3, <1>4, <1>5, <1>6, <1>7, <1>8, <1>9, <1>10, <1>11 DEF FiberStep

LEMMA IdleStepInv ==
    ASSUME Inv, aborted = "no", NEW i \in Idler, IdleStep(i)
    PROVE  Inv'
    <1>0. /\ TableType /\ CtxType /\ KernelType /\ RestType /\ call \in [Fiber -> Call]
          /\ \A c \in Ctx : c.fd \in Fd
        BY InvFacts DEF RestType
    <1>1. ASSUME UNCHANGED call PROVE CallShrinks
        BY <1>0, <1>1 DEF CallShrinks
    <1>2. CASE EpollWait(i)
        <2>1. CoreInv' /\ UseOK'
            BY <1>1, <1>2, PassiveStep, UseSame DEF EpollWait, ctxVars, useVars
        <2>2. batch' \in [Idler -> SUBSET Result]
            <3>1. \A fd \in ReadyFds : reg[fd].ctx \in Ctx /\ Revents(fd) \in SUBSET Ready
                BY <1>0 DEF ReadyFds, Registered, Revents, KernelType
            <3>2. {[ctx |-> reg[fd].ctx, ev |-> Revents(fd)] : fd \in ReadyFds} \in SUBSET Result
                BY <3>1 DEF Result
            <3> QED
                BY <1>0, <1>2, <3>2 DEF EpollWait, RestType
        <2>3. KernelType'
            BY <1>0, <1>2 DEF EpollWait, KernelType
        <2> QED
            BY <1>0, <1>2, <2>1, <2>2, <2>3, InvFrom DEF EpollWait, TableType, CtxType, RestType,
               tableVars, ctxVars
    <1>3. ASSUME NEW r \in batch[i], Process(i, r) PROVE Inv'
        <2>1. r \in Result /\ r.ctx \in Ctx
            BY <1>0 DEF RestType, Result
        <2>2. CallShrinks /\ TableType' /\ UNCHANGED useVars
            BY <1>0, <1>1, <1>3 DEF Process, TableType, tableVars
        <2>3. batch' \in [Idler -> SUBSET Result]
            BY <1>0, <1>3 DEF Process, RestType
        <2>4. RestType' /\ aborted' # "context"
            BY <1>0, <1>3, <2>3 DEF Process, RestType
        <2>5. CASE UNCHANGED <<ctxVars, kernelVars, scheduled>>
            <3>1. CoreInv' /\ UseOK'
                BY <2>2, <2>5, PassiveStep, UseSame DEF ctxVars, useVars
            <3>2. CtxType' /\ KernelType'
                BY <1>0, <2>5 DEF CtxType, KernelType, ctxVars, kernelVars
            <3> QED
                BY <2>2, <2>4, <3>1, <3>2, InvFrom
        <2>6. ASSUME NEW op, NEW c \in Ctx, NEW es \in SUBSET events[c],
                     EpollCtl(op, c, events[c] \ es), Trigger(c, es)
              PROVE  Inv'
            <3>1. CoreInv' /\ UseOK' /\ CtxType'
                BY <1>0, <2>2, <2>6, TriggerStep, TriggerWaiters, UseSame DEF useVars
            <3>2. KernelType'
                <4>1. events[c] \ es \in SUBSET Event
                    BY <1>0 DEF CtxType
                <4> QED
                    BY <1>0, <2>6, <4>1, EpollCtlType
            <3> QED
                BY <2>2, <2>4, <3>1, <3>2, InvFrom
        <2> QED
            BY <1>3, <2>1, <2>5, <2>6 DEF Process
    <1> QED
        BY <1>2, <1>3 DEF IdleStep

LEMMA KernelInv ==
    ASSUME Inv, aborted = "no", NEW fd \in Fd,
           \/ \E what \in Comes : BecomeReady(fd, what)
           \/ \E e \in Event : Drain(fd, e)
           \/ Open(fd)
    PROVE  Inv'
    <1>0. TableType /\ CtxType /\ KernelType /\ RestType
        BY InvFacts
    <1>1. /\ UNCHANGED <<tableVars, ctxVars, call, scheduled, batch, aborted, useVars>>
        BY DEF BecomeReady, Drain, Open
    <1>2. CallShrinks
        BY <1>0, <1>1 DEF CallShrinks, RestType
    <1>3. CoreInv' /\ UseOK'
        BY <1>1, <1>2, PassiveStep, UseSame DEF ctxVars, useVars
    <1>4. KernelType'
        <2>1. ASSUME NEW what \in Comes, BecomeReady(fd, what) PROVE KernelType'
            <3>1. cond' \in [Fd -> SUBSET Ready]
                BY <1>0, <2>1, IOManagerAssumption DEF BecomeReady, KernelType, Ready, Event
            <3>2. edge' \in [Fd -> BOOLEAN]
                BY <1>0, <2>1 DEF BecomeReady, KernelType
            <3> QED
                BY <1>0, <2>1, <3>1, <3>2 DEF BecomeReady, KernelType
        <2>2. ASSUME NEW e \in Event, Drain(fd, e) PROVE KernelType'
            BY <1>0, <2>2 DEF Drain, KernelType
        <2>3. ASSUME Open(fd) PROVE KernelType'
            BY <1>0, <2>3 DEF Open, KernelType
        <2> QED
            BY <2>1, <2>2, <2>3
    <1> QED
        BY <1>0, <1>1, <1>3, <1>4, InvFrom DEF TableType, CtxType, RestType, tableVars, ctxVars

LEMMA InvStep == Inv /\ [Next]_vars => Inv'
    <1> SUFFICES ASSUME Inv, [Next]_vars PROVE Inv'
        OBVIOUS
    <1>1. ASSUME NEW f \in Fiber, aborted = "no", FiberStep(f) PROVE Inv'
        BY <1>1, FiberStepInv
    <1>2. ASSUME NEW cb \in Callback, aborted = "no", RunCallback(cb) PROVE Inv'
        <2>1. CoreInv' /\ UseOK' /\ CtxType' /\ call' \in [Fiber -> Call]
            BY <1>2, RunInv DEF RunCallback, Waiter
        <2> QED
            BY <1>2, <2>1, InvFacts, InvFrom DEF RunCallback, TableType, KernelType, RestType, tableVars,
               kernelVars
    <1>3. ASSUME NEW i \in Idler, aborted = "no", IdleStep(i) PROVE Inv'
        BY <1>3, IdleStepInv
    <1>4. ASSUME aborted = "no", Kernel PROVE Inv'
        BY <1>4, KernelInv DEF Kernel
    <1>5. CASE UNCHANGED vars
        <2>1. CallShrinks
            BY <1>5, InvFacts DEF CallShrinks, RestType, vars
        <2>2. CoreInv' /\ UseOK'
            BY <1>5, <2>1, PassiveStep, UseSame DEF vars, ctxVars, useVars
        <2> QED
            BY <1>5, <2>2, InvFacts, InvFrom DEF vars, Inv, TableType, CtxType, KernelType,
               RestType, tableVars, ctxVars, kernelVars
    <1> QED
        BY <1>1, <1>2, <1>3, <1>4, <1>5 DEF Next

LEMMA Invariance == Spec => []Inv
    BY InvInit, InvStep, PTL DEF Spec

(* Every variable keeps its type, m_pendingEventCount included: it does    *)
(* not go below zero.                                                      *)
THEOREM TypeCorrect == Spec => []TypeOK
    BY Invariance, PTL DEF Inv

(* m_pendingEventCount is the number of events waited for, whatever        *)
(* results are stale, calls fail and contexts are lost.                    *)
THEOREM PendingIsCounted == Spec => []PendingCounts
    <1>1. Inv => PendingCounts
        BY DEF Inv, CountInv, PendingCounts
    <1> QED
        BY <1>1, Invariance, PTL

(* addEvent finds its EventContext clean, however events were triggered,   *)
(* deleted and cancelled, and the event not registered, unless the         *)
(* descriptor was closed under a user: callers only promise that nobody    *)
(* else uses the event of that descriptor.                                 *)
THEOREM AddNeverAborts == Spec => []AddAssertions
    <1>1. Inv => AddAssertions
        <2> SUFFICES ASSUME Inv, NEW f \in Fiber, call[f].op = "add",
                            call[f].ev \in events[call[f].ctx]
                     PROVE  call[f].ctx.fd \in overtaken
            BY DEF Inv, AddAssertions
        <2>1. call[f].ctx \in Ctx /\ call[f].ev \in Event
            BY InvFacts, CallFields DEF RestType
        <2>2. Adding(f, call[f].ctx.fd, call[f].ev)
            BY DEF Adding, InCall
        <2> QED
            BY <2>1, <2>2 DEF Inv, AloneInv
    <1> QED
        BY <1>1, Invariance, PTL

(* Who waits for an event is scheduled once for it, and a fiber that has   *)
(* yielded is in a context or in the scheduler's list.                     *)
THEOREM WaitersWokenOnce == Spec => []WokenOnce
    <1>1. Inv => WokenOnce
        <2> SUFFICES ASSUME Inv PROVE WokenOnce
            OBVIOUS
        <2> DEFINE at(x) == {p \in Waiting : waiter[p[1]][p[2]] = x}
        <2>1. ASSUME NEW x \in Waiter
              PROVE  /\ Cardinality(at(x)) = IF Held(x) THEN 1 ELSE 0
                     /\ scheduled[x] \in {0, 1} /\ (Held(x) => scheduled[x] = 0)
            <3>1. x # None /\ PlaceInv(x) /\ CtxInv
                BY InvFacts DEF Inv
            <3>2. CASE Held(x)
                <4>1. PICK c \in Ctx, e \in Event : waiter[c][e] = x
                    BY <3>2 DEF Held
                <4>2. at(x) = {<<c, e>>}
                    BY <3>1, <4>1 DEF PlaceInv, CtxInv, Waiting
                <4> HIDE DEF at
                <4> QED
                    BY <3>1, <3>2, <4>2, FS_Singleton DEF PlaceInv
            <3>3. CASE ~Held(x)
                <4>1. at(x) = {}
                    BY <3>3 DEF Held, Waiting
                <4> HIDE DEF at
                <4> QED
                    BY <3>1, <3>3, <4>1, FS_EmptySet DEF PlaceInv
            <3> QED
                BY <3>2, <3>3
        <2>2. \A f \in Fiber : call[f].op = "hold" => Held(f) \/ scheduled[f] = 1
            BY DEF Inv, HoldInv
        <2>3. /\ \A x \in Waiter : Cardinality(at(x)) + scheduled[x] <= 1
              /\ \A f \in Fiber : call[f].op = "hold" => Cardinality(at(f)) + scheduled[f] = 1
            <3> HIDE DEF at
            <3> QED
                BY <2>1, <2>2 DEF Waiter
        <2> QED
            BY <2>3 DEF WokenOnce
    <1> QED
        BY <1>1, Invariance, PTL

-----------------------------------------------------------------------------
(* Without close() *)

LEMMA QuietFacts ==
    ASSUME Inv, QuietInv, NEW c \in Ctx, events[c] # {}
    PROVE  /\ Registered(c.fd) /\ c.fd \in open
           /\ reg[c.fd].ctx = c /\ reg[c.fd].mask = events[c]
           /\ \A d \in Ctx : d.fd = c.fd /\ events[d] # {} => d = c
    <1>1. ASSUME NEW d \in Ctx, d.fd = c.fd, events[d] # {}
          PROVE  reg[c.fd].mask = events[d] /\ reg[c.fd].ctx = d
        <2>1. reg[c.fd] = [mask |-> events[d], ctx |-> d]
            BY <1>1 DEF QuietInv, RegInv
        <2> QED
            BY <2>1
    <1>2. reg[c.fd].mask = events[c] /\ reg[c.fd].ctx = c
        BY <1>1
    <1>3. Registered(c.fd)
        BY <1>2 DEF Registered, NotRegistered
    <1>4. c.fd \in open
        BY InvFacts DEF QuietInv, NoCloseInv
    <1> QED
        BY <1>1, <1>2, <1>3, <1>4

(* One context changes, and epoll is told.                                 *)
LEMMA CtlQuiet ==
    ASSUME Inv, QuietInv, NEW c \in Ctx, NEW m \in SUBSET Event, NEW op,
           events' = [events EXCEPT ![c] = m], EpollCtl(op, c, m), op = "DEL" <=> m = {},
           events[c] # {} \/ ~Registered(c.fd),
           \A j \in Idler : \A r \in batch[j] : r.ctx # c => r \in batch'[j]
    PROVE  RegInv' /\ EdgeInv'
    <1>0. /\ c.fd \in Fd /\ events \in [Ctx -> SUBSET Event] /\ \A d \in Ctx : d.fd \in Fd
          /\ reg \in [Fd -> [mask : SUBSET Event, ctx : Ctx] \cup {NotRegistered}]
          /\ edge \in [Fd -> BOOLEAN]
        BY InvFacts DEF CtxType, KernelType
    <1>1. \A d \in Ctx : d # c /\ d.fd = c.fd => events[d] = {}
        BY QuietFacts
    <1>2. /\ events'[c] = m /\ \A d \in Ctx : d # c => events'[d] = events[d]
          /\ reg'[c.fd] = IF m = {} THEN NotRegistered ELSE [mask |-> m, ctx |-> c]
          /\ \A fd \in Fd : fd # c.fd => reg'[fd] = reg[fd] /\ edge'[fd] = edge[fd]
          /\ m # {} /\ cond[c.fd] \cap (m \cup {"ERR"}) # {} => edge'[c.fd]
          /\ cond' = cond
        BY <1>0 DEF EpollCtl
    <1>3. \A d \in Ctx : events'[d] # {} => reg'[d.fd] = [mask |-> events'[d], ctx |-> d]
        BY <1>0, <1>1, <1>2 DEF QuietInv, RegInv
    <1>4. ASSUME NEW fd \in Fd, Registered(fd)'
          PROVE  reg'[fd].ctx.fd = fd /\ events'[reg'[fd].ctx] = reg'[fd].mask /\ reg'[fd].mask # {}
        <2>1. CASE fd = c.fd
            BY <1>2, <1>4, <2>1 DEF Registered
        <2>2. CASE fd # c.fd
            BY <1>0, <1>2, <1>4, <2>2 DEF Registered, QuietInv, RegInv
        <2> QED
            BY <2>1, <2>2
    <1>5. ASSUME NEW d \in Ctx, NEW e \in events'[d] PROVE Reported(d, e)'
        <2>1. CASE d = c
            BY <1>2, <2>1 DEF Reported
        <2>2. CASE d # c
            <3>1. d.fd # c.fd /\ e \in events[d] /\ d.fd \in Fd
                BY <1>0, <1>1, <1>2, <2>2
            <3>2. Reported(d, e)
                BY <3>1 DEF QuietInv, EdgeInv
            <3>3. \A j \in Idler : \A r \in batch[j] : r.ctx = d /\ Fresh(r) => r \in batch'[j] /\ Fresh(r)'
                BY <1>2, <2>2 DEF Fresh
            <3> QED
                BY <1>2, <3>1, <3>2, <3>3 DEF Reported
        <2> QED
            BY <2>1, <2>2
    <1> QED
        BY <1>3, <1>4, <1>5 DEF RegInv, EdgeInv

(* Nothing changes for the contexts and epoll, and no fresh result that    *)
(* something waits for is dropped.                                         *)
LEMMA SameQuiet ==
    ASSUME Inv, QuietInv, UNCHANGED <<events, kernelVars>>,
           \A j \in Idler : \A r \in batch[j] :
               r \in batch'[j] \/ \A e \in events[r.ctx] : ~(r.ev \cap {e, "ERR"} # {} /\ Fresh(r))
    PROVE  RegInv' /\ EdgeInv'
    <1>1. RegInv'
        BY DEF QuietInv, RegInv, Registered, kernelVars
    <1>2. ASSUME NEW c \in Ctx, NEW e \in events[c] PROVE Reported(c, e)'
        <2>1. Reported(c, e)
            BY DEF QuietInv, EdgeInv
        <2>2. \A j \in Idler : \A r \in batch[j] :
                  r.ctx = c /\ r.ev \cap {e, "ERR"} # {} /\ Fresh(r) => r \in batch'[j] /\ Fresh(r)'
            BY DEF Fresh
        <2> QED
            BY <2>1, <2>2 DEF Reported, kernelVars
    <1> QED
        BY <1>1, <1>2 DEF EdgeInv

LEMMA FiberQuiet ==
    ASSUME Inv, ~MayClose, QuietInv, NEW f \in Fiber, FiberStep(f)
    PROVE  QuietInv'
    <1>0. /\ call \in [Fiber -> Call] /\ CtxType /\ open = Fd
          /\ \A g \in Fiber : call[g].op # "close" /\ (call[g].op = "cancelAll" => ~call[g].close)
        BY InvFacts DEF RestType, QuietInv, NoCloseInv
    <1>a. ASSUME NEW k, call' = [call EXCEPT ![f] = k], open' = open,
                 k.op # "close", k.op = "cancelAll" => ~k.close
          PROVE  NoCloseInv'
        BY <1>0, <1>a DEF NoCloseInv
    <1>b. ASSUME UNCHANGED <<events, kernelVars, batch>> PROVE RegInv' /\ EdgeInv'
        BY <1>b, SameQuiet
    <1>c. \A left \in SUBSET Event : OpWithout(left) = "DEL" <=> left = {}
        BY DEF OpWithout
    <1>1. ASSUME NEW fd \in Fd, NEW e \in Event, NEW who \in {f} \cup Callback, AddEvent(f, fd, e, who)
          PROVE  QuietInv'
        <2>1. NoCloseInv'
            BY <1>0, <1>1 DEF AddEvent, NoCloseInv, kernelVars
        <2> QED
            BY <1>1, <1>b, <2>1 DEF AddEvent, QuietInv, ctxVars
    <1>2. CASE ContextResize(f)
        <2>1. NoCloseInv'
            BY <1>0, <1>2 DEF ContextResize, NoCloseInv, kernelVars
        <2> QED
            BY <1>2, <1>b, <2>1 DEF ContextResize, QuietInv, ctxVars
    <1>3. CASE Add(f)
        <2>1. /\ call[f].op = "add" /\ call[f].ctx \in Ctx /\ call[f].ev \in Event
              /\ \/ AddAborts(f, call[f].ctx, call[f].ev)
                 \/ AddFails(f)
                 \/ AddWorks(f, call[f].ctx, call[f].ev)
              /\ UNCHANGED <<tableVars, scheduled, batch>>
            BY <1>3, AddCases
        <2>4. CASE AddAborts(f, call[f].ctx, call[f].ev)
            <3>1. NoCloseInv'
                BY <1>0, <2>4 DEF AddAborts, NoCloseInv, kernelVars
            <3> QED
                BY <1>b, <2>1, <2>4, <3>1 DEF AddAborts, QuietInv, ctxVars
        <2>2. CASE AddFails(f)
            <3>1. NoCloseInv'
                BY <1>0, <2>2 DEF AddFails, Return, NoCall, NoCloseInv, kernelVars
            <3> QED
                BY <1>b, <2>1, <2>2, <3>1 DEF AddFails, QuietInv, ctxVars
        <2>3. CASE AddWorks(f, call[f].ctx, call[f].ev)
            <3> DEFINE c == call[f].ctx
                       m == events[c] \cup {call[f].ev}
                       op == IF events[c] = {} THEN "ADD" ELSE "MOD"
            <3>1. NoCloseInv'
                BY <1>0, <2>3 DEF AddWorks, EpollCtl, NoCall, NoCloseInv
            <3>2. /\ c \in Ctx /\ m \in SUBSET Event /\ m # {} /\ op # "DEL"
                BY <1>0, <2>1 DEF CtxType
            <3>3. /\ events' = [events EXCEPT ![c] = m] /\ EpollCtl(op, c, m) /\ ~CtlFails(op, c.fd)
                BY <1>0, <2>1, <2>3 DEF AddWorks
            <3>4. events[c] # {} \/ ~Registered(c.fd)
                BY <3>3 DEF CtlFails
            <3>5. batch' = batch
                BY <2>1
            <3> HIDE DEF c, m, op
            <3> QED
                BY <3>1, <3>2, <3>3, <3>4, <3>5, CtlQuiet DEF QuietInv
        <2> QED
            BY <2>1, <2>2, <2>3, <2>4
    <1>4. ASSUME NEW fd \in Fd, NEW e \in Event, BeginCancel(f, fd, e) PROVE QuietInv'
        <2>1. NoCloseInv'
            BY <1>0, <1>4 DEF BeginCancel, NoCloseInv, kernelVars
        <2> QED
            BY <1>4, <1>b, <2>1 DEF BeginCancel, QuietInv, ctxVars
    <1>5. ASSUME NEW fd \in Fd, NEW e \in Event, BeginDel(f, fd, e) PROVE QuietInv'
        <2>1. NoCloseInv'
            BY <1>0, <1>5 DEF BeginDel, NoCloseInv, kernelVars
        <2> QED
            BY <1>5, <1>b, <2>1 DEF BeginDel, QuietInv, ctxVars
    <1>6. ASSUME NEW fd \in Fd, NEW close \in BOOLEAN, BeginCancelAll(f, fd, close) PROVE QuietInv'
        <2>1. NoCloseInv'
            BY <1>0, <1>6 DEF BeginCancelAll, NoCloseInv, kernelVars
        <2> QED
            BY <1>6, <1>b, <2>1 DEF BeginCancelAll, QuietInv, ctxVars
    <1>d. ASSUME NEW c \in Ctx, NEW es \in SUBSET events[c], es # {}, UNCHANGED batch,
                 EpollCtl(OpWithout(events[c] \ es), c, events[c] \ es),
                 events' = [events EXCEPT ![c] = @ \ es]
          PROVE  RegInv' /\ EdgeInv'
        <2>1. events[c] \ es \in SUBSET Event /\ events[c] # {}
            BY <1>0, <1>d DEF CtxType
        <2>2. events' = [events EXCEPT ![c] = events[c] \ es]
            BY <1>d
        <2> QED
            BY <1>c, <1>d, <2>1, <2>2, CtlQuiet
    <1>7. CASE CancelEvent(f)
        <2>1. call[f].ctx \in Ctx /\ UNCHANGED batch
            BY <1>0, <1>7, CallFields DEF CancelEvent
        <2>2. NoCloseInv'
            BY <1>0, <1>7 DEF CancelEvent, Return, NoCall, NoCloseInv, kernelVars, EpollCtl
        <2>3. CASE UNCHANGED <<ctxVars, kernelVars, scheduled>>
            BY <1>b, <2>1, <2>2, <2>3 DEF QuietInv, ctxVars
        <2>4. ASSUME NEW c \in Ctx, NEW e, e \in events[c], Trigger(c, {e}),
                     EpollCtl(OpWithout(events[c] \ {e}), c, events[c] \ {e})
              PROVE  QuietInv'
            <3>1. {e} \in SUBSET events[c] /\ {e} # {} /\ events' = [events EXCEPT ![c] = @ \ {e}]
                BY <2>4 DEF Trigger
            <3>2. RegInv' /\ EdgeInv'
                BY <1>d, <2>1, <2>4, <3>1
            <3> QED
                BY <2>2, <3>2 DEF QuietInv
        <2> QED
            BY <1>7, <2>1, <2>3, <2>4 DEF CancelEvent
    <1>8. CASE DelEvent(f)
        <2>1. call[f].ctx \in Ctx /\ UNCHANGED batch
            BY <1>0, <1>8, CallFields DEF DelEvent
        <2>2. NoCloseInv'
            BY <1>0, <1>8 DEF DelEvent, Return, NoCall, NoCloseInv, kernelVars, EpollCtl
        <2>3. CASE UNCHANGED <<ctxVars, kernelVars, useVars>>
            BY <1>b, <2>1, <2>2, <2>3 DEF QuietInv, ctxVars
        <2>4. ASSUME NEW c \in Ctx, NEW e, e \in events[c], events' = [events EXCEPT ![c] = events[c] \ {e}],
                     EpollCtl(OpWithout(events[c] \ {e}), c, events[c] \ {e})
              PROVE  QuietInv'
            <3>1. {e} \in SUBSET events[c] /\ {e} # {} /\ events' = [events EXCEPT ![c] = @ \ {e}]
                BY <2>4
            <3>2. RegInv' /\ EdgeInv'
                BY <1>d, <2>1, <2>4, <3>1
            <3> QED
                BY <2>2, <3>2 DEF QuietInv
        <2> QED
            BY <1>8, <2>1, <2>3, <2>4 DEF DelEvent
    <1>9. CASE CancelAll(f)
        <2>1. call[f].ctx \in Ctx /\ UNCHANGED batch
            BY <1>0, <1>9, CallFields DEF CancelAll
        <2>2. NoCloseInv'
            BY <1>0, <1>9 DEF CancelAll, NoCall, NoCloseInv, kernelVars, EpollCtl
        <2>3. CASE UNCHANGED <<ctxVars, kernelVars, scheduled>>
            BY <1>b, <2>1, <2>2, <2>3 DEF QuietInv, ctxVars
        <2>4. ASSUME NEW c \in Ctx, events[c] # {}, Trigger(c, events[c]), EpollCtl("DEL", c, {})
              PROVE  QuietInv'
            <3>1. events' = [events EXCEPT ![c] = {}] /\ {} \in SUBSET Event
                BY <2>4 DEF Trigger
            <3> QED
                BY <2>1, <2>2, <2>4, <3>1, CtlQuiet DEF QuietInv
        <2> QED
            BY <1>9, <2>1, <2>3, <2>4 DEF CancelAll
    <1>10. CASE Close(f)
        BY <1>0, <1>10 DEF Close
    <1>11. CASE Resume(f)
        <2>1. NoCloseInv'
            BY <1>0, <1>11 DEF Resume, Return, NoCall, NoCloseInv, kernelVars
        <2> QED
            BY <1>11, <1>b, <2>1 DEF Resume, QuietInv, ctxVars
    <1> QED
        BY <1>1, <1>2, <1>3, <1>4, <1>5, <1>6, <1>7, <1>8, <1>9, <1>10, <1>11 DEF FiberStep

LEMMA IdleQuiet ==
    ASSUME Inv, QuietInv, NEW i \in Idler, IdleStep(i)
    PROVE  QuietInv'
    <1>0. /\ CtxType /\ KernelType /\ RestType /\ \A c \in Ctx : c.fd \in Fd
        BY InvFacts
    <1>1. CASE EpollWait(i)
        <2>1. NoCloseInv'
            BY <1>1 DEF EpollWait, QuietInv, NoCloseInv
        <2>2. RegInv'
            BY <1>1 DEF EpollWait, QuietInv, RegInv, Registered, ctxVars
        <2>3. ASSUME NEW c \in Ctx, NEW e \in events[c], cond[c.fd] \cap {e, "ERR"} # {}
              PROVE  \E j \in Idler : \E r \in batch'[j] :
                         r.ctx = c /\ r.ev \cap {e, "ERR"} # {} /\ Fresh(r)
            <3>1. Reported(c, e) /\ e \in Event
                BY <1>0 DEF QuietInv, EdgeInv, CtxType
            <3>2. CASE edge[c.fd]
                <4>1. c.fd \in Fd /\ reg[c.fd].ctx = c /\ reg[c.fd].mask = events[c] /\ Registered(c.fd)
                    BY <1>0, QuietFacts DEF QuietInv, RegInv
                <4>2. Revents(c.fd) \cap {e, "ERR"} # {} /\ Revents(c.fd) \cap Event \subseteq events[c]
                    BY <2>3, <4>1 DEF Revents, Event
                <4>3. c.fd \in ReadyFds
                    BY <3>2, <4>1, <4>2 DEF ReadyFds
                <4> DEFINE r == [ctx |-> reg[c.fd].ctx, ev |-> Revents(c.fd)]
                <4>4. r \in batch'[i]
                    BY <1>0, <1>1, <4>3 DEF EpollWait, RestType
                <4>5. r.ctx = c /\ r.ev = Revents(c.fd)
                    BY <4>1
                <4> QED
                    BY <4>2, <4>4, <4>5 DEF Fresh
            <3>3. ASSUME NEW j \in Idler, NEW r \in batch[j],
                         r.ctx = c /\ r.ev \cap {e, "ERR"} # {} /\ Fresh(r)
                  PROVE  r \in batch'[j]
                BY <1>0, <1>1 DEF EpollWait, RestType
            <3> QED
                BY <2>3, <3>1, <3>2, <3>3 DEF Reported
        <2>4. EdgeInv'
            BY <1>1, <2>3 DEF EdgeInv, Reported, Fresh, EpollWait, ctxVars
        <2> QED
            BY <2>1, <2>2, <2>4 DEF QuietInv
    <1>2. ASSUME NEW r \in batch[i], Process(i, r) PROVE QuietInv'
        <2> DEFINE c == r.ctx
                   real == RealEvents(c, r)
                   left == events[c] \ real
        <2>0. r \in Result /\ c \in Ctx /\ r.ev \subseteq Ready
            BY <1>0 DEF RestType, Result
        <2>1. NoCloseInv'
            BY <1>2 DEF Process, QuietInv, NoCloseInv, EpollCtl, kernelVars
        <2>2. \A j \in Idler : \A q \in batch[j] : q \in batch'[j] \/ (j = i /\ q = r)
            BY <1>0, <1>2 DEF Process, RestType
        <2>3. ASSUME NEW e \in events[c], r.ev \cap {e, "ERR"} # {}, Fresh(r)
              PROVE  e \in real /\ real \subseteq events[c]
            BY <1>0, <2>0, <2>3 DEF RealEvents, Fresh, CtxType
        <2>4. CASE UNCHANGED <<events, kernelVars>> /\ ~(events[c] \cap real # {} /\ real \subseteq events[c])
            <3>1. \A e \in events[c] : ~(r.ev \cap {e, "ERR"} # {} /\ Fresh(r))
                BY <2>3, <2>4
            <3>2. RegInv' /\ EdgeInv'
                BY <2>2, <2>4, <3>1, SameQuiet
            <3> QED
                BY <2>1, <3>2 DEF QuietInv
        <2>5. events[c] # {} => ~CtlFails(OpWithout(left), c.fd)
            BY <2>0, QuietFacts DEF CtlFails, OpWithout
        <2>6. CASE /\ EpollCtl(OpWithout(left), c, left) /\ Trigger(c, real)
                   /\ events[c] \cap real # {}
            <3>1. left \in SUBSET Event /\ events' = [events EXCEPT ![c] = left] /\ events[c] # {}
                BY <1>0, <2>0, <2>6 DEF Trigger, CtxType
            <3>2. OpWithout(left) = "DEL" <=> left = {}
                BY DEF OpWithout
            <3>3. \A j \in Idler : \A q \in batch[j] : q.ctx # c => q \in batch'[j]
                BY <2>2
            <3> HIDE DEF c, left
            <3> QED
                BY <2>0, <2>1, <2>6, <3>1, <3>2, <3>3, CtlQuiet DEF QuietInv
        <2> QED
            BY <1>2, <2>4, <2>5, <2>6 DEF Process, ctxVars
    <1> QED
        BY <1>1, <1>2 DEF IdleStep

LEMMA KernelQuiet ==
    ASSUME Inv, QuietInv, NEW fd \in Fd,
           \/ \E what \in Comes : BecomeReady(fd, what)
           \/ \E e \in Event : Drain(fd, e)
           \/ Open(fd)
    PROVE  QuietInv'
    <1>0. /\ CtxType /\ KernelType /\ open = Fd /\ \A c \in Ctx : c.fd \in Fd
        BY InvFacts DEF QuietInv, NoCloseInv
    <1>1. UNCHANGED <<events, reg, call, batch>>
        BY DEF BecomeReady, Drain, Open, ctxVars
    <1>2. open' = open
        BY <1>0 DEF BecomeReady, Drain, Open
    <1>3. NoCloseInv' /\ RegInv'
        BY <1>1, <1>2 DEF QuietInv, NoCloseInv, RegInv, Registered
    <1>4. ASSUME NEW c \in Ctx, NEW e \in events[c] PROVE Reported(c, e)'
        <2>1. Reported(c, e) /\ e \in Event
            BY <1>0 DEF QuietInv, EdgeInv, CtxType
        <2>2. Registered(c.fd) /\ reg[c.fd].mask = events[c]
            BY QuietFacts
        <2>3. \A r : Fresh(r)' <=> Fresh(r)
            BY <1>1 DEF Fresh
        <2>4. ASSUME NEW what \in Comes, BecomeReady(fd, what) PROVE Reported(c, e)'
            <3>1. edge[c.fd] => edge'[c.fd]
                BY <1>0, <2>4 DEF BecomeReady, KernelType
            <3>2. CASE c.fd = fd /\ what \in {e, "ERR"}
                <4>1. edge'[c.fd]
                    BY <1>0, <2>2, <2>4, <3>2 DEF BecomeReady, KernelType
                <4> QED
                    BY <4>1 DEF Reported
            <3>3. CASE ~(c.fd = fd /\ what \in {e, "ERR"})
                <4>1. cond'[c.fd] \cap {e, "ERR"} = cond[c.fd] \cap {e, "ERR"}
                    BY <1>0, <2>4, <3>3 DEF BecomeReady, KernelType
                <4> QED
                    BY <1>1, <2>1, <2>3, <3>1, <4>1 DEF Reported
            <3> QED
                BY <3>2, <3>3
        <2>5. ASSUME NEW h \in Event, Drain(fd, h) PROVE Reported(c, e)'
            <3>1. cond'[c.fd] \cap {e, "ERR"} \subseteq cond[c.fd] \cap {e, "ERR"} /\ edge' = edge
                BY <1>0, <2>5 DEF Drain, KernelType
            <3> QED
                BY <1>1, <2>1, <2>3, <3>1 DEF Reported
        <2>6. ASSUME Open(fd) PROVE Reported(c, e)'
            BY <1>0, <2>6 DEF Open
        <2> QED
            BY <2>4, <2>5, <2>6
    <1>5. EdgeInv'
        BY <1>1, <1>4 DEF EdgeInv
    <1> QED
        BY <1>3, <1>5 DEF QuietInv

LEMMA FullInvStep == FullInv /\ [Next]_vars => FullInv'
    <1> SUFFICES ASSUME FullInv, [Next]_vars PROVE FullInv'
        OBVIOUS
    <1>1. Inv /\ Inv'
        BY InvStep DEF FullInv
    <1>2. ASSUME ~MayClose PROVE QuietInv'
        <2>0. QuietInv
            BY <1>2 DEF FullInv
        <2>1. ASSUME NEW f \in Fiber, FiberStep(f) PROVE QuietInv'
            BY <1>1, <1>2, <2>0, <2>1, FiberQuiet
        <2>2. ASSUME NEW i \in Idler, IdleStep(i) PROVE QuietInv'
            BY <1>1, <2>0, <2>2, IdleQuiet
        <2>3. CASE Kernel
            BY <1>1, <2>0, <2>3, KernelQuiet DEF Kernel
        <2>4. ASSUME UNCHANGED <<events, kernelVars, call, batch>> PROVE QuietInv'
            <3>1. RegInv' /\ EdgeInv'
                BY <1>1, <2>0, <2>4, SameQuiet
            <3>2. NoCloseInv'
                BY <2>0, <2>4 DEF QuietInv, NoCloseInv, kernelVars
            <3> QED
                BY <3>1, <3>2 DEF QuietInv
        <2> QED
            BY <2>1, <2>2, <2>3, <2>4 DEF Next, RunCallback, vars, ctxVars
    <1> QED
        BY <1>1, <1>2 DEF FullInv

(* No edge is lost: what a fiber waits for and has come is in epoll's      *)
(* ready list or in a result still to be looked at, as long as nobody      *)
(* closes a descriptor.                                                    *)
THEOREM EdgesKept == ~MayClose /\ Spec => []NoLostEdge
    <1>1. Init => FullInv
        <2> SUFFICES ASSUME Init PROVE FullInv
            OBVIOUS
        <2>1. NoCloseInv /\ RegInv /\ EdgeInv
            BY DEF Init, NoCloseInv, RegInv, EdgeInv, Registered, NoCall
        <2> QED
            BY <2>1, InvInit DEF FullInv, QuietInv
    <1>2. ASSUME ~MayClose PROVE FullInv => NoLostEdge
        <2> SUFFICES ASSUME Inv, QuietInv, NEW c \in Ctx, NEW e \in events[c],
                            cond[c.fd] \cap {e, "ERR"} # {}
                     PROVE  \/ edge[c.fd] /\ reg[c.fd].ctx = c /\ e \in reg[c.fd].mask
                            \/ \E i \in Idler : \E r \in batch[i] :
                                   r.ctx = c /\ r.ev \cap {e, "ERR"} # {}
            BY <1>2 DEF FullInv, NoLostEdge, Waiting
        <2> QED
            BY QuietFacts DEF QuietInv, EdgeInv, Reported
    <1>3. CASE ~MayClose
        <2>1. FullInv => NoLostEdge
            BY <1>2, <1>3
        <2> QED
            BY <1>1, <2>1, FullInvStep, PTL DEF Spec
    <1>4. CASE MayClose
        BY <1>4
    <1> QED
        BY <1>3, <1>4

=============================================================================
