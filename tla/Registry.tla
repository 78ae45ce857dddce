------------------------------ MODULE Registry ------------------------------
(***************************************************************************)
(* detail::Registry<Interface, Config> of src/UltraAIRegistry.h, one per   *)
(* capability, and EnsureBuiltinAdapters of src/BuiltinAdapters.cpp, whose *)
(* function-local static runs the builtin registrations once.  A call is   *)
(* made by some thread and advances one statement at a time; a factory     *)
(* runs outside the lock and may call the library itself.                  *)
(***************************************************************************)
EXTENDS RegistryTypes

VARIABLES
    factories,    \* factories[cap][name]: factories_ of that Registry
    defaultName,  \* defaultName[cap]: defaultName_
    mutex,        \* mutex[cap]: the call holding mutex_, or Nobody
    once,         \* the static's guard: "no", "running" or "done"
    seeded,       \* how many builtin registrations have returned
    pc,           \* pc[c]: the statement call c is about to execute
    op,           \* op[c]: what call c asks for
    resolved,     \* resolved[c]: Create's local of that name
    factory,      \* factory[c]: Create's copy of the registered factory
    answer        \* answer[c]: what the call returned

vars == <<factories, defaultName, mutex, once, seeded, pc, op, resolved,
          factory, answer>>

Init ==
    /\ factories = [cap \in Caps |-> [n \in Ids |-> NoFactory]]
    /\ defaultName = [cap \in Caps |-> NoName]
    /\ mutex = [cap \in Caps |-> Nobody]
    /\ once = "no"
    /\ seeded = 0
    /\ pc = [c \in Calls |-> "new"]
    /\ op \in [Calls -> AppOps]
    /\ resolved = [c \in Calls |-> NoName]
    /\ factory = [c \in Calls |-> NoFactory]
    /\ answer = [c \in Calls |-> Pending]

Goto(c, label) == pc' = [pc EXCEPT ![c] = label]

Return(c, a) == Goto(c, "done") /\ answer' = [answer EXCEPT ![c] = a]

IsRegister(c) == op[c].kind = "register"

\* What c is registering: its own request, or the next builtin while it seeds.
Registering(c) == IF IsRegister(c) THEN op[c] ELSE Builtins[seeded + 1]

\* Mutant of Lock: it does not wait for the holder.
LockAtOnce(c, cap) == mutex' = [mutex EXCEPT ![cap] = c]

Lock(c, cap) ==
    /\ mutex[cap] = Nobody
    /\ mutex' = [mutex EXCEPT ![cap] = c]

Unlock(cap) == mutex' = [mutex EXCEPT ![cap] = Nobody]

----------------------------------------------------------------------------

\* Register<Cap>Provider enters Register; Create and List first go through
\* EnsureBuiltinAdapters.  A factory's own call begins while it runs.
Call(c) ==
    /\ pc[c] = "new"
    /\ Within[c] # Nobody => pc[Within[c]] = "build"
    /\ Goto(c, IF IsRegister(c) THEN "register" ELSE "ensure")
    /\ UNCHANGED <<factories, defaultName, mutex, once, seeded, op, resolved,
                   factory, answer>>

\* Mutant of EnterOnce: a plain flag, set before the registrations are made.
EnterOnceFlagFirst(c) ==
    /\ pc[c] = "ensure" /\ once = "no"
    /\ once' = "done"
    /\ Goto(c, "seed")
    /\ UNCHANGED <<factories, defaultName, mutex, seeded, op, resolved,
                   factory, answer>>

\* The first call to reach the static runs its initialiser.
EnterOnce(c) ==
    /\ pc[c] = "ensure" /\ once = "no"
    /\ once' = "running"
    /\ Goto(c, "seed")
    /\ UNCHANGED <<factories, defaultName, mutex, seeded, op, resolved,
                   factory, answer>>

\* Mutant of PassOnce: it does not wait for the initialiser to end.
PassOnceAtOnce(c) ==
    /\ pc[c] = "ensure" /\ once # "no"
    /\ Goto(c, "lock")
    /\ UNCHANGED <<factories, defaultName, mutex, once, seeded, op, resolved,
                   factory, answer>>

\* The others wait until it has run, then pass.
PassOnce(c) ==
    /\ pc[c] = "ensure" /\ once = "done"
    /\ Goto(c, "lock")
    /\ UNCHANGED <<factories, defaultName, mutex, once, seeded, op, resolved,
                   factory, answer>>

\* The initialiser calls Register<Cap>Provider for each builtin in turn.
SeedNext(c) ==
    /\ pc[c] = "seed" /\ seeded < Len(Builtins)
    /\ Goto(c, "register")
    /\ UNCHANGED <<factories, defaultName, mutex, once, seeded, op, resolved,
                   factory, answer>>

\* Mutant of LeaveOnce: the initialiser counts one registration too many.
LeaveOnceCounts(c) ==
    /\ pc[c] = "seed" /\ seeded = Len(Builtins)
    /\ once' = "done" /\ seeded' = seeded + 1
    /\ Goto(c, "lock")
    /\ UNCHANGED <<factories, defaultName, mutex, op, resolved, factory, answer>>

LeaveOnce(c) ==
    /\ pc[c] = "seed" /\ seeded = Len(Builtins)
    /\ once' = "done"
    /\ Goto(c, "lock")
    /\ UNCHANGED <<factories, defaultName, mutex, seeded, op, resolved,
                   factory, answer>>

Reject(c) ==
    /\ pc[c] = "register" /\ ~Acceptable(Registering(c))
    /\ Return(c, Answered("Rejected", NoFactory))
    /\ UNCHANGED <<factories, defaultName, mutex, once, seeded, op, resolved,
                   factory>>

LockToRegister(c) ==
    /\ pc[c] = "register" /\ Acceptable(Registering(c))
    /\ Lock(c, Registering(c).cap)
    /\ Goto(c, "insert")
    /\ UNCHANGED <<factories, defaultName, once, seeded, op, resolved, factory,
                   answer>>

Insert(c) ==
    /\ pc[c] = "insert"
    /\ LET r == Registering(c)
       IN  factories' = [factories EXCEPT ![r.cap][r.name] = r.factory]
    /\ Goto(c, "default")
    /\ UNCHANGED <<defaultName, mutex, once, seeded, op, resolved, factory,
                   answer>>

\* The last statement of Register; the lock_guard is released as it returns.
SetDefault(c) ==
    /\ pc[c] = "default"
    /\ LET r == Registering(c)
       IN  /\ defaultName' = [defaultName EXCEPT ![r.cap] = NewDefault(r, @)]
           /\ Unlock(r.cap)
    /\ IF IsRegister(c)
       THEN Return(c, Answered("None", NoFactory)) /\ UNCHANGED seeded
       ELSE Goto(c, "seed") /\ seeded' = seeded + 1 /\ UNCHANGED answer
    /\ UNCHANGED <<factories, once, op, resolved, factory>>

LockToRead(c) ==
    /\ pc[c] = "lock"
    /\ Lock(c, op[c].cap)
    /\ Goto(c, IF op[c].kind = "list" THEN "list" ELSE "resolve")
    /\ UNCHANGED <<factories, defaultName, once, seeded, op, resolved, factory,
                   answer>>

Resolve(c) ==
    /\ pc[c] = "resolve"
    /\ resolved' =
         [resolved EXCEPT ![c] = Resolved(op[c], defaultName[op[c].cap])]
    /\ Goto(c, "find")
    /\ UNCHANGED <<factories, defaultName, mutex, once, seeded, op, factory,
                   answer>>

\* Mutant of Find: the lock is still held while the factory runs.
FindHoldingLock(c) ==
    /\ pc[c] = "find"
    /\ LET f == factories[op[c].cap][resolved[c]]
       IN  /\ factory' = [factory EXCEPT ![c] = f]
           /\ IF f = NoFactory
              THEN Return(c, BuildAnswer(f)) /\ Unlock(op[c].cap)
              ELSE Goto(c, "build") /\ UNCHANGED <<answer, mutex>>
    /\ UNCHANGED <<factories, defaultName, once, seeded, op, resolved>>

\* The factory is copied and the lock released before the copy is run.
Find(c) ==
    /\ pc[c] = "find"
    /\ LET f == factories[op[c].cap][resolved[c]]
       IN  /\ factory' = [factory EXCEPT ![c] = f]
           /\ IF f = NoFactory
              THEN Return(c, BuildAnswer(f))
              ELSE Goto(c, "build") /\ UNCHANGED answer
    /\ Unlock(op[c].cap)
    /\ UNCHANGED <<factories, defaultName, once, seeded, op, resolved>>

\* The factory returns, after every call it has made has returned.
Build(c) ==
    /\ pc[c] = "build"
    /\ \A d \in Calls : Within[d] = c => pc[d] \in {"new", "done"}
    /\ Return(c, BuildAnswer(factory[c]))
    /\ UNCHANGED <<factories, defaultName, mutex, once, seeded, op, resolved,
                   factory>>

List(c) ==
    /\ pc[c] = "list"
    /\ Return(c, [Answered("None", NoFactory) EXCEPT
                    !.names = Registered(factories[op[c].cap])])
    /\ Unlock(op[c].cap)
    /\ UNCHANGED <<factories, defaultName, once, seeded, op, resolved, factory>>

Step(c) ==
    \/ EnterOnce(c) \/ PassOnce(c) \/ SeedNext(c) \/ LeaveOnce(c)
    \/ Reject(c) \/ LockToRegister(c) \/ Insert(c) \/ SetDefault(c)
    \/ LockToRead(c) \/ Resolve(c) \/ Find(c) \/ Build(c) \/ List(c)

Next == \E c \in Calls : Call(c) \/ Step(c)

Spec == Init /\ [][Next]_vars

\* A thread inside the library keeps running, mutexes and the static's guard
\* are handed on, and factories return; nothing obliges a thread to call.
FairSpec == Spec /\ \A c \in Calls : WF_vars(Step(c))

----------------------------------------------------------------------------

Labels == {"new", "ensure", "seed", "register", "insert", "default", "lock",
           "resolve", "find", "build", "list", "done"}

TypeOK ==
    /\ factories \in [Caps -> [Ids -> FactoryOrNone]]
    /\ defaultName \in [Caps -> Ids]
    /\ mutex \in [Caps -> Calls \cup {Nobody}]
    /\ once \in {"no", "running", "done"}
    /\ seeded \in 0..Len(Builtins)
    /\ pc \in [Calls -> Labels]
    /\ op \in [Calls -> Operation]
    /\ resolved \in [Calls -> Ids]
    /\ factory \in [Calls -> FactoryOrNone]
    /\ answer \in [Calls -> Answer]

\* Whenever nobody holds a registry's lock, its default is one of its
\* registered providers, and it has a default as soon as it has a provider
\* (UltraAIRegistry.h:34-35): an empty id never leads to a dangling default.
DefaultRoutes ==
    \A cap \in Caps :
        mutex[cap] = Nobody =>
            IF defaultName[cap] = NoName
            THEN Registered(factories[cap]) = {}
            ELSE defaultName[cap] \in Registered(factories[cap])

\* A Create of a builtin provider, by its name or by an empty id, never
\* answers "provider not registered", however many threads make the first
\* calls: whoever loses the race for the static (BuiltinAdapters.cpp:19)
\* waits until every registration has been made.
BuiltinsReachable ==
    \A c \in Calls :
        (pc[c] = "done" /\ op[c].kind = "create"
           /\ BuiltinNames(op[c].cap) # {}
           /\ op[c].name \in BuiltinNames(op[c].cap) \cup {NoName})
        => answer[c].err # "ProviderUnavailable"

\* A completed List names every builtin of its capability and never a
\* half-made registration such as the empty name.
ListsBuiltins ==
    \A c \in Calls :
        (pc[c] = "done" /\ op[c].kind = "list") =>
            /\ BuiltinNames(op[c].cap) \subseteq answer[c].names
            /\ NoName \notin answer[c].names

\* Once a capability has a default, only an application's registration that
\* asks for it (makeDefault) moves it: the lazily run builtin registrations
\* never take over a route (UltraAIRegistry.h:35).
DefaultMovesOnRequest ==
    [][\A cap \in Caps :
          (defaultName[cap] # NoName /\ defaultName'[cap] # defaultName[cap])
          => \E c \in Calls : /\ pc[c] = "default" /\ IsRegister(c)
                              /\ op[c].makeDefault
                              /\ op[c].name = defaultName'[cap]]_vars

\* Every call that is made returns, in particular one a factory makes while
\* the Create that runs it is still going on: the factory runs outside the
\* lock (UltraAIRegistry.h:43-58) and seeding waits for no caller.
CallsReturn == \A c \in Calls : pc[c] # "new" ~> pc[c] = "done"

----------------------------------------------------------------------------
(***************************************************************************)
(* Implementation of RegistrySpec.  A registration takes effect when it    *)
(* inserts: the default it is about to set, the builtin it is about to     *)
(* count and its return are already true of the abstract registry.         *)
(***************************************************************************)

Inserted(c) == pc[c] = "default"

absDefault ==
    [cap \in Caps |->
        IF mutex[cap] # Nobody /\ Inserted(mutex[cap])
        THEN NewDefault(Registering(mutex[cap]), defaultName[cap])
        ELSE defaultName[cap]]

absSeeded ==
    IF \E c \in Calls : Inserted(c) /\ ~IsRegister(c)
    THEN seeded + 1 ELSE seeded

absStatus ==
    [c \in Calls |->
        CASE pc[c] = "new" -> "new"
          [] pc[c] = "build" -> "found"
          [] pc[c] = "done" \/ (Inserted(c) /\ IsRegister(c)) -> "done"
          [] OTHER -> "called"]

absAnswer ==
    [c \in Calls |->
        IF Inserted(c) /\ IsRegister(c)
        THEN Answered("None", NoFactory) ELSE answer[c]]

Abs == INSTANCE RegistrySpec WITH
         table <- factories, default <- absDefault, seeded <- absSeeded,
         status <- absStatus, found <- factory, answer <- absAnswer

\* Each call takes effect in one step between its call and its return, with
\* every builtin in place before the first lookup: the registry implements
\* the atomic one of RegistrySpec.
ImplementsRegistrySpec == Abs!Spec
=============================================================================
