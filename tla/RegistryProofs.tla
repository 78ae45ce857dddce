--------------------------- MODULE RegistryProofs ---------------------------
(***************************************************************************)
(* Proofs about Registry for any number of calls, capabilities, providers, *)
(* factories and builtin registrations.                                    *)
(***************************************************************************)
EXTENDS Registry, TLAPS

\* Every builtin registration is a well-formed request Register accepts, and
\* none asks for the default (MockAdapters.cpp:562-581, LocalAdapters.cpp:
\* 918-937).
LEMMA BuiltinsAreAcceptable ==
    /\ Len(Builtins) \in Nat
    /\ \A i \in 1..Len(Builtins) :
          /\ Builtins[i] \in Operation
          /\ Acceptable(Builtins[i])
          /\ Builtins[i].kind = "register"
          /\ ~Builtins[i].makeDefault
<1>1. /\ RegisterMockAdapters \in Seq(Operation)
      /\ RegisterLocalAdapters \in Seq(Operation)
  BY NameAssumption
     DEF RegisterMockAdapters, RegisterLocalAdapters, Builtin, Operation, Ids,
         FactoryOrNone
<1>2. /\ \A i \in 1..Len(RegisterMockAdapters) :
            /\ Acceptable(RegisterMockAdapters[i])
            /\ RegisterMockAdapters[i].kind = "register"
            /\ ~RegisterMockAdapters[i].makeDefault
      /\ \A i \in 1..Len(RegisterLocalAdapters) :
            /\ Acceptable(RegisterLocalAdapters[i])
            /\ RegisterLocalAdapters[i].kind = "register"
            /\ ~RegisterLocalAdapters[i].makeDefault
  BY NameAssumption
     DEF RegisterMockAdapters, RegisterLocalAdapters, Builtin, Acceptable
<1>3. Builtins \in Seq(Operation)
  BY <1>1 DEF Builtins
<1>4. ASSUME NEW i \in 1..Len(Builtins)
      PROVE  \/ i \in 1..Len(RegisterMockAdapters)
                /\ Builtins[i] = RegisterMockAdapters[i]
             \/ \E j \in 1..Len(RegisterLocalAdapters) :
                   Builtins[i] = RegisterLocalAdapters[j]
  <2>1. CASE i <= Len(RegisterMockAdapters)
    BY <1>1, <2>1 DEF Builtins
  <2>2. CASE i > Len(RegisterMockAdapters)
    <3>1. i - Len(RegisterMockAdapters) \in 1..Len(RegisterLocalAdapters)
      BY <1>1, <2>2 DEF Builtins
    <3>2. Builtins[i]
            = RegisterLocalAdapters[i - Len(RegisterMockAdapters)]
      BY <1>1, <2>2, <3>1 DEF Builtins
    <3> QED BY <3>1, <3>2
  <2> QED BY <1>1, <2>1, <2>2
<1> QED BY <1>2, <1>3, <1>4

----------------------------------------------------------------------------
(***************************************************************************)
(* The inductive invariant.                                                *)
(***************************************************************************)

\* What a call that is registering something is doing.
Registers(c) == pc[c] \in {"register", "insert", "default"}

\* A call that runs the static's initialiser.
Seeding(c) == pc[c] = "seed" \/ (Registers(c) /\ ~IsRegister(c))

\* A call that is past EnsureBuiltinAdapters.
Reads(c) == pc[c] \in {"lock", "resolve", "find", "build", "list"}

\* The calls inside the critical section of cap's registry.
Holds(c, cap) ==
    \/ pc[c] \in {"insert", "default"} /\ Registering(c).cap = cap
    \/ pc[c] \in {"resolve", "find", "list"} /\ op[c].cap = cap

MutexInv == \A c \in Calls, cap \in Caps : mutex[cap] = c <=> Holds(c, cap)

KindInv ==
    \A c \in Calls :
        /\ (pc[c] \in {"ensure", "seed"} \/ Reads(c)) => ~IsRegister(c)
        /\ pc[c] \in {"resolve", "find", "build"} => op[c].kind = "create"
        /\ pc[c] = "list" => op[c].kind = "list"
        /\ pc[c] \in {"insert", "default"} => Acceptable(Registering(c))

\* The initialiser registers builtins that are there to register.
SeedingInv ==
    \A c \in Calls : (Registers(c) /\ ~IsRegister(c)) => seeded < Len(Builtins)

\* One call runs the initialiser, and lookups wait for it.
OnceInv ==
    /\ once = "done" => seeded = Len(Builtins)
    /\ \A c \in Calls : Seeding(c) => once = "running"
    /\ \A c, d \in Calls : Seeding(c) /\ Seeding(d) => c = d
    /\ \A c \in Calls : Reads(c) => once = "done"

\* The default is registered, and missing only while the first is inserted.
TableInv ==
    /\ \A cap \in Caps : factories[cap][NoName] = NoFactory
    /\ \A cap \in Caps :
          defaultName[cap] # NoName =>
              factories[cap][defaultName[cap]] # NoFactory
    /\ \A cap \in Caps : defaultName[cap] = NoName =>
          \/ \A n \in Ids : factories[cap][n] = NoFactory
          \/ \E c \in Calls : mutex[cap] = c /\ pc[c] = "default"

\* Every builtin counted as registered is, and stays, in the table.
SeededInv ==
    /\ \A i \in 1..seeded :
          factories[Builtins[i].cap][Builtins[i].name] # NoFactory
    /\ \A c \in Calls : pc[c] = "default" =>
          factories[Registering(c).cap][Registering(c).name] # NoFactory

\* Inside the critical section a lookup's id is still what it resolved to.
LookupInv ==
    \A c \in Calls :
        /\ pc[c] = "find" =>
              resolved[c] = Resolved(op[c], defaultName[op[c].cap])
        /\ pc[c] = "build" => factory[c] # NoFactory

IInv ==
    /\ TypeOK /\ SeedingInv /\ MutexInv /\ KindInv /\ OnceInv
    /\ TableInv /\ SeededInv /\ LookupInv

----------------------------------------------------------------------------
(* Type correctness.                                                       *)

\* What c registers is a request, whoever asks for it.
LEMMA RegisteringType ==
    ASSUME TypeOK, SeedingInv, NEW c \in Calls, Registers(c)
    PROVE  /\ Registering(c) \in Operation
           /\ ~IsRegister(c) => Acceptable(Registering(c))
           /\ Registering(c).kind = "register"
           /\ ~IsRegister(c) => ~Registering(c).makeDefault
<1>1. CASE IsRegister(c)
  BY <1>1 DEF TypeOK, Registering, IsRegister, Operation
<1>2. CASE ~IsRegister(c)
  <2>1. seeded + 1 \in 1..Len(Builtins)
    BY <1>2, BuiltinsAreAcceptable DEF TypeOK, SeedingInv
  <2> QED BY <1>2, <2>1, BuiltinsAreAcceptable DEF Registering
<1> QED BY <1>1, <1>2

\* What a Create or a registration answers is an Answer.
LEMMA AnswerType ==
    /\ Pending \in Answer
    /\ \A err \in {"None", "Rejected", "ProviderUnavailable", "Internal"},
          f \in FactoryOrNone : Answered(err, f) \in Answer
    /\ \A f \in FactoryOrNone : BuildAnswer(f) \in Answer
BY NameAssumption
   DEF Pending, Answered, Answer, BuildAnswer, FactoryOrNone, Ids

\* The invariant holds before any call is made.
LEMMA InitIInv == Init => IInv
<1> SUFFICES ASSUME Init PROVE IInv
  OBVIOUS
<1>1. TypeOK
  BY CallAssumption, NameAssumption, BuiltinsAreAcceptable, AnswerType
     DEF Init, TypeOK, Ids, FactoryOrNone, Labels
<1>2. SeedingInv /\ KindInv /\ OnceInv /\ LookupInv /\ SeededInv
  BY DEF Init, SeedingInv, KindInv, OnceInv, LookupInv, SeededInv, Registers,
         Reads, Seeding
<1>3. MutexInv
  BY CallAssumption DEF Init, MutexInv, Holds
<1>4. TableInv
  BY NameAssumption DEF Init, TableInv, Ids
<1> QED BY <1>1, <1>2, <1>3, <1>4 DEF IInv

\* No statement of a call takes a variable out of its type.
LEMMA TypeStep == TypeOK /\ SeedingInv /\ [Next]_vars => TypeOK'
<1> SUFFICES ASSUME TypeOK, SeedingInv, [Next]_vars PROVE TypeOK'
  OBVIOUS
<1> USE DEF TypeOK, Goto
<1>1. CASE UNCHANGED vars
  BY <1>1 DEF vars
<1>2. ASSUME NEW c \in Calls, Call(c) PROVE TypeOK'
  BY <1>2 DEF Call, Labels
<1>3. ASSUME NEW c \in Calls, EnterOnce(c) PROVE TypeOK'
  BY <1>3 DEF EnterOnce, Labels
<1>4. ASSUME NEW c \in Calls, PassOnce(c) PROVE TypeOK'
  BY <1>4 DEF PassOnce, Labels
<1>5. ASSUME NEW c \in Calls, SeedNext(c) PROVE TypeOK'
  BY <1>5 DEF SeedNext, Labels
<1>6. ASSUME NEW c \in Calls, LeaveOnce(c) PROVE TypeOK'
  BY <1>6 DEF LeaveOnce, Labels
<1>7. ASSUME NEW c \in Calls, Reject(c) PROVE TypeOK'
  <2>1. Answered("Rejected", NoFactory) \in Answer
    BY AnswerType DEF FactoryOrNone
  <2> QED BY <1>7, <2>1 DEF Reject, Return, Labels
<1>8. ASSUME NEW c \in Calls, LockToRegister(c) PROVE TypeOK'
  BY <1>8 DEF LockToRegister, Lock, Labels
<1>9. ASSUME NEW c \in Calls, Insert(c) PROVE TypeOK'
  <2>1. Registering(c) \in Operation
    BY <1>9, RegisteringType DEF Insert, Registers
  <2>2. factories' \in [Caps -> [Ids -> FactoryOrNone]]
    BY <1>9, <2>1 DEF Insert, Operation
  <2> QED BY <1>9, <2>2 DEF Insert, Labels
<1>10. ASSUME NEW c \in Calls, SetDefault(c) PROVE TypeOK'
  <2>1. Registering(c) \in Operation
    BY <1>10, RegisteringType DEF SetDefault, Registers
  <2>2. /\ defaultName' \in [Caps -> Ids]
        /\ mutex' \in [Caps -> Calls \cup {Nobody}]
    BY <1>10, <2>1 DEF SetDefault, Unlock, Operation, NewDefault
  <2>3. Answered("None", NoFactory) \in Answer
    BY AnswerType DEF FactoryOrNone
  <2>4. CASE IsRegister(c)
    BY <1>10, <2>2, <2>3, <2>4 DEF SetDefault, Return, Labels
  <2>5. CASE ~IsRegister(c)
    <3>1. seeded + 1 \in 0..Len(Builtins)
      BY <1>10, <2>5, BuiltinsAreAcceptable
         DEF SetDefault, SeedingInv, Registers
    <3> QED BY <1>10, <2>2, <2>5, <3>1 DEF SetDefault, Labels
  <2> QED BY <2>4, <2>5
<1>11. ASSUME NEW c \in Calls, LockToRead(c) PROVE TypeOK'
  BY <1>11 DEF LockToRead, Lock, Labels
<1>12. ASSUME NEW c \in Calls, Resolve(c) PROVE TypeOK'
  <2>1. Resolved(op[c], defaultName[op[c].cap]) \in Ids
    BY DEF Resolved, Operation
  <2> QED BY <1>12, <2>1 DEF Resolve, Labels
<1>13. ASSUME NEW c \in Calls, Find(c) PROVE TypeOK'
  <2>1. factories[op[c].cap][resolved[c]] \in FactoryOrNone
    BY DEF Operation
  <2>2. BuildAnswer(factories[op[c].cap][resolved[c]]) \in Answer
    BY <2>1, AnswerType
  <2> QED BY <1>13, <2>1, <2>2 DEF Find, Unlock, Return, Labels
<1>14. ASSUME NEW c \in Calls, Build(c) PROVE TypeOK'
  <2>1. BuildAnswer(factory[c]) \in Answer
    BY AnswerType
  <2> QED BY <1>14, <2>1 DEF Build, Return, Labels
<1>15. ASSUME NEW c \in Calls, List(c) PROVE TypeOK'
  <2>1. [Answered("None", NoFactory) EXCEPT
           !.names = Registered(factories[op[c].cap])] \in Answer
    BY AnswerType DEF FactoryOrNone, Answer, Registered
  <2> QED BY <1>15, <2>1 DEF List, Unlock, Return, Labels
<1> QED
  BY <1>1, <1>2, <1>3, <1>4, <1>5, <1>6, <1>7, <1>8, <1>9, <1>10, <1>11,
     <1>12, <1>13, <1>14, <1>15 DEF Next, Step

\* While one call leaves Register the others keep what they register: only
\* the initialiser's own is counted off.
LEMMA RegisteringStable ==
    ASSUME IInv, NEW c \in Calls, SetDefault(c), NEW d \in Calls, d # c,
           Registers(d)
    PROVE  Registering(d)' = Registering(d)
<1>1. CASE IsRegister(c)
  BY <1>1 DEF SetDefault, Registering, IsRegister
<1>2. CASE ~IsRegister(c)
  <2>1. Seeding(c)
    BY <1>2 DEF SetDefault, Seeding, Registers
  <2>2. IsRegister(d)
    BY <2>1 DEF IInv, OnceInv, Seeding
  <2> QED BY <2>2 DEF SetDefault, Registering, IsRegister
<1> QED BY <1>1, <1>2


\* No builtin is registered that is not there: one call counts them.
LEMMA SeedingStep == IInv /\ TypeOK' /\ [Next]_vars => SeedingInv'
<1> SUFFICES ASSUME IInv, TypeOK', [Next]_vars PROVE SeedingInv'
  OBVIOUS
<1> USE BuiltinsAreAcceptable DEF IInv, TypeOK, SeedingInv, OnceInv, KindInv, Seeding,
       Registers, Reads, IsRegister, Goto
<1>1. CASE UNCHANGED vars
  BY <1>1 DEF vars
<1>2. ASSUME NEW c \in Calls, Call(c) PROVE SeedingInv'
  BY <1>2 DEF Call
<1>3. ASSUME NEW c \in Calls, EnterOnce(c) PROVE SeedingInv'
  BY <1>3 DEF EnterOnce
<1>4. ASSUME NEW c \in Calls, PassOnce(c) PROVE SeedingInv'
  BY <1>4 DEF PassOnce
<1>5. ASSUME NEW c \in Calls, SeedNext(c) PROVE SeedingInv'
  BY <1>5 DEF SeedNext
<1>6. ASSUME NEW c \in Calls, LeaveOnce(c) PROVE SeedingInv'
  BY <1>6 DEF LeaveOnce
<1>7. ASSUME NEW c \in Calls, Reject(c) PROVE SeedingInv'
  BY <1>7 DEF Reject, Return
<1>8. ASSUME NEW c \in Calls, LockToRegister(c) PROVE SeedingInv'
  BY <1>8 DEF LockToRegister, Lock
<1>9. ASSUME NEW c \in Calls, Insert(c) PROVE SeedingInv'
  BY <1>9 DEF Insert
<1>10. ASSUME NEW c \in Calls, SetDefault(c) PROVE SeedingInv'
  BY <1>10 DEF SetDefault, Unlock, Return
<1>11. ASSUME NEW c \in Calls, LockToRead(c) PROVE SeedingInv'
  BY <1>11 DEF LockToRead, Lock
<1>12. ASSUME NEW c \in Calls, Resolve(c) PROVE SeedingInv'
  BY <1>12 DEF Resolve
<1>13. ASSUME NEW c \in Calls, Find(c) PROVE SeedingInv'
  BY <1>13 DEF Find, Unlock, Return
<1>14. ASSUME NEW c \in Calls, Build(c) PROVE SeedingInv'
  BY <1>14 DEF Build, Return
<1>15. ASSUME NEW c \in Calls, List(c) PROVE SeedingInv'
  BY <1>15 DEF List, Unlock, Return
<1> QED
  BY <1>1, <1>2, <1>3, <1>4, <1>5, <1>6, <1>7, <1>8,
     <1>9, <1>10, <1>11, <1>12, <1>13, <1>14, <1>15 DEF Next, Step

\* One call runs the initialiser and the lookups wait for it.
LEMMA OnceStep == IInv /\ TypeOK' /\ [Next]_vars => OnceInv'
<1> SUFFICES ASSUME IInv, TypeOK', [Next]_vars PROVE OnceInv'
  OBVIOUS
<1> USE BuiltinsAreAcceptable DEF IInv, TypeOK, SeedingInv, OnceInv, KindInv, Seeding,
       Registers, Reads, IsRegister, Goto
<1>1. CASE UNCHANGED vars
  BY <1>1 DEF vars
<1>2. ASSUME NEW c \in Calls, Call(c) PROVE OnceInv'
  BY <1>2 DEF Call
<1>3. ASSUME NEW c \in Calls, EnterOnce(c) PROVE OnceInv'
  BY <1>3 DEF EnterOnce
<1>4. ASSUME NEW c \in Calls, PassOnce(c) PROVE OnceInv'
  BY <1>4 DEF PassOnce
<1>5. ASSUME NEW c \in Calls, SeedNext(c) PROVE OnceInv'
  BY <1>5 DEF SeedNext
<1>6. ASSUME NEW c \in Calls, LeaveOnce(c) PROVE OnceInv'
  BY <1>6 DEF LeaveOnce
<1>7. ASSUME NEW c \in Calls, Reject(c) PROVE OnceInv'
  BY <1>7 DEF Reject, Return
<1>8. ASSUME NEW c \in Calls, LockToRegister(c) PROVE OnceInv'
  BY <1>8 DEF LockToRegister, Lock
<1>9. ASSUME NEW c \in Calls, Insert(c) PROVE OnceInv'
  BY <1>9 DEF Insert
<1>10. ASSUME NEW c \in Calls, SetDefault(c) PROVE OnceInv'
  BY <1>10 DEF SetDefault, Unlock, Return
<1>11. ASSUME NEW c \in Calls, LockToRead(c) PROVE OnceInv'
  BY <1>11 DEF LockToRead, Lock
<1>12. ASSUME NEW c \in Calls, Resolve(c) PROVE OnceInv'
  BY <1>12 DEF Resolve
<1>13. ASSUME NEW c \in Calls, Find(c) PROVE OnceInv'
  BY <1>13 DEF Find, Unlock, Return
<1>14. ASSUME NEW c \in Calls, Build(c) PROVE OnceInv'
  BY <1>14 DEF Build, Return
<1>15. ASSUME NEW c \in Calls, List(c) PROVE OnceInv'
  BY <1>15 DEF List, Unlock, Return
<1> QED
  BY <1>1, <1>2, <1>3, <1>4, <1>5, <1>6, <1>7, <1>8,
     <1>9, <1>10, <1>11, <1>12, <1>13, <1>14, <1>15 DEF Next, Step

\* Each call executes the statements of the operation it is.
LEMMA KindStep == IInv /\ TypeOK' /\ [Next]_vars => KindInv'
<1> SUFFICES ASSUME IInv, TypeOK', [Next]_vars PROVE KindInv'
  OBVIOUS
<1> USE BuiltinsAreAcceptable DEF IInv, TypeOK, SeedingInv, OnceInv, KindInv, Seeding,
       Registers, Reads, IsRegister, Registering, Goto, Operation
<1>1. CASE UNCHANGED vars
  BY <1>1 DEF vars
<1>2. ASSUME NEW c \in Calls, Call(c) PROVE KindInv'
  BY <1>2 DEF Call
<1>3. ASSUME NEW c \in Calls, EnterOnce(c) PROVE KindInv'
  BY <1>3 DEF EnterOnce
<1>4. ASSUME NEW c \in Calls, PassOnce(c) PROVE KindInv'
  BY <1>4 DEF PassOnce
<1>5. ASSUME NEW c \in Calls, SeedNext(c) PROVE KindInv'
  BY <1>5 DEF SeedNext
<1>6. ASSUME NEW c \in Calls, LeaveOnce(c) PROVE KindInv'
  BY <1>6 DEF LeaveOnce
<1>7. ASSUME NEW c \in Calls, Reject(c) PROVE KindInv'
  BY <1>7 DEF Reject, Return
<1>8. ASSUME NEW c \in Calls, LockToRegister(c) PROVE KindInv'
  BY <1>8 DEF LockToRegister, Lock
<1>9. ASSUME NEW c \in Calls, Insert(c) PROVE KindInv'
  BY <1>9 DEF Insert
<1>10. ASSUME NEW c \in Calls, SetDefault(c) PROVE KindInv'
  <2>1. ASSUME NEW d \in Calls, d # c, pc[d] \in {"insert", "default"}
        PROVE  Acceptable(Registering(d))'
    BY <1>10, <2>1, RegisteringStable DEF Acceptable
  <2> QED BY <1>10, <2>1 DEF SetDefault, Unlock, Return, Acceptable
<1>11. ASSUME NEW c \in Calls, LockToRead(c) PROVE KindInv'
  BY <1>11 DEF LockToRead, Lock
<1>12. ASSUME NEW c \in Calls, Resolve(c) PROVE KindInv'
  BY <1>12 DEF Resolve
<1>13. ASSUME NEW c \in Calls, Find(c) PROVE KindInv'
  BY <1>13 DEF Find, Unlock, Return
<1>14. ASSUME NEW c \in Calls, Build(c) PROVE KindInv'
  BY <1>14 DEF Build, Return
<1>15. ASSUME NEW c \in Calls, List(c) PROVE KindInv'
  BY <1>15 DEF List, Unlock, Return
<1> QED
  BY <1>1, <1>2, <1>3, <1>4, <1>5, <1>6, <1>7, <1>8,
     <1>9, <1>10, <1>11, <1>12, <1>13, <1>14, <1>15 DEF Next, Step

\* The lock of a registry is held by the call inside its critical section.
LEMMA MutexStep == IInv /\ TypeOK' /\ [Next]_vars => MutexInv'
<1> SUFFICES ASSUME IInv, TypeOK', [Next]_vars PROVE MutexInv'
  OBVIOUS
<1> USE BuiltinsAreAcceptable, CallAssumption DEF IInv, TypeOK, SeedingInv, OnceInv, KindInv, MutexInv,
       Holds, Seeding, Registers, Reads, IsRegister, Registering, Goto, Operation
<1>1. CASE UNCHANGED vars
  BY <1>1 DEF vars
<1>2. ASSUME NEW c \in Calls, Call(c) PROVE MutexInv'
  BY <1>2 DEF Call
<1>3. ASSUME NEW c \in Calls, EnterOnce(c) PROVE MutexInv'
  BY <1>3 DEF EnterOnce
<1>4. ASSUME NEW c \in Calls, PassOnce(c) PROVE MutexInv'
  BY <1>4 DEF PassOnce
<1>5. ASSUME NEW c \in Calls, SeedNext(c) PROVE MutexInv'
  BY <1>5 DEF SeedNext
<1>6. ASSUME NEW c \in Calls, LeaveOnce(c) PROVE MutexInv'
  BY <1>6 DEF LeaveOnce
<1>7. ASSUME NEW c \in Calls, Reject(c) PROVE MutexInv'
  BY <1>7 DEF Reject, Return
<1>8. ASSUME NEW c \in Calls, LockToRegister(c) PROVE MutexInv'
  <2>1. Registering(c).cap \in Caps
    BY <1>8, RegisteringType DEF LockToRegister
  <2>2. ASSUME NEW d \in Calls, NEW cap \in Caps
        PROVE  (mutex[cap] = d <=> Holds(d, cap))'
    BY <1>8, <2>1, <2>2 DEF LockToRegister, Lock
  <2> QED BY <2>2
<1>9. ASSUME NEW c \in Calls, Insert(c) PROVE MutexInv'
  BY <1>9 DEF Insert
<1>10. ASSUME NEW c \in Calls, SetDefault(c) PROVE MutexInv'
  <2>1. Registering(c).cap \in Caps /\ mutex[Registering(c).cap] = c
    BY <1>10, RegisteringType DEF SetDefault
  <2>2. ASSUME NEW d \in Calls, NEW cap \in Caps, d # c
        PROVE  (mutex[cap] = d <=> Holds(d, cap))'
    <3>1. Holds(d, cap)' <=> Holds(d, cap)
      BY <1>10, <2>2, RegisteringStable DEF SetDefault, Return
    <3> QED BY <1>10, <2>1, <2>2, <3>1 DEF SetDefault, Unlock
  <2>3. ASSUME NEW cap \in Caps
        PROVE  (mutex[cap] = c <=> Holds(c, cap))'
    BY <1>10, <2>1 DEF SetDefault, Unlock, Return
  <2> QED BY <2>2, <2>3
<1>11. ASSUME NEW c \in Calls, LockToRead(c) PROVE MutexInv'
  <2>1. ASSUME NEW d \in Calls, NEW cap \in Caps
        PROVE  (mutex[cap] = d <=> Holds(d, cap))'
    BY <1>11, <2>1 DEF LockToRead, Lock
  <2> QED BY <2>1
<1>12. ASSUME NEW c \in Calls, Resolve(c) PROVE MutexInv'
  BY <1>12 DEF Resolve
<1>13. ASSUME NEW c \in Calls, Find(c) PROVE MutexInv'
  <2>1. ASSUME NEW d \in Calls, NEW cap \in Caps
        PROVE  (mutex[cap] = d <=> Holds(d, cap))'
    BY <1>13, <2>1 DEF Find, Unlock, Return
  <2> QED BY <2>1
<1>14. ASSUME NEW c \in Calls, Build(c) PROVE MutexInv'
  BY <1>14 DEF Build, Return
<1>15. ASSUME NEW c \in Calls, List(c) PROVE MutexInv'
  <2>1. ASSUME NEW d \in Calls, NEW cap \in Caps
        PROVE  (mutex[cap] = d <=> Holds(d, cap))'
    BY <1>15, <2>1 DEF List, Unlock, Return
  <2> QED BY <2>1
<1> QED
  BY <1>1, <1>2, <1>3, <1>4, <1>5, <1>6, <1>7, <1>8,
     <1>9, <1>10, <1>11, <1>12, <1>13, <1>14, <1>15 DEF Next, Step

\* The default stays a registered provider.
LEMMA TableStep == IInv /\ TypeOK' /\ [Next]_vars => TableInv'
<1> SUFFICES ASSUME IInv, TypeOK', [Next]_vars PROVE TableInv'
  OBVIOUS
<1> USE BuiltinsAreAcceptable, CallAssumption DEF IInv, TypeOK, SeedingInv, OnceInv, KindInv, MutexInv,
       TableInv, SeededInv, Holds, Seeding, Registers, Reads, IsRegister,
       Registering, Goto, Operation, Acceptable
<1>1. CASE UNCHANGED vars
  BY <1>1 DEF vars
<1>2. ASSUME NEW c \in Calls, Call(c) PROVE TableInv'
  BY <1>2 DEF Call
<1>3. ASSUME NEW c \in Calls, EnterOnce(c) PROVE TableInv'
  BY <1>3 DEF EnterOnce
<1>4. ASSUME NEW c \in Calls, PassOnce(c) PROVE TableInv'
  BY <1>4 DEF PassOnce
<1>5. ASSUME NEW c \in Calls, SeedNext(c) PROVE TableInv'
  BY <1>5 DEF SeedNext
<1>6. ASSUME NEW c \in Calls, LeaveOnce(c) PROVE TableInv'
  BY <1>6 DEF LeaveOnce
<1>7. ASSUME NEW c \in Calls, Reject(c) PROVE TableInv'
  BY <1>7 DEF Reject, Return
<1>8. ASSUME NEW c \in Calls, LockToRegister(c) PROVE TableInv'
  BY <1>8 DEF LockToRegister, Lock
<1>9. ASSUME NEW c \in Calls, Insert(c) PROVE TableInv'
  BY <1>9 DEF Insert
<1>10. ASSUME NEW c \in Calls, SetDefault(c) PROVE TableInv'
  <2> DEFINE r == Registering(c)
  <2>1. /\ r \in Operation /\ Acceptable(r)
        /\ mutex[r.cap] = c
        /\ \A cap \in Caps : mutex[cap] = c => cap = r.cap
        /\ factories[r.cap][r.name] # NoFactory
    BY <1>10, RegisteringType DEF SetDefault
  <2>2. /\ defaultName' = [defaultName EXCEPT
                              ![r.cap] = NewDefault(r, defaultName[r.cap])]
        /\ mutex' = [mutex EXCEPT ![r.cap] = Nobody]
        /\ UNCHANGED factories
        /\ \A d \in Calls : d # c => pc'[d] = pc[d]
    BY <1>10 DEF SetDefault, Unlock, Return
  <2> HIDE DEF r
  <2>3. ASSUME NEW cap \in Caps
        PROVE  (/\ factories[cap][NoName] = NoFactory
                /\ defaultName[cap] # NoName =>
                      factories[cap][defaultName[cap]] # NoFactory
                /\ defaultName[cap] = NoName =>
                      \/ \A n \in Ids : factories[cap][n] = NoFactory
                      \/ \E e \in Calls : mutex[cap] = e /\ pc[e] = "default")'
    <3>1. CASE cap = r.cap
      BY <2>1, <2>2, <3>1 DEF NewDefault
    <3>2. CASE cap # r.cap
      BY <2>1, <2>2, <3>2
    <3> QED BY <3>1, <3>2
  <2> QED BY <2>3
<1>11. ASSUME NEW c \in Calls, LockToRead(c) PROVE TableInv'
  BY <1>11 DEF LockToRead, Lock
<1>12. ASSUME NEW c \in Calls, Resolve(c) PROVE TableInv'
  BY <1>12 DEF Resolve
<1>13. ASSUME NEW c \in Calls, Find(c) PROVE TableInv'
  BY <1>13 DEF Find, Unlock, Return
<1>14. ASSUME NEW c \in Calls, Build(c) PROVE TableInv'
  BY <1>14 DEF Build, Return
<1>15. ASSUME NEW c \in Calls, List(c) PROVE TableInv'
  BY <1>15 DEF List, Unlock, Return
<1> QED
  BY <1>1, <1>2, <1>3, <1>4, <1>5, <1>6, <1>7, <1>8,
     <1>9, <1>10, <1>11, <1>12, <1>13, <1>14, <1>15 DEF Next, Step

\* A registered builtin stays in the table.
LEMMA SeededStep == IInv /\ TypeOK' /\ [Next]_vars => SeededInv'
<1> SUFFICES ASSUME IInv, TypeOK', [Next]_vars PROVE SeededInv'
  OBVIOUS
<1> USE BuiltinsAreAcceptable DEF IInv, TypeOK, SeedingInv, OnceInv, KindInv, MutexInv,
       TableInv, SeededInv, Holds, Seeding, Registers, Reads, IsRegister,
       Registering, Goto, Operation, Acceptable
<1>1. CASE UNCHANGED vars
  BY <1>1 DEF vars
<1>2. ASSUME NEW c \in Calls, Call(c) PROVE SeededInv'
  BY <1>2 DEF Call
<1>3. ASSUME NEW c \in Calls, EnterOnce(c) PROVE SeededInv'
  BY <1>3 DEF EnterOnce
<1>4. ASSUME NEW c \in Calls, PassOnce(c) PROVE SeededInv'
  BY <1>4 DEF PassOnce
<1>5. ASSUME NEW c \in Calls, SeedNext(c) PROVE SeededInv'
  BY <1>5 DEF SeedNext
<1>6. ASSUME NEW c \in Calls, LeaveOnce(c) PROVE SeededInv'
  BY <1>6 DEF LeaveOnce
<1>7. ASSUME NEW c \in Calls, Reject(c) PROVE SeededInv'
  BY <1>7 DEF Reject, Return
<1>8. ASSUME NEW c \in Calls, LockToRegister(c) PROVE SeededInv'
  BY <1>8 DEF LockToRegister, Lock
<1>9. ASSUME NEW c \in Calls, Insert(c) PROVE SeededInv'
  BY <1>9 DEF Insert
<1>10. ASSUME NEW c \in Calls, SetDefault(c) PROVE SeededInv'
  BY <1>10 DEF SetDefault, Unlock, Return
<1>11. ASSUME NEW c \in Calls, LockToRead(c) PROVE SeededInv'
  BY <1>11 DEF LockToRead, Lock
<1>12. ASSUME NEW c \in Calls, Resolve(c) PROVE SeededInv'
  BY <1>12 DEF Resolve
<1>13. ASSUME NEW c \in Calls, Find(c) PROVE SeededInv'
  BY <1>13 DEF Find, Unlock, Return
<1>14. ASSUME NEW c \in Calls, Build(c) PROVE SeededInv'
  BY <1>14 DEF Build, Return
<1>15. ASSUME NEW c \in Calls, List(c) PROVE SeededInv'
  BY <1>15 DEF List, Unlock, Return
<1> QED
  BY <1>1, <1>2, <1>3, <1>4, <1>5, <1>6, <1>7, <1>8,
     <1>9, <1>10, <1>11, <1>12, <1>13, <1>14, <1>15 DEF Next, Step

\* Nothing moves between the statements of a lookup: it holds the lock.
LEMMA LookupStep == IInv /\ TypeOK' /\ [Next]_vars => LookupInv'
<1> SUFFICES ASSUME IInv, TypeOK', [Next]_vars PROVE LookupInv'
  OBVIOUS
<1> USE BuiltinsAreAcceptable DEF IInv, TypeOK, SeedingInv, OnceInv, KindInv, MutexInv,
       LookupInv, Holds, Seeding, Registers, Reads, IsRegister, Registering,
       Goto, Operation
<1>1. CASE UNCHANGED vars
  BY <1>1 DEF vars
<1>2. ASSUME NEW c \in Calls, Call(c) PROVE LookupInv'
  BY <1>2 DEF Call
<1>3. ASSUME NEW c \in Calls, EnterOnce(c) PROVE LookupInv'
  BY <1>3 DEF EnterOnce
<1>4. ASSUME NEW c \in Calls, PassOnce(c) PROVE LookupInv'
  BY <1>4 DEF PassOnce
<1>5. ASSUME NEW c \in Calls, SeedNext(c) PROVE LookupInv'
  BY <1>5 DEF SeedNext
<1>6. ASSUME NEW c \in Calls, LeaveOnce(c) PROVE LookupInv'
  BY <1>6 DEF LeaveOnce
<1>7. ASSUME NEW c \in Calls, Reject(c) PROVE LookupInv'
  BY <1>7 DEF Reject, Return
<1>8. ASSUME NEW c \in Calls, LockToRegister(c) PROVE LookupInv'
  BY <1>8 DEF LockToRegister, Lock
<1>9. ASSUME NEW c \in Calls, Insert(c) PROVE LookupInv'
  BY <1>9 DEF Insert
<1>10. ASSUME NEW c \in Calls, SetDefault(c) PROVE LookupInv'
  BY <1>10 DEF SetDefault, Unlock, Return
<1>11. ASSUME NEW c \in Calls, LockToRead(c) PROVE LookupInv'
  BY <1>11 DEF LockToRead, Lock
<1>12. ASSUME NEW c \in Calls, Resolve(c) PROVE LookupInv'
  BY <1>12 DEF Resolve
<1>13. ASSUME NEW c \in Calls, Find(c) PROVE LookupInv'
  BY <1>13 DEF Find, Unlock, Return
<1>14. ASSUME NEW c \in Calls, Build(c) PROVE LookupInv'
  BY <1>14 DEF Build, Return
<1>15. ASSUME NEW c \in Calls, List(c) PROVE LookupInv'
  BY <1>15 DEF List, Unlock, Return
<1> QED
  BY <1>1, <1>2, <1>3, <1>4, <1>5, <1>6, <1>7, <1>8,
     <1>9, <1>10, <1>11, <1>12, <1>13, <1>14, <1>15 DEF Next, Step

----------------------------------------------------------------------------
(* The properties.                                                         *)

\* Every step of every call preserves the whole invariant.
LEMMA IInvStep == IInv /\ [Next]_vars => IInv'
<1> SUFFICES ASSUME IInv, [Next]_vars PROVE IInv'
  OBVIOUS
<1>1. TypeOK'
  BY TypeStep DEF IInv
<1> QED
  BY <1>1, SeedingStep, OnceStep, KindStep, MutexStep, TableStep, SeededStep,
     LookupStep DEF IInv

\* IInv holds in every reachable state, for any number of calls, capabilities
\* and providers.
THEOREM Invariance == Spec => []IInv
BY InitIInv, IInvStep, PTL DEF Spec

\* Every variable keeps its type, for any number of calls and providers.
THEOREM TypeCorrect == Spec => []TypeOK
<1>1. IInv => TypeOK
  BY DEF IInv
<1> QED BY <1>1, Invariance, PTL

\* The default of a registry nobody holds is a registered provider, and there
\* is one as soon as there is a provider (UltraAIRegistry.h:34-35).
THEOREM DefaultRoutesAlways == Spec => []DefaultRoutes
<1>1. IInv => DefaultRoutes
  BY CallAssumption DEF IInv, TypeOK, TableInv, DefaultRoutes, Registered
<1> QED BY <1>1, Invariance, PTL

\* The default only moves to a provider that asked for it.
THEOREM DefaultMovesAlways == Spec => DefaultMovesOnRequest
<1> DEFINE Moves ==
      \A cap \in Caps :
        (defaultName[cap] # NoName /\ defaultName'[cap] # defaultName[cap])
        => \E c \in Calls : /\ pc[c] = "default" /\ IsRegister(c)
                            /\ op[c].makeDefault
                            /\ op[c].name = defaultName'[cap]
<1>1. IInv /\ [Next]_vars => [Moves]_vars
  <2> SUFFICES ASSUME IInv, Next PROVE Moves
    BY DEF vars
  <2>1. PICK c \in Calls : Call(c) \/ Step(c)
    BY DEF Next
  <2>2. CASE SetDefault(c)
    <3>1. /\ pc[c] = "default"
          /\ Registering(c) \in Operation
          /\ ~IsRegister(c) => ~Registering(c).makeDefault
      BY <2>2, RegisteringType DEF SetDefault, IInv, Registers
    <3>2. defaultName' = [defaultName EXCEPT ![Registering(c).cap] =
                NewDefault(Registering(c), defaultName[Registering(c).cap])]
      BY <2>2 DEF SetDefault
    <3>3. CASE IsRegister(c)
      <4>1. Registering(c) = op[c]
        BY <3>3 DEF Registering
      <4> QED BY <3>1, <3>2, <3>3, <4>1 DEF NewDefault, IInv, TypeOK
    <3>4. CASE ~IsRegister(c)
      <4>1. ~Registering(c).makeDefault
        BY <3>1, <3>4
      <4> QED BY <3>1, <3>2, <4>1 DEF NewDefault, IInv, TypeOK
    <3> QED BY <3>3, <3>4
  <2>3. CASE ~SetDefault(c)
    <3>1. UNCHANGED defaultName
      BY <2>1, <2>3 DEF Step, Call, EnterOnce, PassOnce, SeedNext, LeaveOnce,
         Reject, LockToRegister, Insert, LockToRead, Resolve, Find, Build, List
    <3> QED BY <3>1
  <2> QED BY <2>2, <2>3
<1>2. Spec => [][Moves]_vars
  BY <1>1, Invariance, PTL DEF Spec
<1> QED BY <1>2 DEF DefaultMovesOnRequest

----------------------------------------------------------------------------
(* What lookups and listings see.                                          *)

\* After seeding, a builtin id, or the empty id where there is a builtin,
\* leads to a factory.
LEMMA BuiltinFound ==
    ASSUME IInv, NEW c \in Calls, pc[c] = "find",
           BuiltinNames(op[c].cap) # {},
           op[c].name \in BuiltinNames(op[c].cap) \cup {NoName}
    PROVE  factories[op[c].cap][resolved[c]] # NoFactory
<1> DEFINE cap == op[c].cap
<1>1. /\ cap \in Caps
      /\ seeded = Len(Builtins)
      /\ mutex[cap] = c
      /\ resolved[c] = Resolved(op[c], defaultName[cap])
  BY DEF IInv, TypeOK, Operation, OnceInv, Reads, MutexInv, Holds, LookupInv
<1>2. \A n \in BuiltinNames(cap) : n \in Ids /\ factories[cap][n] # NoFactory
  BY <1>1, BuiltinsAreAcceptable DEF BuiltinNames, IInv, SeededInv, Operation
<1>3. CASE op[c].name = NoName
  <2>1. \A e \in Calls : mutex[cap] = e => pc[e] # "default"
    BY <1>1
  <2>2. defaultName[cap] # NoName
    BY <1>1, <1>2, <2>1 DEF IInv, TableInv
  <2> QED BY <1>1, <1>3, <2>2 DEF Resolved, IInv, TableInv
<1>4. CASE op[c].name # NoName
  BY <1>1, <1>2, <1>4 DEF Resolved
<1> QED BY <1>3, <1>4

\* A registered name is one of the names, never the empty one.
LEMMA ListedNames ==
    ASSUME IInv, NEW c \in Calls, pc[c] = "list"
    PROVE  /\ BuiltinNames(op[c].cap) \subseteq Registered(factories[op[c].cap])
           /\ NoName \notin Registered(factories[op[c].cap])
<1> DEFINE cap == op[c].cap
<1>1. cap \in Caps /\ seeded = Len(Builtins)
  BY DEF IInv, TypeOK, Operation, OnceInv, Reads
<1>2. \A n \in BuiltinNames(cap) : n \in Ids /\ factories[cap][n] # NoFactory
  BY <1>1, BuiltinsAreAcceptable DEF BuiltinNames, IInv, SeededInv, Operation
<1> QED BY <1>1, <1>2 DEF Registered, IInv, TableInv

\* An answer, once given, is not changed.
LEMMA AnswersStay ==
    ASSUME IInv, [Next]_vars, NEW c \in Calls, pc[c] = "done"
    PROVE  answer'[c] = answer[c] /\ pc'[c] = "done" /\ op' = op
<1> USE DEF IInv, TypeOK, Goto, Return
<1>1. CASE UNCHANGED vars
  BY <1>1 DEF vars
<1>2. ASSUME NEW d \in Calls, Call(d) \/ Step(d)
      PROVE  answer'[c] = answer[c] /\ pc'[c] = "done" /\ op' = op
  BY <1>2 DEF Step, Call, EnterOnce, PassOnce, SeedNext, LeaveOnce, Reject,
     LockToRegister, Insert, SetDefault, LockToRead, Resolve, Find, Build, List
<1> QED BY <1>1, <1>2 DEF Next

\* A call returns from one of these five statements.
LEMMA Returning ==
    ASSUME IInv, [Next]_vars, NEW c \in Calls, pc[c] # "done", pc'[c] = "done"
    PROVE  /\ op' = op
           /\ IsRegister(c) \/ Find(c) \/ Build(c) \/ List(c)
<1> USE DEF IInv, TypeOK, Goto, Return
<1>1. PICK d \in Calls : Call(d) \/ Step(d)
  BY DEF Next, vars
<1>2. op' = op
  BY <1>1 DEF Step, Call, EnterOnce, PassOnce, SeedNext, LeaveOnce, Reject,
     LockToRegister, Insert, SetDefault, LockToRead, Resolve, Find, Build, List
<1>3. d = c
  BY <1>1 DEF Step, Call, EnterOnce, PassOnce, SeedNext, LeaveOnce, Reject,
     LockToRegister, Insert, SetDefault, LockToRead, Resolve, Find, Build, List
<1>4. CASE Reject(c)
  BY <1>4, RegisteringType DEF Reject, Registers
<1>5. CASE SetDefault(c)
  BY <1>5 DEF SetDefault
<1>6. CASE Call(c) \/ EnterOnce(c) \/ PassOnce(c) \/ SeedNext(c) \/ LeaveOnce(c)
           \/ LockToRegister(c) \/ Insert(c) \/ LockToRead(c) \/ Resolve(c)
  BY <1>6 DEF Call, EnterOnce, PassOnce, SeedNext, LeaveOnce, LockToRegister,
     Insert, LockToRead, Resolve
<1> QED BY <1>1, <1>2, <1>3, <1>4, <1>5, <1>6 DEF Step

\* A Create of a builtin provider, or of the default where there is one, is
\* never answered "provider not registered" (UltraAIRegistry.h:39-57 with the
\* static of BuiltinAdapters.cpp:19).
THEOREM BuiltinsAlwaysReachable == Spec => []BuiltinsReachable
<1>1. Init => BuiltinsReachable
  BY DEF Init, BuiltinsReachable
<1>2. IInv /\ BuiltinsReachable /\ [Next]_vars => BuiltinsReachable'
  <2> SUFFICES ASSUME IInv, BuiltinsReachable, [Next]_vars, NEW c \in Calls,
                      pc'[c] = "done", op'[c].kind = "create",
                      BuiltinNames(op'[c].cap) # {},
                      op'[c].name \in BuiltinNames(op'[c].cap) \cup {NoName}
               PROVE  answer'[c].err # "ProviderUnavailable"
    BY DEF BuiltinsReachable
  <2>1. CASE pc[c] = "done"
    BY <2>1, AnswersStay DEF BuiltinsReachable
  <2>2. CASE pc[c] # "done"
    <3>1. op' = op /\ (Find(c) \/ Build(c) \/ List(c))
      BY <2>2, Returning DEF IsRegister
    <3>2. CASE Find(c)
      <4>1. factories[op[c].cap][resolved[c]] # NoFactory
        BY <3>1, <3>2, BuiltinFound DEF Find
      <4> QED BY <3>2, <4>1 DEF Find, Goto, IInv, TypeOK
    <3>3. CASE Build(c)
      <4>1. factory[c] # NoFactory
        BY <3>3 DEF Build, IInv, LookupInv
      <4> QED
        BY <3>3, <4>1
           DEF Build, Return, BuildAnswer, Answered, Pending, IInv, TypeOK
    <3>4. CASE List(c)
      BY <3>1, <3>4 DEF List, IInv, KindInv
    <3> QED BY <3>1, <3>2, <3>3, <3>4
  <2> QED BY <2>1, <2>2
<1> QED BY <1>1, <1>2, Invariance, PTL DEF Spec

\* A List names every builtin of its capability (UltraAIRegistry.h:68-75).
THEOREM ListsAllBuiltins == Spec => []ListsBuiltins
<1>1. Init => ListsBuiltins
  BY DEF Init, ListsBuiltins
<1>2. IInv /\ ListsBuiltins /\ [Next]_vars => ListsBuiltins'
  <2> SUFFICES ASSUME IInv, ListsBuiltins, [Next]_vars, NEW c \in Calls,
                      pc'[c] = "done", op'[c].kind = "list"
               PROVE  /\ BuiltinNames(op'[c].cap) \subseteq answer'[c].names
                      /\ NoName \notin answer'[c].names
    BY DEF ListsBuiltins
  <2>1. CASE pc[c] = "done"
    BY <2>1, AnswersStay DEF ListsBuiltins
  <2>2. CASE pc[c] # "done"
    <3>1. op' = op /\ (Find(c) \/ Build(c) \/ List(c))
      BY <2>2, Returning DEF IsRegister
    <3>2. List(c)
      BY <3>1 DEF Find, Build, IInv, KindInv
    <3>3. answer'[c].names = Registered(factories[op[c].cap])
      BY <3>2 DEF List, Return, Answered, Pending, IInv, TypeOK
    <3> QED BY <3>1, <3>2, <3>3, ListedNames DEF List
  <2> QED BY <2>1, <2>2
<1> QED BY <1>1, <1>2, Invariance, PTL DEF Spec

----------------------------------------------------------------------------
(***************************************************************************)
(* Registry implements RegistrySpec: a registration takes effect when it   *)
(* inserts, a lookup when it copies the factory, a listing when it copies  *)
(* the names, and every other step of the code is invisible.               *)
(***************************************************************************)

\* The operators both modules take from RegistryTypes are the same.
LEMMA SharedOperators ==
    /\ Abs!Builtins = Builtins
    /\ Abs!Pending = Pending
    /\ Abs!Ids = Ids
    /\ \A o : Abs!Acceptable(o) <=> Acceptable(o)
    /\ \A o, d : Abs!NewDefault(o, d) = NewDefault(o, d)
    /\ \A o, d : Abs!Resolved(o, d) = Resolved(o, d)
    /\ \A e, f : Abs!Answered(e, f) = Answered(e, f)
    /\ \A f : Abs!BuildAnswer(f) = BuildAnswer(f)
    /\ \A t : Abs!Registered(t) = Registered(t)
<1>1. Abs!Builtins = Builtins
  BY DEF Abs!Builtins, Abs!RegisterMockAdapters, Abs!RegisterLocalAdapters,
     Abs!Builtin, Builtins, RegisterMockAdapters, RegisterLocalAdapters, Builtin
<1>2. Abs!Pending = Pending /\ Abs!Ids = Ids
  BY DEF Abs!Pending, Pending, Abs!Ids, Ids
<1>3. /\ \A o : Abs!Acceptable(o) <=> Acceptable(o)
      /\ \A o, d : Abs!NewDefault(o, d) = NewDefault(o, d)
      /\ \A o, d : Abs!Resolved(o, d) = Resolved(o, d)
  BY DEF Abs!Acceptable, Acceptable, Abs!NewDefault, NewDefault, Abs!Resolved,
     Resolved
<1>4. \A e, f : Abs!Answered(e, f) = Answered(e, f)
  BY <1>2 DEF Abs!Answered, Answered
<1>5. \A f : Abs!BuildAnswer(f) = BuildAnswer(f)
  BY <1>4 DEF Abs!BuildAnswer, BuildAnswer
<1>6. \A t : Abs!Registered(t) = Registered(t)
  BY <1>2 DEF Abs!Registered, Registered
<1> QED BY <1>1, <1>2, <1>3, <1>4, <1>5, <1>6

\* The call whose insertion the default still has to follow holds the lock.
LEMMA AbsDefaultOf ==
    ASSUME IInv, NEW cap \in Caps
    PROVE  /\ \A c \in Calls :
                 (pc[c] = "default" /\ Registering(c).cap = cap) =>
                    absDefault[cap] = NewDefault(Registering(c), defaultName[cap])
           /\ (\A c \in Calls :
                 ~(pc[c] = "default" /\ Registering(c).cap = cap)) =>
                    absDefault[cap] = defaultName[cap]
BY CallAssumption DEF absDefault, Inserted, IInv, TypeOK, MutexInv, Holds

\* Steps that neither insert nor set a default leave the registry alone.
LEMMA AbsFrame ==
    ASSUME IInv, IInv', UNCHANGED <<defaultName, seeded, op>>,
           \A d \in Calls : pc'[d] = "default" <=> pc[d] = "default"
    PROVE  UNCHANGED <<absDefault, absSeeded>>
<1>1. \A d \in Calls : Registering(d)' = Registering(d)
  BY DEF Registering, IsRegister
<1>2. ASSUME NEW cap \in Caps PROVE absDefault'[cap] = absDefault[cap]
  <2>1. ASSUME NEW c \in Calls
        PROVE  /\ mutex[cap] = c /\ pc[c] = "default"
                    <=> Registering(c).cap = cap /\ pc[c] = "default"
               /\ mutex'[cap] = c /\ pc'[c] = "default"
                    <=> Registering(c)'.cap = cap /\ pc'[c] = "default"
    BY DEF IInv, MutexInv, Holds
  <2>2. CASE \E c \in Calls : pc[c] = "default" /\ Registering(c).cap = cap
    <3>1. PICK c \in Calls : pc[c] = "default" /\ Registering(c).cap = cap
      BY <2>2
    <3>2. mutex[cap] = c /\ mutex'[cap] = c /\ pc'[c] = "default"
      BY <1>1, <2>1, <3>1
    <3> QED BY <1>1, <3>1, <3>2, CallAssumption DEF absDefault, Inserted
  <2>3. CASE \A c \in Calls : ~(pc[c] = "default" /\ Registering(c).cap = cap)
    <3>1. \A c \in Calls : /\ (mutex[cap] = c => pc[c] # "default")
                         /\ (mutex'[cap] = c => pc'[c] # "default")
      BY <1>1, <2>1, <2>3
    <3>2. /\ ~(mutex[cap] # Nobody /\ Inserted(mutex[cap]))
          /\ ~(mutex[cap] # Nobody /\ Inserted(mutex[cap]))'
      BY <3>1 DEF IInv, TypeOK, Inserted
    <3>3. absDefault[cap] = defaultName[cap]
      BY <3>2 DEF absDefault
    <3>4. absDefault'[cap] = defaultName'[cap]
      BY <3>2 DEF absDefault
    <3> QED BY <3>3, <3>4
  <2> QED BY <2>2, <2>3
<1>3. absDefault' = absDefault
  BY <1>2 DEF absDefault
<1>4. absSeeded' = absSeeded
  BY DEF absSeeded, Inserted, IsRegister
<1> QED BY <1>3, <1>4

\* The initial states of the registry map to those of the atomic one.
LEMMA AbsInit == Init => Abs!Init
<1> SUFFICES ASSUME Init PROVE Abs!Init
  OBVIOUS
<1>1. absDefault = [cap \in Caps |-> NoName]
  BY DEF Init, absDefault
<1>2. absSeeded = 0 /\ absAnswer = [c \in Calls |-> Pending]
      /\ absStatus = [c \in Calls |-> "new"]
  BY DEF Init, absSeeded, absAnswer, absStatus, Inserted
<1> QED BY <1>1, <1>2, SharedOperators DEF Init, Abs!Init

\* These statements change nothing the abstract registry shows.
LEMMA AbsHidden ==
    ASSUME IInv, IInv', NEW c \in Calls,
           \/ EnterOnce(c) \/ PassOnce(c) \/ SeedNext(c) \/ LeaveOnce(c)
           \/ LockToRegister(c) \/ LockToRead(c) \/ Resolve(c)
    PROVE  UNCHANGED Abs!vars
<1> USE DEF EnterOnce, PassOnce, SeedNext, LeaveOnce, LockToRegister,
            LockToRead, Resolve, Goto
<1>1. /\ UNCHANGED <<factories, defaultName, seeded, op, factory, answer>>
      /\ pc \in [Calls -> Labels]
      /\ \A d \in Calls : d # c => pc'[d] = pc[d]
      /\ pc[c] \in {"ensure", "seed", "register", "lock", "resolve"}
      /\ pc'[c] \in {"seed", "register", "insert", "lock", "resolve", "list",
                     "find"}
  BY DEF IInv, TypeOK
<1>2. UNCHANGED <<absDefault, absSeeded>>
  BY <1>1, AbsFrame
<1>3. absStatus' = absStatus
  BY <1>1 DEF absStatus, Inserted, IsRegister
<1>4. absAnswer' = absAnswer
  BY <1>1 DEF absAnswer, Inserted, IsRegister
<1> QED BY <1>1, <1>2, <1>3, <1>4 DEF Abs!vars

\* Entering a call is the abstract Call.
LEMMA AbsCall ==
    ASSUME IInv, IInv', NEW c \in Calls, Call(c)
    PROVE  Abs!Call(c)
<1> USE DEF Call, Goto
<1>1. /\ UNCHANGED <<factories, defaultName, seeded, op, factory, answer>>
      /\ pc[c] = "new" /\ pc'[c] \in {"register", "ensure"}
      /\ \A d \in Calls : d # c => pc'[d] = pc[d]
  BY DEF IInv, TypeOK
<1>2. UNCHANGED <<absDefault, absSeeded>>
  BY <1>1, AbsFrame
<1>3. absStatus' = [absStatus EXCEPT ![c] = "called"]
  BY <1>1 DEF absStatus, Inserted, IsRegister
<1>4. absAnswer' = absAnswer
  BY <1>1 DEF absAnswer, Inserted, IsRegister
<1>5. absStatus[c] = "new"
  BY <1>1 DEF absStatus, Inserted
<1>6. Within[c] # Nobody => absStatus[Within[c]] = "found"
  BY CallAssumption DEF absStatus, Inserted
<1> QED BY <1>1, <1>2, <1>3, <1>4, <1>5, <1>6 DEF Abs!Call

\* A refused registration is the abstract Reject.
LEMMA AbsReject ==
    ASSUME IInv, IInv', NEW c \in Calls, Reject(c)
    PROVE  Abs!Reject(c)
<1> USE DEF Reject, Return, Goto
<1>1. IsRegister(c) /\ ~Acceptable(op[c])
  BY RegisteringType DEF IInv, Registers, Registering
<1>2. /\ UNCHANGED <<factories, defaultName, seeded, op, factory>>
      /\ pc[c] = "register" /\ pc'[c] = "done"
      /\ \A d \in Calls : d # c => pc'[d] = pc[d]
  BY DEF IInv, TypeOK
<1>3. UNCHANGED <<absDefault, absSeeded>>
  BY <1>2, AbsFrame
<1>4. absStatus' = [absStatus EXCEPT ![c] = "done"] /\ absStatus[c] = "called"
  BY <1>2 DEF absStatus, Inserted, IsRegister
<1>5. absAnswer' = [absAnswer EXCEPT ![c] = Answered("Rejected", NoFactory)]
  BY <1>2 DEF absAnswer, Inserted, IsRegister, IInv, TypeOK
<1> QED BY <1>1, <1>2, <1>3, <1>4, <1>5, SharedOperators
        DEF Abs!Reject, Abs!Return, IsRegister

\* The locked lookup of Create is the abstract Find.
LEMMA AbsFind ==
    ASSUME IInv, IInv', NEW c \in Calls, Find(c)
    PROVE  Abs!Find(c)
<1> USE DEF Find, Return, Goto
<1> DEFINE f == factories[op[c].cap][resolved[c]]
<1>1. /\ op[c].cap \in Caps
      /\ op[c].kind = "create"
      /\ seeded = Len(Builtins)
      /\ mutex[op[c].cap] = c
      /\ resolved[c] = Resolved(op[c], defaultName[op[c].cap])
  BY DEF IInv, TypeOK, Operation, OnceInv, Reads, MutexInv, Holds, LookupInv,
         KindInv
<1>2. /\ UNCHANGED <<factories, defaultName, seeded, op>>
      /\ pc[c] = "find" /\ pc'[c] = IF f = NoFactory THEN "done" ELSE "build"
      /\ \A d \in Calls : d # c => pc'[d] = pc[d]
      /\ factory' = [factory EXCEPT ![c] = f]
      /\ answer' = IF f = NoFactory
                   THEN [answer EXCEPT ![c] = BuildAnswer(f)] ELSE answer
  BY DEF IInv, TypeOK
<1> HIDE DEF Find, Return, Goto
<1>3. UNCHANGED <<absDefault, absSeeded>>
  BY <1>2, AbsFrame
<1>4. absDefault[op[c].cap] = defaultName[op[c].cap]
  BY <1>1, <1>2 DEF absDefault, Inserted
<1>5. absSeeded = Len(Builtins)
  <2>1. \A d \in Calls : ~(Inserted(d) /\ ~IsRegister(d))
    BY <1>2 DEF Inserted, IInv, OnceInv, Reads, Seeding, Registers
  <2> QED BY <1>1, <2>1 DEF absSeeded
<1>6. /\ absStatus[c] = "called"
      /\ absStatus' = [absStatus EXCEPT
                         ![c] = IF f = NoFactory THEN "done" ELSE "found"]
  BY <1>2 DEF absStatus, Inserted, IsRegister
<1>7. absAnswer' = IF f = NoFactory
                   THEN [absAnswer EXCEPT ![c] = BuildAnswer(f)] ELSE absAnswer
  BY <1>2 DEF absAnswer, Inserted, IsRegister, IInv, TypeOK
<1>8. f = factories[op[c].cap][Resolved(op[c], absDefault[op[c].cap])]
  BY <1>1, <1>4
<1> HIDE DEF f
<1> QED BY <1>1, <1>2, <1>3, <1>5, <1>6, <1>7, <1>8, SharedOperators
        DEF Abs!Find, Abs!Return

\* The end of the factory is the abstract Build.
LEMMA AbsBuild ==
    ASSUME IInv, IInv', NEW c \in Calls, Build(c)
    PROVE  Abs!Build(c)
<1> USE DEF Build, Return, Goto
<1>1. /\ UNCHANGED <<factories, defaultName, seeded, op, factory>>
      /\ pc[c] = "build" /\ pc'[c] = "done"
      /\ \A d \in Calls : d # c => pc'[d] = pc[d]
      /\ answer' = [answer EXCEPT ![c] = BuildAnswer(factory[c])]
  BY DEF IInv, TypeOK
<1>2. UNCHANGED <<absDefault, absSeeded>>
  BY <1>1, AbsFrame
<1>3. absStatus' = [absStatus EXCEPT ![c] = "done"] /\ absStatus[c] = "found"
  BY <1>1 DEF absStatus, Inserted, IsRegister
<1>4. absAnswer' = [absAnswer EXCEPT ![c] = BuildAnswer(factory[c])]
  BY <1>1 DEF absAnswer, Inserted, IsRegister, IInv, TypeOK
<1>5. \A d \in Calls : Within[d] = c => absStatus[d] \in {"new", "done"}
  BY DEF absStatus
<1> QED BY <1>1, <1>2, <1>3, <1>4, <1>5, SharedOperators
        DEF Abs!Build, Abs!Return

\* The locked listing is the abstract List.
LEMMA AbsList ==
    ASSUME IInv, IInv', NEW c \in Calls, List(c)
    PROVE  Abs!List(c)
<1> USE DEF List, Return, Goto
<1> DEFINE a == [Answered("None", NoFactory) EXCEPT
                    !.names = Registered(factories[op[c].cap])]
<1>1. /\ UNCHANGED <<factories, defaultName, seeded, op, factory>>
      /\ pc[c] = "list" /\ pc'[c] = "done"
      /\ \A d \in Calls : d # c => pc'[d] = pc[d]
      /\ answer' = [answer EXCEPT ![c] = a]
      /\ op[c].kind = "list"
      /\ seeded = Len(Builtins)
  BY DEF IInv, TypeOK, KindInv, OnceInv, Reads
<1>2. UNCHANGED <<absDefault, absSeeded>>
  BY <1>1, AbsFrame
<1>3. absSeeded = Len(Builtins)
  <2>1. \A d \in Calls : ~(Inserted(d) /\ ~IsRegister(d))
    BY <1>1 DEF Inserted, IInv, OnceInv, Reads, Seeding, Registers
  <2> QED BY <1>1, <2>1 DEF absSeeded
<1> HIDE DEF a
<1>4. absStatus' = [absStatus EXCEPT ![c] = "done"] /\ absStatus[c] = "called"
  BY <1>1 DEF absStatus, Inserted, IsRegister
<1>5. absAnswer' = [absAnswer EXCEPT ![c] = a]
  BY <1>1 DEF absAnswer, Inserted, IsRegister, IInv, TypeOK
<1> QED BY <1>1, <1>2, <1>3, <1>4, <1>5, SharedOperators
        DEF Abs!List, Abs!Return, a

\* A registration is visible as soon as it is in the table: the lock keeps
\* every reader out until its default has followed.
LEMMA AbsInsert ==
    ASSUME IInv, IInv', NEW c \in Calls, Insert(c)
    PROVE  Abs!Register(c) \/ Abs!Seed
<1> DEFINE r == Registering(c)
<1>1. /\ r \in Operation /\ Acceptable(r)
      /\ ~IsRegister(c) => r = Builtins[seeded + 1] /\ seeded < Len(Builtins)
      /\ IsRegister(c) => r = op[c]
      /\ mutex[r.cap] = c /\ r.cap \in Caps
  BY RegisteringType
     DEF Insert, IInv, Registers, KindInv, MutexInv, Holds, Registering,
         SeedingInv, Operation
<1>2. /\ UNCHANGED <<defaultName, mutex, seeded, op, factory, answer>>
      /\ factories' = [factories EXCEPT ![r.cap][r.name] = r.factory]
      /\ pc[c] = "insert" /\ pc'[c] = "default"
      /\ \A d \in Calls : d # c => pc'[d] = pc[d]
  BY DEF Insert, Goto, IInv, TypeOK
<1>3. \A d \in Calls : Registering(d)' = Registering(d)
  BY <1>2 DEF Registering, IsRegister
<1>4. absDefault = [cap \in Caps |-> absDefault[cap]]
      /\ absDefault' = [cap \in Caps |-> absDefault'[cap]]
  BY DEF absDefault
<1>5. absDefault[r.cap] = defaultName[r.cap]
  BY <1>1, <1>2 DEF absDefault, Inserted
<1>6. absDefault'[r.cap] = NewDefault(r, defaultName[r.cap])
  BY <1>1, <1>2, <1>3, CallAssumption DEF absDefault, Inserted
<1>7. ASSUME NEW cap \in Caps, cap # r.cap
      PROVE  absDefault'[cap] = absDefault[cap]
  <2>1. mutex[cap] # c
    BY <1>1, <1>2, <1>7 DEF IInv, MutexInv, Holds
  <2>2. CASE mutex[cap] = Nobody
    BY <1>2, <2>2 DEF absDefault, Inserted
  <2>3. CASE mutex[cap] # Nobody
    <3>1. PICK d \in Calls : d = mutex[cap] /\ d # c
      BY <2>1, <2>3 DEF IInv, TypeOK
    <3>3. Registering(d)' = Registering(d)
      BY <1>3, <3>1
    <3>4. absDefault[cap] = IF pc[d] = "default"
                 THEN NewDefault(Registering(d), defaultName[cap])
                 ELSE defaultName[cap]
      BY <2>3, <3>1 DEF absDefault, Inserted
    <3>5. absDefault'[cap] = IF pc'[d] = "default"
                 THEN NewDefault(Registering(d)', defaultName[cap])
                 ELSE defaultName[cap]
      BY <1>2, <2>3, <3>1 DEF absDefault, Inserted
    <3> QED BY <1>2, <3>1, <3>3, <3>4, <3>5
  <2> QED BY <2>2, <2>3
<1> HIDE DEF r
<1>8. absDefault' = [absDefault EXCEPT
                        ![r.cap] = NewDefault(r, absDefault[r.cap])]
  BY <1>1, <1>4, <1>5, <1>6, <1>7
<1>9. CASE IsRegister(c)
  <2>1. absSeeded' = absSeeded
    BY <1>2, <1>9 DEF absSeeded, Inserted, IsRegister
  <2>2. /\ absStatus[c] = "called"
        /\ absStatus' = [absStatus EXCEPT ![c] = "done"]
    BY <1>2, <1>9 DEF absStatus, Inserted, IsRegister
  <2>3. absAnswer' = [absAnswer EXCEPT ![c] = Answered("None", NoFactory)]
    BY <1>2, <1>9 DEF absAnswer, Inserted, IsRegister
  <2> QED BY <1>1, <1>2, <1>8, <1>9, <2>1, <2>2, <2>3, SharedOperators
          DEF Abs!Register, Abs!Put, Abs!Return, IsRegister
<1>10. CASE ~IsRegister(c)
  <2>1. Seeding(c)
    BY <1>2, <1>10 DEF Seeding, Registers
  <2>2. \A d \in Calls : ~(Inserted(d) /\ ~IsRegister(d))
    BY <1>2, <2>1 DEF Inserted, IInv, OnceInv, Seeding, Registers
  <2>3. absSeeded = seeded /\ absSeeded' = seeded + 1
    BY <1>2, <1>10, <2>2 DEF absSeeded, Inserted, IsRegister
  <2>4. absStatus' = absStatus /\ absStatus[c] = "called"
    BY <1>2, <1>10 DEF absStatus, Inserted, IsRegister
  <2>5. absAnswer' = absAnswer
    BY <1>2, <1>10 DEF absAnswer, Inserted, IsRegister
  <2> QED BY <1>1, <1>2, <1>8, <1>10, <2>3, <2>4, <2>5, SharedOperators
          DEF Abs!Seed, Abs!Put, IsRegister
<1> QED BY <1>9, <1>10

\* Setting the default is a stutter: its registration was taken to have
\* happened when it was inserted.
LEMMA AbsSetDefault ==
    ASSUME IInv, IInv', NEW c \in Calls, SetDefault(c)
    PROVE  UNCHANGED Abs!vars
<1> DEFINE r == Registering(c)
<1>1. /\ r.cap \in Caps /\ mutex[r.cap] = c
      /\ \A cap \in Caps : mutex[cap] = c => cap = r.cap
  BY RegisteringType
     DEF SetDefault, IInv, Registers, MutexInv, Holds, Operation
<1>2. /\ UNCHANGED <<factories, op, factory>>
      /\ defaultName' = [defaultName EXCEPT
                            ![r.cap] = NewDefault(r, defaultName[r.cap])]
      /\ mutex' = [mutex EXCEPT ![r.cap] = Nobody]
      /\ pc[c] = "default"
      /\ pc'[c] = IF IsRegister(c) THEN "done" ELSE "seed"
      /\ seeded' = IF IsRegister(c) THEN seeded ELSE seeded + 1
      /\ answer' = IF IsRegister(c)
                   THEN [answer EXCEPT ![c] = Answered("None", NoFactory)]
                   ELSE answer
      /\ \A d \in Calls : d # c => pc'[d] = pc[d]
  BY DEF SetDefault, Goto, Return, Unlock, IInv, TypeOK
<1>3. absDefault[r.cap] = NewDefault(r, defaultName[r.cap])
      /\ absDefault'[r.cap] = defaultName'[r.cap]
  BY <1>1, <1>2, CallAssumption DEF absDefault, Inserted, IInv, TypeOK
<1>4. ASSUME NEW cap \in Caps, cap # r.cap
      PROVE  absDefault'[cap] = absDefault[cap]
  <2>1. /\ mutex[cap] # c /\ mutex'[cap] = mutex[cap]
        /\ defaultName'[cap] = defaultName[cap]
    BY <1>1, <1>2, <1>4 DEF IInv, TypeOK
  <2>2. CASE mutex[cap] = Nobody
    BY <2>1, <2>2 DEF absDefault, Inserted
  <2>3. CASE mutex[cap] # Nobody
    <3>1. PICK d \in Calls : d = mutex[cap] /\ d # c
      BY <2>1, <2>3 DEF IInv, TypeOK
    <3>2. absDefault[cap] = IF pc[d] = "default"
                 THEN NewDefault(Registering(d), defaultName[cap])
                 ELSE defaultName[cap]
      BY <2>3, <3>1 DEF absDefault, Inserted
    <3>3. absDefault'[cap] = IF pc'[d] = "default"
                 THEN NewDefault(Registering(d)', defaultName[cap])
                 ELSE defaultName[cap]
      BY <2>1, <2>3, <3>1 DEF absDefault, Inserted
    <3>4. CASE pc[d] = "default"
      <4>1. Registering(d)' = Registering(d)
        BY <3>1, <3>4, RegisteringStable DEF Registers
      <4> QED BY <1>2, <3>1, <3>2, <3>3, <4>1
    <3>5. CASE pc[d] # "default"
      BY <1>2, <3>1, <3>2, <3>3, <3>5
    <3> QED BY <3>4, <3>5
  <2> QED BY <2>2, <2>3
<1>5. absDefault' = absDefault
  <2>1. \A cap \in Caps : absDefault'[cap] = absDefault[cap]
    BY <1>2, <1>3, <1>4 DEF IInv, TypeOK
  <2> QED BY <2>1 DEF absDefault
<1>6. absSeeded' = absSeeded
  <2>1. CASE IsRegister(c)
    BY <1>2, <2>1 DEF absSeeded, Inserted, IsRegister
  <2>2. CASE ~IsRegister(c)
    <3>1. absSeeded = seeded + 1
      BY <1>2, <2>2 DEF absSeeded, Inserted
    <3>2. \A d \in Calls : ~(Inserted(d) /\ ~IsRegister(d))'
      BY <1>2, <2>2
         DEF Inserted, IInv, OnceInv, Seeding, Registers, IsRegister
    <3> QED BY <1>2, <2>2, <3>1, <3>2 DEF absSeeded
  <2> QED BY <2>1, <2>2
<1>7. absStatus' = absStatus
  BY <1>2 DEF absStatus, Inserted, IsRegister
<1>8. absAnswer' = absAnswer
  BY <1>2 DEF absAnswer, Inserted, IsRegister, IInv, TypeOK
<1> QED BY <1>2, <1>5, <1>6, <1>7, <1>8 DEF Abs!vars

\* Every call takes effect at one instant, with every builtin in place before
\* the first lookup: the registry implements the atomic one.
THEOREM Refinement == Spec => ImplementsRegistrySpec
<1>1. ASSUME IInv, IInv', [Next]_vars
      PROVE  [Abs!Next]_(Abs!vars)
  <2>1. CASE UNCHANGED vars
    BY <2>1 DEF vars, Abs!vars, absDefault, absSeeded, absStatus, absAnswer,
                Inserted, Registering, IsRegister
  <2>2. ASSUME NEW c \in Calls, Call(c) \/ Step(c)
        PROVE  [Abs!Next]_(Abs!vars)
    BY <1>1, <2>2, AbsHidden, AbsCall, AbsReject, AbsInsert, AbsSetDefault,
       AbsFind, AbsBuild, AbsList DEF Step, Abs!Next
  <2> QED BY <1>1, <2>1, <2>2 DEF Next
<1> QED BY <1>1, AbsInit, Invariance, PTL
        DEF Spec, ImplementsRegistrySpec, Abs!Spec

=============================================================================
