--------------------------- MODULE RegistryTypes ---------------------------
(***************************************************************************)
(* What the provider registry and its abstract specification share: the    *)
(* calls an application makes, the provider names and factories, and the   *)
(* registrations the compiled-in adapters contribute.                      *)
(***************************************************************************)
EXTENDS Naturals, Sequences

CONSTANTS
    Calls,          \* the calls into the library, each made by some thread
    Nobody,         \* no call
    Within,         \* Within[c]: the call whose factory makes c, or Nobody
    Caps,           \* the capabilities: one Registry<...> singleton each
    Names,          \* the non-empty provider names
    NoName,         \* the empty string
    Factories,      \* the provider factories
    NoFactory,      \* the empty std::function
    NullFactories,  \* the factories that return a null instance
    AppOps,         \* what an application may ask for
    MockCaps,       \* capabilities RegisterMockAdapters registers, in order
    LocalCaps,      \* capabilities RegisterLocalAdapters registers, in order
    Mock, Local,                \* the two builtin provider names
    MockFactory, LocalFactory   \* and their factories

Ids == Names \cup {NoName}
FactoryOrNone == Factories \cup {NoFactory}

\* A call of Register<Cap>Provider, Create<Cap> or List<Cap>Providers.
Operation == [kind : {"register", "create", "list"}, cap : Caps, name : Ids,
              factory : FactoryOrNone, makeDefault : BOOLEAN]

Answer == [err : {"Pending", "None", "Rejected", "ProviderUnavailable",
                  "Internal"},
           by : FactoryOrNone, names : SUBSET Ids]

Pending == [err |-> "Pending", by |-> NoFactory, names |-> {}]
Answered(err, by) == [Pending EXCEPT !.err = err, !.by = by]

ASSUME CallAssumption ==
    /\ Nobody \notin Calls
    /\ Within \in [Calls -> Calls \cup {Nobody}]
    /\ AppOps \subseteq Operation

ASSUME NameAssumption ==
    /\ NoName \notin Names
    /\ NoFactory \notin Factories
    /\ NullFactories \subseteq Factories \ {MockFactory, LocalFactory}
    /\ Mock \in Names /\ Local \in Names
    /\ MockFactory \in Factories /\ LocalFactory \in Factories
    /\ MockCaps \in Seq(Caps) /\ LocalCaps \in Seq(Caps)

----------------------------------------------------------------------------

Builtin(cap, name, factory) ==
    [kind |-> "register", cap |-> cap, name |-> name, factory |-> factory,
     makeDefault |-> FALSE]

RegisterMockAdapters ==
    [i \in 1..Len(MockCaps) |-> Builtin(MockCaps[i], Mock, MockFactory)]

RegisterLocalAdapters ==
    [i \in 1..Len(LocalCaps) |-> Builtin(LocalCaps[i], Local, LocalFactory)]

\* The registrations EnsureBuiltinAdapters makes, in its order: mock first.
Builtins == RegisterMockAdapters \o RegisterLocalAdapters

BuiltinNames(cap) ==
    {Builtins[i].name : i \in {j \in 1..Len(Builtins) : Builtins[j].cap = cap}}

\* Register's check of its arguments, made before it takes the lock.
Acceptable(o) == o.name # NoName /\ o.factory # NoFactory

\* Mutants of NewDefault: a first provider is not taken, any provider is.
NewDefaultOnRequest(o, current) == IF o.makeDefault THEN o.name ELSE current
NewDefaultLatest(o, current) == o.name

\* The default after registration o: taken on request or when there is none.
NewDefault(o, current) ==
    IF o.makeDefault \/ current = NoName THEN o.name ELSE current

\* The provider a Create names: the default when the id is empty.
Resolved(o, default) == IF o.name = NoName THEN default ELSE o.name

\* What Create returns once the factory it copied has run, or was not found.
BuildAnswer(f) ==
    CASE f = NoFactory -> Answered("ProviderUnavailable", NoFactory)
      [] f \in NullFactories -> Answered("Internal", NoFactory)
      [] OTHER -> Answered("None", f)

Registered(table) == {n \in Ids : table[n] # NoFactory}
=============================================================================
