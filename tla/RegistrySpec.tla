---------------------------- MODULE RegistrySpec ----------------------------
(***************************************************************************)
(* What the provider registry promises: every registration, lookup and     *)
(* listing takes effect at one instant between its call and its return,    *)
(* and lookups and listings see every builtin provider.                    *)
(***************************************************************************)
EXTENDS RegistryTypes

VARIABLES
    table,    \* table[cap][name]: the registered factory or NoFactory
    default,  \* default[cap]: the provider an empty id stands for
    seeded,   \* how many builtin registrations have been made
    status,   \* status[c]: "new", "called", "found" or "done"
    op,       \* op[c]: what call c asks for
    found,    \* found[c]: the factory a Create will run
    answer    \* answer[c]: what the call returned

vars == <<table, default, seeded, status, op, found, answer>>

Init ==
    /\ table = [cap \in Caps |-> [n \in Ids |-> NoFactory]]
    /\ default = [cap \in Caps |-> NoName]
    /\ seeded = 0
    /\ status = [c \in Calls |-> "new"]
    /\ op \in [Calls -> AppOps]
    /\ found = [c \in Calls |-> NoFactory]
    /\ answer = [c \in Calls |-> Pending]

Put(o) ==
    /\ table' = [table EXCEPT ![o.cap][o.name] = o.factory]
    /\ default' = [default EXCEPT ![o.cap] = NewDefault(o, @)]

Return(c, a) ==
    /\ status' = [status EXCEPT ![c] = "done"]
    /\ answer' = [answer EXCEPT ![c] = a]

\* A call begins; one made by a factory begins while that factory runs.
Call(c) ==
    /\ status[c] = "new"
    /\ Within[c] # Nobody => status[Within[c]] = "found"
    /\ status' = [status EXCEPT ![c] = "called"]
    /\ UNCHANGED <<table, default, seeded, op, found, answer>>

Seed ==
    /\ seeded < Len(Builtins)
    /\ \E c \in Calls : status[c] = "called" /\ op[c].kind # "register"
    /\ Put(Builtins[seeded + 1])
    /\ seeded' = seeded + 1
    /\ UNCHANGED <<status, op, found, answer>>

Register(c) ==
    /\ status[c] = "called" /\ op[c].kind = "register" /\ Acceptable(op[c])
    /\ Put(op[c])
    /\ Return(c, Answered("None", NoFactory))
    /\ UNCHANGED <<seeded, op, found>>

Reject(c) ==
    /\ status[c] = "called" /\ op[c].kind = "register" /\ ~Acceptable(op[c])
    /\ Return(c, Answered("Rejected", NoFactory))
    /\ UNCHANGED <<table, default, seeded, op, found>>

\* The lookup of Create: the factory is read in one instant, after seeding.
Find(c) ==
    /\ status[c] = "called" /\ op[c].kind = "create"
    /\ seeded = Len(Builtins)
    /\ LET o == op[c]
           f == table[o.cap][Resolved(o, default[o.cap])]
       IN  /\ found' = [found EXCEPT ![c] = f]
           /\ IF f = NoFactory
              THEN Return(c, BuildAnswer(f))
              ELSE /\ status' = [status EXCEPT ![c] = "found"]
                   /\ UNCHANGED answer
    /\ UNCHANGED <<table, default, seeded, op>>

Build(c) ==
    /\ status[c] = "found"
    /\ \A d \in Calls : Within[d] = c => status[d] \in {"new", "done"}
    /\ Return(c, BuildAnswer(found[c]))
    /\ UNCHANGED <<table, default, seeded, op, found>>

List(c) ==
    /\ status[c] = "called" /\ op[c].kind = "list"
    /\ seeded = Len(Builtins)
    /\ Return(c, [Answered("None", NoFactory) EXCEPT
                    !.names = Registered(table[op[c].cap])])
    /\ UNCHANGED <<table, default, seeded, op, found>>

Next ==
    \/ Seed
    \/ \E c \in Calls : \/ Call(c) \/ Register(c) \/ Reject(c)
                        \/ Find(c) \/ Build(c) \/ List(c)

Spec == Init /\ [][Next]_vars
=============================================================================
