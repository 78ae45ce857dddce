----------------------------- MODULE MCRegistry -----------------------------
(***************************************************************************)
(* Instances of Registry for TLC: two capabilities, of which the second    *)
(* has no local provider (as VideoGen and MusicGen have none), and three   *)
(* calls: two made by threads of their own and one by the factory the first*)
(* of them runs.                                                           *)
(***************************************************************************)
EXTENDS Registry

CONSTANTS c1, c2, c3, text, video, app, appFactory, nullFactory

MCCalls == {c1, c2, c3}
MCWithin == [c \in MCCalls |-> IF c = c3 THEN c1 ELSE Nobody]
MCCaps == {text, video}
MCNames == {Mock, Local, app}
MCFactories == {MockFactory, LocalFactory, appFactory, nullFactory}
MCNullFactories == {nullFactory}
MCMockCaps == <<text, video>>
MCLocalCaps == <<text>>

Ask(kind, cap, name, f, makeDefault) ==
    [kind |-> kind, cap |-> cap, name |-> name, factory |-> f,
     makeDefault |-> makeDefault]

Create(cap, name) == Ask("create", cap, name, NoFactory, FALSE)

MCAppOps ==
    {Ask("register", text, app, appFactory, FALSE),
     Ask("register", video, Mock, nullFactory, FALSE),
     Ask("register", text, NoName, appFactory, FALSE),
     Create(text, NoName), Create(text, app), Create(video, Mock),
     Ask("list", text, NoName, NoFactory, FALSE),
     Ask("register", text, app, nullFactory, TRUE),
     Ask("register", text, app, NoFactory, TRUE),
     Create(video, Local)}
=============================================================================
