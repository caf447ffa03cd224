------------------------------- MODULE MCFiling -------------------------------
(* A group of two and a direct chat: a message that answers a join event of   *)
(* both and is answered itself; two calls of one round, a deletion command   *)
(* and a plain message on their way in, and ann's erasure.                    *)
EXTENDS Filing

SomePeople   == {"ann", "bob"}
SomeMessages == {"m1", "m2", "dm"}
SomeJoins    == {"j"}
SomeCalls    == {"a", "b"}
SomeIngestions == {"in"}
SomeErased   == {"ann"}
Authors   == [m \in SomeMessages |-> IF m = "m2" THEN "bob" ELSE "ann"]
Announced == [j \in SomeJoins |-> SomePeople]
Replies   == [m \in SomeMessages |-> CASE m = "m2" -> "m1" [] m = "m1" -> "j" [] OTHER -> None]

Scene(tools, names, deleted) ==
    [tool    |-> [c \in SomeCalls |-> tools[IF c = "a" THEN 1 ELSE 2]],
     names   |-> [c \in SomeCalls |-> names[IF c = "a" THEN 1 ELSE 2]],
     deletes |-> [d \in SomeIngestions |-> deleted]]

(* Calls that meet on one message, with it or its answer deleted meanwhile,   *)
(* on one join event, and in the direct chat.                                 *)
SomeScenes ==
    {Scene(<<"react", "report">>, <<"m1", "m1">>, "m1"),
     Scene(<<"react", "react">>, <<"m1", "m1">>, "m2"),
     Scene(<<"report", "report">>, <<"m1", "m1">>, None),
     Scene(<<"report", "report">>, <<"j", "j">>, "j"),
     Scene(<<"react", "react">>, <<"dm", "dm">>, None)}
===============================================================================
