---------------------------- MODULE TemplateData ----------------------------
(* Two templates that share a key, an application name and an expression;  *)
(* a trigger of the first depends on another one, which has two functions  *)
(* of one of its items.                                                    *)
EXTENDS TLC

App(hostid, name) == [hostid |-> hostid, name |-> name, templateid |-> 0]
Item(hostid, key, apps) == [hostid |-> hostid, key |-> key, apps |-> apps, templateid |-> 0]
Trigger(functions, deps, priority) ==
    [templateid |-> 0, deps |-> deps, priority |-> priority, status |-> 0, functions |-> functions]
On(itemid, function) == [itemid |-> itemid, function |-> function]

TwoApps == 101 :> App(1, "os") @@ 102 :> App(2, "os")

ThreeItems == 101 :> Item(1, "load", {101}) @@ 102 :> Item(1, "mem", {}) @@ 103 :> Item(2, "load", {102})

ThreeTriggers ==
    101 :> Trigger({On(101, "last")}, {102}, 2) @@
    102 :> Trigger({On(101, "max"), On(101, "min"), On(102, "last")}, {}, 3) @@
    103 :> Trigger({On(103, "last")}, {}, 4)
=============================================================================
