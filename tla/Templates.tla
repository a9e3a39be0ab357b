----------------------------- MODULE Templates -----------------------------
(***************************************************************************)
(* Operations of discovery actions (src/zabbix_server/operations.c): a     *)
(* discovered host is added, deleted, linked with templates and unlinked   *)
(* from them.  libs/zbxdbhigh/host.c copies the applications, items and    *)
(* triggers of a template to the host and marks each copy with the id of   *)
(* its original; an element that the host has already is made the copy.    *)
(*                                                                         *)
(* Each operation is one transaction.  A discovered host is no template,   *)
(* so what host.c does below the host, for the hosts linked to it, comes   *)
(* to nothing.  Graphs, services and maps are left out.                    *)
(***************************************************************************)
EXTENDS Integers, SequencesExt

CONSTANTS
    Templates,          \* hostids of the templates
    TemplateApps, TemplateItems, TemplateTriggers,  \* their elements, by id
    Ips,                \* of the devices that are discovered
    Keys,               \* item keys that users add to a host themselves
    Deleted,            \* in the place of the ip of a deleted host
    MaxHosts, MaxEdits  \* bounds

VARIABLES
    hosts,              \* ip of each discovered host, Deleted once it is deleted
    links,              \* hosts_templates
    elements,           \* the tables applications, items (with items_applications)
                        \* and triggers (with functions and trigger_depends)
    edits

templateVars == <<hosts, links, elements, edits>>

LastHostId == Max(Templates) + MaxHosts
HostIds == Max(Templates) + 1 .. LastHostId

(* The rows of the tables.  Ids are not 0, and those of elements are no    *)
(* hostids.                                                                *)
ElementIds == {id \in Nat : id > LastHostId}
AppNames == {TemplateApps[a].name : a \in DOMAIN TemplateApps}
ItemKeys == Keys \cup {TemplateItems[i].key : i \in DOMAIN TemplateItems}
FunctionNames ==
    {"last"} \cup {f.function : f \in UNION {TemplateTriggers[t].functions : t \in DOMAIN TemplateTriggers}}

AppRow == [hostid : Nat, name : AppNames, templateid : Nat]
ItemRow == [hostid : Nat, key : ItemKeys, apps : SUBSET Nat, templateid : Nat]
TriggerRow == [templateid : Nat, deps : SUBSET Nat, priority : Nat, status : Nat,
               functions : SUBSET [itemid : Nat, function : FunctionNames]]

ASSUME TemplatesAssumption ==
    /\ Templates \in SUBSET (Nat \ {0}) /\ Templates # {} /\ IsFiniteSet(Templates)
    /\ MaxHosts \in Nat
    /\ TemplateApps \in [DOMAIN TemplateApps -> AppRow]
    /\ TemplateItems \in [DOMAIN TemplateItems -> ItemRow]
    /\ TemplateTriggers \in [DOMAIN TemplateTriggers -> TriggerRow]
    /\ \A ids \in {DOMAIN TemplateApps, DOMAIN TemplateItems, DOMAIN TemplateTriggers} :
          IsFiniteSet(ids) /\ ids \subseteq ElementIds
    /\ \A i \in DOMAIN TemplateItems :
          TemplateItems[i].hostid \in Templates /\ TemplateItems[i].templateid = 0
    /\ \A i, j \in DOMAIN TemplateItems :
          TemplateItems[i].hostid = TemplateItems[j].hostid /\ TemplateItems[i].key = TemplateItems[j].key => i = j
    /\ \A t \in DOMAIN TemplateTriggers :
          /\ TemplateTriggers[t].functions # {}
          /\ \E hostid \in Templates : \A f \in TemplateTriggers[t].functions :
                f.itemid \in DOMAIN TemplateItems /\ TemplateItems[f.itemid].hostid = hostid

(* Ids are drawn as in MaxId; for elements any unused one that is no       *)
(* hostid stands for it, a hostid is never used again.                     *)
Fresh(used) ==
    CHOOSE id \in LastHostId + 1 .. Max(used \cup {LastHostId}) + 1 : id \notin used
InsertRow(rows, row) == [id \in DOMAIN rows \cup {Fresh(DOMAIN rows)} |->
                            IF id \in DOMAIN rows THEN rows[id] ELSE row]
Without(rows, ids) == Restrict(rows, DOMAIN rows \ ids)

Of(rows, hostid) == {id \in DOMAIN rows : rows[id].hostid = hostid}

TriggersWith(db, itemids) ==
    {t \in DOMAIN db.triggers : \E f \in db.triggers[t].functions : f.itemid \in itemids}

TriggersOf(db, hostid) == TriggersWith(db, Of(db.items, hostid))

TemplatesInit ==
    /\ hosts = [h \in {} |-> Deleted]
    /\ links = {}
    /\ elements = [apps |-> TemplateApps, items |-> TemplateItems, triggers |-> TemplateTriggers]
    /\ edits = 0

-----------------------------------------------------------------------------
(* Deleting.                                                               *)
DBdelete_trigger(db, triggerids) ==
    [db EXCEPT !.triggers = [t \in DOMAIN db.triggers \ triggerids |->
                                [db.triggers[t] EXCEPT !.deps = @ \ triggerids]]]

(* The triggers that have more than one row of functions of an item.       *)
TwiceWith(db, itemid) ==
    {t \in TriggersWith(db, {itemid}) : \E f, g \in db.triggers[t].functions :
                                          f # g /\ f.itemid = itemid /\ g.itemid = itemid}

(* Mutant: the triggers of a deleted item stay.                            *)
DBdelete_triggers_by_itemidNone(db, itemid) == {db}

(* What may be left.  At the second row of a trigger the trigger is gone:  *)
(* its deletion fails, and so does the rest, whichever rows came before.   *)
DBdelete_triggers_by_itemid(db, itemid) ==
    LET with == TriggersWith(db, {itemid})
        twice == TwiceWith(db, itemid)
        gone == IF twice = {} THEN {with} ELSE {g \in SUBSET with : g \cap twice # {}}
    IN  {DBdelete_trigger(db, g) : g \in gone}

(* The item stays when that has failed.                                    *)
DBdelete_item(db, itemid) ==
    {IF TwiceWith(db, itemid) # {} THEN d ELSE [d EXCEPT !.items = Without(@, {itemid})] :
        d \in DBdelete_triggers_by_itemid(db, itemid)}

(* The callers go through the items in the order of a select, and on when  *)
(* one fails.                                                              *)
DBdelete_item_any(dbs, itemid) == UNION {DBdelete_item(d, itemid) : d \in dbs}

DBdelete_items(db, itemids) ==
    UNION {FoldLeft(DBdelete_item_any, {db}, order) : order \in SetToSeqs(itemids)}

DBdelete_application(db, appids) ==
    [db EXCEPT !.apps = Without(@, appids),
               !.items = [i \in DOMAIN db.items |-> [db.items[i] EXCEPT !.apps = @ \ appids]]]

DBdelete_template_triggers(db, hostid, templateid) ==
    DBdelete_trigger(db, {t \in TriggersOf(db, hostid) :
                            db.triggers[t].templateid \in TriggersOf(db, templateid)})

(* The template's item is looked for among the hosts: "select itemid,...   *)
(* from items where hostid=" the templateid of the item, and the itemid it *)
(* finds there is compared with the template.                              *)
DBdelete_template_items(db, hostid, templateid) ==
    DBdelete_items(db, {i \in Of(db.items, hostid) :
                          templateid \in Of(db.items, db.items[i].templateid)})

DBdelete_template_applications(db, hostid, templateid) ==
    DBdelete_application(db, {a \in Of(db.apps, hostid) :
                                db.apps[a].templateid \in Of(db.apps, templateid)})

DBdelete_template_elements(db, hostid, templateid) ==
    LET db1 == DBdelete_template_triggers(db, hostid, templateid)
    IN  {DBdelete_template_applications(db2, hostid, templateid) :
            db2 \in DBdelete_template_items(db1, hostid, templateid)}

-----------------------------------------------------------------------------
(* Copying.                                                                *)
DBadd_application(db, name, hostid, templateid) ==
    LET same == {a \in Of(db.apps, hostid) : db.apps[a].name = name}
    IN  IF same = {}
        THEN [db EXCEPT !.apps = InsertRow(@, [hostid |-> hostid, name |-> name, templateid |-> templateid])]
        ELSE [db EXCEPT !.apps = [a \in DOMAIN @ |->
                 IF a \in same THEN [@[a] EXCEPT !.templateid = templateid] ELSE @[a]]]

DBcopy_template_applications(db, hostid, templateid) ==
    FoldSet(LAMBDA a, d : DBadd_application(d, db.apps[a].name, hostid, a), db, Of(db.apps, templateid))

DBget_same_applications_for_host(db, appids, hostid) ==
    {a \in Of(db.apps, hostid) : \E b \in appids : db.apps[a].name = db.apps[b].name}

(* Mutant: an item with the same key is no reason not to add one.          *)
SameKeyNone(db, key, hostid) == {}

SameKey(db, key, hostid) == {i \in Of(db.items, hostid) : db.items[i].key = key}

(* DBadd_item, and DBupdate_item for an item with the same key.            *)
DBadd_item(db, key, hostid, appids, templateid) ==
    LET same == SameKey(db, key, hostid)
    IN  IF same = {}
        THEN [db EXCEPT !.items = InsertRow(@, [hostid |-> hostid, key |-> key, apps |-> appids,
                                             templateid |-> templateid])]
        ELSE [db EXCEPT !.items = [i \in DOMAIN @ |->
                 IF i \in same THEN [@[i] EXCEPT !.apps = appids, !.templateid = templateid] ELSE @[i]]]

DBcopy_template_items(db, hostid, templateid) ==
    FoldSet(LAMBDA i, d : DBadd_item(d, db.items[i].key, hostid,
                              DBget_same_applications_for_host(d, db.items[i].apps, hostid), i),
            db, Of(db.items, templateid))

DBreplace_template_dependences(db, triggerids, hostid) ==
    {t \in TriggersOf(db, hostid) : db.triggers[t].templateid \in triggerids}

(* What an expression compares, with keys in the place of items.           *)
Expression(db, t) ==
    {[key |-> db.items[f.itemid].key, function |-> f.function] : f \in db.triggers[t].functions}

(* Mutant: a trigger that is a copy of another one is taken, too.          *)
CandidatesLinked(db, hostid) == TriggersOf(db, hostid)

Candidates(db, hostid) == {t \in TriggersOf(db, hostid) : db.triggers[t].templateid = 0}

(* DBcopy_trigger_to_host: the first trigger of the host's own with the    *)
(* same expression becomes the copy (DBupdate_trigger with -1 for the      *)
(* status, which makes its old status its priority), else one is added.    *)
DBcopy_trigger_to_host(db, t, hostid) ==
    LET trigger == db.triggers[t]
        deps == DBreplace_template_dependences(db, trigger.deps, hostid)
        same == {s \in Candidates(db, hostid) : Expression(db, s) = Expression(db, t)}
        first == Min(same)
        MyItem(i) == CHOOSE j \in Of(db.items, hostid) : db.items[j].key = db.items[i].key
    IN  IF same # {}
        THEN [db EXCEPT !.triggers[first] =
                [@ EXCEPT !.templateid = t, !.deps = deps, !.priority = db.triggers[first].status]]
        ELSE [db EXCEPT !.triggers = InsertRow(@,
                [templateid |-> t, deps |-> deps, priority |-> trigger.priority, status |-> trigger.status,
                 functions |-> {[f EXCEPT !.itemid = MyItem(f.itemid)] : f \in trigger.functions}])]

(* In the order in which the select returns them.                          *)
DBcopy_template_triggers(db, hostid, order) ==
    FoldLeft(LAMBDA d, t : DBcopy_trigger_to_host(d, t, hostid), db, order)

DBcopy_template_elements(db, hostid, templateid, order) ==
    LET db1 == DBcopy_template_applications(db, hostid, templateid)
        db2 == DBcopy_template_items(db1, hostid, templateid)
    IN  DBcopy_template_triggers(db2, hostid, order)

DBsync_host_with_template(db, hostid, templateid, order) ==
    {DBcopy_template_elements(d, hostid, templateid, order) :
        d \in DBdelete_template_elements(db, hostid, templateid)}

-----------------------------------------------------------------------------
(* Operations.                                                             *)
HostWith(ip) == {h \in DOMAIN hosts : hosts[h] = ip}

(* add_discovered_host: the host with this ip, or a new one.               *)
add_discovered_host(ip) ==
    IF HostWith(ip) # {} THEN Min(HostWith(ip)) ELSE Max(Templates \cup DOMAIN hosts) + 1

HostsWith(hostid, ip) == [h \in DOMAIN hosts \cup {hostid} |-> IF h = hostid THEN ip ELSE hosts[h]]

op_host_add(ip) ==
    /\ HostWith(ip) = {}
    /\ add_discovered_host(ip) \in HostIds
    /\ hosts' = HostsWith(add_discovered_host(ip), ip)
    /\ UNCHANGED <<links, elements, edits>>

op_template_add(ip, templateid) ==
    LET hostid == add_discovered_host(ip) IN
    /\ hostid \in HostIds
    /\ <<hostid, templateid>> \notin links
    /\ hosts' = HostsWith(hostid, ip)
    /\ links' = links \cup {<<hostid, templateid>>}
    /\ \E order \in SetToSeqs(TriggersOf(elements, templateid)) :
          elements' \in DBsync_host_with_template(elements, hostid, templateid, order)
    /\ UNCHANGED edits

op_template_del(ip, templateid) ==
    \E hostid \in HostWith(ip) :
        /\ <<hostid, templateid>> \in links
        /\ links' = links \ {<<hostid, templateid>>}
        /\ elements' \in DBdelete_template_elements(elements, hostid, templateid)
        /\ UNCHANGED <<hosts, edits>>

(* DBdelete_host; the applications of the host stay, and the items that    *)
(* could not be deleted.                                                   *)
op_host_del(ip) ==
    \E hostid \in HostWith(ip) :
        /\ elements' \in DBdelete_items(elements, Of(elements.items, hostid))
        /\ links' = {l \in links : l[1] # hostid}
        /\ hosts' = [hosts EXCEPT ![hostid] = Deleted]
        /\ UNCHANGED edits

-----------------------------------------------------------------------------
(* What users do to the host in the web frontend.                          *)
AddItem(hostid, key) ==
    /\ edits < MaxEdits
    /\ SameKey(elements, key, hostid) = {}
    /\ elements' = [elements EXCEPT !.items =
                       InsertRow(@, [hostid |-> hostid, key |-> key, apps |-> {}, templateid |-> 0])]
    /\ edits' = edits + 1
    /\ UNCHANGED <<hosts, links>>

AddTrigger(itemid) ==
    /\ edits < MaxEdits
    /\ elements' = [elements EXCEPT !.triggers =
                       InsertRow(@, [templateid |-> 0, deps |-> {}, priority |-> 1, status |-> 0,
                                  functions |-> {[itemid |-> itemid, function |-> "last"]}])]
    /\ edits' = edits + 1
    /\ UNCHANGED <<hosts, links>>

TemplatesNext ==
    \/ \E ip \in Ips : op_host_add(ip) \/ op_host_del(ip)
    \/ \E ip \in Ips, t \in Templates : op_template_add(ip, t) \/ op_template_del(ip, t)
    \/ \E hostid \in DOMAIN hosts :
          /\ hosts[hostid] # Deleted
          /\ \/ \E key \in Keys : AddItem(hostid, key)
             \/ \E itemid \in Of(elements.items, hostid) : AddTrigger(itemid)

TemplatesSpec == TemplatesInit /\ [][TemplatesNext]_templateVars
-----------------------------------------------------------------------------
(* Properties.                                                             *)

(* The key of an item is unique on its host, also when two templates, or a *)
(* template and a user, have brought it.                                   *)
KeysUnique ==
    \A i, j \in DOMAIN elements.items :
        elements.items[i].hostid = elements.items[j].hostid /\ elements.items[i].key = elements.items[j].key
            => i = j

(* No trigger is left with a function of an item that is gone, and none of *)
(* a host with the item of another host or of a template.                  *)
TriggersInOneHost ==
    \A t \in DOMAIN elements.triggers : \E hostid \in Templates \cup DOMAIN hosts :
        \A f \in elements.triggers[t].functions : f.itemid \in Of(elements.items, hostid)

(* A host has an item with each key of each template it is linked with and *)
(* one copy of each trigger, whatever it was linked with or unlinked from  *)
(* in between.                                                             *)
LinkedComplete ==
    \A l \in links :
        /\ \A i \in Of(elements.items, l[2]) : SameKey(elements, elements.items[i].key, l[1]) # {}
        /\ \A t \in TriggersOf(elements, l[2]) :
              \E s \in TriggersOf(elements, l[1]) :
                 /\ elements.triggers[s].templateid = t
                 /\ Expression(elements, s) = Expression(elements, t)

(* operations.c: "unlink and clear host from template".  Nothing that the  *)
(* host has from a template stays when it is unlinked.                     *)
UnlinkedCleared ==
    \A i \in DOMAIN elements.items, l \in (DOMAIN hosts) \X Templates :
        elements.items[i].hostid = l[1] /\ elements.items[i].templateid \in Of(elements.items, l[2])
            => l \in links
=============================================================================
