----------------------------- MODULE Discovery -----------------------------
(***************************************************************************)
(* Network discovery of one address: a discoverer                          *)
(* (src/zabbix_server/discoverer/discoverer.c) tries the services of a     *)
(* rule one after the other, keeps the tables dhosts and dservices and     *)
(* makes events.  On a proxy it writes rows of proxy_dhistory instead,     *)
(* which the data sender (datasender.c) sends to a trapper of the server   *)
(* (trapper/proxydiscovery.c), which does the same with them.              *)
(*                                                                         *)
(* Processes are stopped within a pass or a request, answers are lost, and *)
(* what was not acknowledged is sent again.  A trapper has ended with a    *)
(* request when it is repeated.  The trapper opens no transaction: each of *)
(* its statements is committed by itself, and it may be stopped between    *)
(* any two of them.                                                        *)
(***************************************************************************)
EXTENDS Integers, Sequences

CONSTANTS
    Checks,             \* the services that the rule looks for
    ZBX_MAX_HRECORDS,
    Absent,
    MaxFlips, MaxStops, MaxRows     \* bounds

VARIABLES
    zbx_process,        \* "server" or "proxy": where the discoverer runs
    up,                 \* the services that answer
    flips,
    dhost, dservices,   \* the rows of dhosts and dservices, Absent if there is none
    history,            \* DISCOVER and LOST events of the host and the services
    nohost,             \* there were events of a host with the id 0
    pass,               \* what process_rule holds, Absent between two passes
    unsent,             \* rows of proxy_dhistory after dhistory_lastid
    sent,               \* the request of the data sender, and how far the trapper is
                        \* with it: [rows, done, step, row], or Absent
    stops,
    torn                \* for an object, the numbers of events it had when a trapper
                        \* was stopped with its row half written

environment == <<zbx_process, up, flips>>
tables == <<dhost, dservices, history, nohost>>
sending == <<unsent, sent>>
failures == <<stops, torn>>
discoveryVars == <<environment, tables, pass, sending, failures>>

Host == "host"
UP == "up"
DOWN == "down"

DiscoveryInit ==
    /\ zbx_process \in {"server", "proxy"}
    /\ up = {} /\ flips = 0
    /\ dhost = Absent
    /\ dservices = [c \in Checks |-> Absent]
    /\ history = [o \in Checks \cup {Host} |-> <<>>]
    /\ nohost = FALSE
    /\ pass = Absent
    /\ unsent = <<>> /\ sent = Absent
    /\ stops = 0 /\ torn = [o \in Checks \cup {Host} |-> {}]

Flip ==
    /\ flips < MaxFlips
    /\ flips' = flips + 1
    /\ \E c \in Checks : up' = (up \cup {c}) \ (up \cap {c})
    /\ UNCHANGED <<zbx_process, tables, pass, sending, failures>>

-----------------------------------------------------------------------------
(* Rows: the status, and whether lastup and lastdown are not 0.            *)
NewRow == [status |-> DOWN, lastup |-> FALSE, lastdown |-> FALSE]

(* dhosts.status is UP by default, and the row is inserted without it.     *)
NewHostRow == [NewRow EXCEPT !.status = UP]

(* update_service_status and update_host_status.                           *)
Discovered(row, status) == status = UP /\ (row.status = DOWN \/ ~row.lastup)
Lost(row, status) == status = DOWN /\ (row.status = UP \/ ~row.lastdown)

Updated(row, status) ==
    IF Discovered(row, status) \/ Lost(row, status)
    THEN [status |-> status, lastup |-> status = UP, lastdown |-> status = DOWN] ELSE row

(* Mutant: each answer of a service is a discovery.                        *)
EventsAfterAny(events, row, status) ==
    IF status = UP THEN Append(events, "discover")
    ELSE IF Lost(row, status) THEN Append(events, "lost") ELSE events

EventsAfter(events, row, status) ==
    IF Discovered(row, status) THEN Append(events, "discover")
    ELSE IF Lost(row, status) THEN Append(events, "lost") ELSE events

(* register_host: what the caller gets, and the row in the table.          *)
register_host(status) == IF dhost = Absent /\ status = UP THEN NewRow ELSE dhost
HostRow(status) == IF dhost = Absent /\ status = UP THEN NewHostRow ELSE dhost

(* register_service.                                                       *)
register_service(c, status) == IF dservices[c] = Absent /\ status = UP THEN NewRow ELSE dservices[c]

(* update_service, with the host that the caller has, if it has one.       *)
update_service(host, c, status) ==
    LET service == register_service(c, status) IN
    /\ dhost' = IF host = Absent THEN HostRow(status) ELSE dhost
    /\ IF (host = Absent /\ register_host(status) = Absent) \/ service = Absent
       THEN UNCHANGED <<dservices, history>>
       ELSE /\ dservices' = [dservices EXCEPT ![c] = Updated(service, status)]
            /\ history' = [history EXCEPT ![c] = EventsAfter(@, service, status)]
    /\ UNCHANGED nohost

update_host_status(host, row, status) ==
    /\ dhost' = IF Discovered(host, status) \/ Lost(host, status) THEN Updated(host, status) ELSE row
    /\ history' = [history EXCEPT ![Host] = EventsAfter(@, host, status)]
    /\ UNCHANGED <<dservices, nohost>>

-----------------------------------------------------------------------------
(* The discoverer: process_rule.                                           *)
BeginPass ==
    /\ pass = Absent
    /\ Len(unsent) < MaxRows
    /\ pass' = [todo |-> Checks, host |-> Absent, status |-> Absent]
    /\ UNCHANGED <<environment, tables, sending, failures>>

(* process_check; update_service is one transaction.                       *)
process_check(c) ==
    /\ pass # Absent
    /\ c \in pass.todo
    /\ LET status == IF c \in up THEN UP ELSE DOWN
           host == IF pass.host = Absent THEN register_host(status) ELSE pass.host
       IN  /\ pass' = [todo |-> pass.todo \ {c},
                       host |-> IF zbx_process = "server" THEN host ELSE Absent,
                       status |-> IF pass.status = Absent \/ status = UP THEN status ELSE pass.status]
           /\ IF zbx_process = "server"
              THEN update_service(pass.host, c, status) /\ UNCHANGED unsent
              ELSE unsent' = Append(unsent, [object |-> c, status |-> status]) /\ UNCHANGED tables
    /\ UNCHANGED <<environment, sent, failures>>

(* A host of which no service was ever found is not registered.            *)
EndPass ==
    /\ pass # Absent
    /\ pass.todo = {}
    /\ IF zbx_process = "proxy"
       THEN unsent' = Append(unsent, [object |-> Host, status |-> pass.status]) /\ UNCHANGED tables
       ELSE /\ IF pass.host = Absent THEN UNCHANGED tables
               ELSE update_host_status(pass.host, dhost, pass.status)
            /\ UNCHANGED unsent
    /\ pass' = Absent
    /\ UNCHANGED <<environment, sent, failures>>

-----------------------------------------------------------------------------
(* dhistory_sender, and process_discovery_data of a trapper.               *)
Fresh(rows, n) == [rows |-> rows, done |-> n, step |-> "host", row |-> Absent]

dhistory_sender ==
    /\ sent = Absent
    /\ unsent # <<>>
    /\ sent' = Fresh(SubSeq(unsent, 1, IF Len(unsent) < ZBX_MAX_HRECORDS THEN Len(unsent) ELSE ZBX_MAX_HRECORDS), 0)
    /\ UNCHANGED <<environment, tables, pass, unsent, failures>>

(* The trapper is at a step of the first row that it is not done with.     *)
At(step) == sent # Absent /\ sent.done < Len(sent.rows) /\ sent.step = step
Object == sent.rows[sent.done + 1].object
Reported == sent.rows[sent.done + 1].status

(* The next step, with the row as the trapper has it, or the next row.     *)
Step(step, row) == sent' = [sent EXCEPT !.step = step, !.row = row]
NextRow == sent' = Fresh(sent.rows, sent.done + 1)

(* A host that is not in the table and down has the id 0; the status of    *)
(* its empty structure is UP.                                              *)
RegisterHost ==
    /\ At("host")
    /\ dhost' = HostRow(Reported)
    /\ IF register_host(Reported) = Absent THEN NextRow
       ELSE IF Object = Host THEN Step("update", register_host(Reported))
       ELSE Step("service", Absent)
    /\ nohost' = (nohost \/ (Object = Host /\ register_host(Reported) = Absent))
    /\ UNCHANGED <<environment, dservices, history, pass, unsent, failures>>

RegisterService ==
    /\ At("service")
    /\ LET service == register_service(Object, Reported)
       IN  /\ dservices' = [dservices EXCEPT ![Object] = service]
           /\ IF service = Absent THEN NextRow ELSE Step("update", service)
    /\ UNCHANGED <<environment, dhost, history, nohost, pass, unsent, failures>>

UpdateRow ==
    /\ At("update")
    /\ IF Discovered(sent.row, Reported) \/ Lost(sent.row, Reported)
       THEN /\ IF Object = Host
               THEN dhost' = Updated(sent.row, Reported) /\ UNCHANGED dservices
               ELSE dservices' = [dservices EXCEPT ![Object] = Updated(sent.row, Reported)] /\ UNCHANGED dhost
            /\ Step("event", sent.row)
       ELSE NextRow /\ UNCHANGED <<dhost, dservices>>
    /\ UNCHANGED <<environment, history, nohost, pass, unsent, failures>>

AddEvent ==
    /\ At("event")
    /\ history' = [history EXCEPT ![Object] = EventsAfter(@, sent.row, Reported)]
    /\ NextRow
    /\ UNCHANGED <<environment, dhost, dservices, nohost, pass, unsent, failures>>

ProcessRow == RegisterHost \/ RegisterService \/ UpdateRow \/ AddEvent

(* Mutant: rows that were written meanwhile are taken for sent.            *)
AfterRequestAll(n) == <<>>

AfterRequest(n) == SubSeq(unsent, n + 1, Len(unsent))

(* The answer arrives: set_lastid.                                         *)
Acknowledge ==
    /\ sent # Absent
    /\ sent.done = Len(sent.rows)
    /\ unsent' = AfterRequest(Len(sent.rows))
    /\ sent' = Absent
    /\ UNCHANGED <<environment, tables, pass, failures>>

(* A row that was inserted and not updated, or updated without an event.   *)
HalfWritten == At("event") \/ (At("update") /\ sent.row = NewRow)

(* The trapper or the sender is stopped, or the answer is lost.            *)
RequestFails ==
    /\ sent # Absent
    /\ stops < MaxStops
    /\ stops' = stops + 1
    /\ sent' = Absent
    /\ torn' = IF HalfWritten THEN [torn EXCEPT ![Object] = @ \cup {Len(history[Object])}] ELSE torn
    /\ UNCHANGED <<environment, tables, pass, unsent>>

(* The discoverer is stopped and started.                                  *)
StopDiscoverer ==
    /\ pass # Absent
    /\ stops < MaxStops
    /\ stops' = stops + 1
    /\ pass' = Absent
    /\ UNCHANGED <<environment, tables, sending, torn>>

Discover == BeginPass \/ (\E c \in Checks : process_check(c)) \/ EndPass

Deliver == dhistory_sender \/ ProcessRow \/ Acknowledge

DiscoveryNext == Flip \/ Discover \/ Deliver \/ RequestFails \/ StopDiscoverer

(* Discoverer, data sender and trapper keep running.                       *)
DiscoveryFairness == WF_discoveryVars(Discover) /\ WF_discoveryVars(Deliver)

DiscoverySpec == DiscoveryInit /\ [][DiscoveryNext]_discoveryVars /\ DiscoveryFairness
-----------------------------------------------------------------------------
(* Properties.                                                             *)

(* The first event is a discovery, and each one is the opposite of the one *)
(* before, but for the first one after a row was torn.                     *)
InTurn(events, tears) ==
    \A k \in 1 .. Len(events) :
        k - 1 \in tears \/ events[k] = IF k > 1 /\ events[k - 1] = "discover" THEN "lost" ELSE "discover"

(* Discovery actions see a service discovered and lost in turn, though     *)
(* statuses of a proxy are sent again.  A trapper that is stopped between  *)
(* two statements for one row hides at most the event it was about to add: *)
(* only the next event of that service may be out of turn.  A host is seen *)
(* in turn as well, unless a process is stopped between its first service  *)
(* and the end of the pass.                                                *)
DiscoveredAndLost ==
    /\ \A c \in Checks : InTurn(history[c], torn[c])
    /\ stops = 0 => InTurn(history[Host], {})

IsUp(row) == row # Absent /\ row.status = UP

Agree == (\A c \in Checks : IsUp(dservices[c]) <=> c \in up) /\ (IsUp(dhost) <=> up # {})

(* When the network changes no more the tables come to say what it is,     *)
(* after stopped passes and repeated requests.                             *)
StatusSettles == <>[][FALSE]_up => <>[]Agree
=============================================================================
