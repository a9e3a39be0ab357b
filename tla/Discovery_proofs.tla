--------------------------- MODULE Discovery_proofs ---------------------------
(***************************************************************************)
(* Proof that discovery actions see a service and a host discovered and    *)
(* lost in turn, for any services, sizes of a request and bounds.          *)
(***************************************************************************)
EXTENDS Discovery, SequenceTheorems, TLAPS

Status == {UP, DOWN, Absent}

Table == [status: {UP, DOWN}, lastup: BOOLEAN, lastdown: BOOLEAN]

Pass == [todo: SUBSET Checks, host: Table \cup {Absent}, status: Status]

HistoryRow == [object: Checks \cup {Host}, status: Status]

Request ==
    [rows: Seq(HistoryRow), done: Nat,
     step: {"host", "service", "update", "event"}, row: Table \cup {Absent}]

Event == {"discover", "lost"}

(* Absent is no row, pass or request; a request holds rows.                *)
Distinct ==
    /\ Absent \notin {UP, DOWN}
    /\ Absent \notin Table /\ Absent \notin Pass /\ Absent \notin Request
    /\ Host \notin Checks
    /\ ZBX_MAX_HRECORDS \in Nat \ {0}

Types ==
    /\ zbx_process \in {"server", "proxy"}
    /\ dhost \in Table \cup {Absent}
    /\ history \in [Checks \cup {Host} -> Seq(Event)]
    /\ dservices \in [Checks -> Table \cup {Absent}]
    /\ pass \in Pass \cup {Absent}
    /\ unsent \in Seq(HistoryRow)
    /\ sent \in Request \cup {Absent}
    /\ stops \in Nat
    /\ torn \in [Checks \cup {Host} -> SUBSET Nat]

(* Only a proxy sends, and only a server knows a host while it scans.  The *)
(* request is of the first rows.                                           *)
Sides ==
    /\ zbx_process = "server" => unsent = <<>> /\ sent = Absent
    /\ pass # Absent /\ pass.host # Absent => zbx_process = "server" /\ dhost # Absent
    /\ sent # Absent =>
          /\ sent.done <= Len(sent.rows) /\ Len(sent.rows) <= Len(unsent)
          /\ \A k \in 1 .. Len(sent.rows) : sent.rows[k] = unsent[k]

UpRow == [status |-> UP, lastup |-> TRUE, lastdown |-> FALSE]
DownRow == [status |-> DOWN, lastup |-> FALSE, lastdown |-> TRUE]

(* The row says what the last of the events was, unless it was torn since. *)
Follows(row, events, tears) ==
    /\ InTurn(events, tears)
    /\ \/ Len(events) \in tears
       \/ row = IF events = <<>> THEN Absent
                ELSE IF events[Len(events)] = "discover" THEN UpRow ELSE DownRow

(* A row that is to be updated: it follows its events, or is a new one of  *)
(* what is found up.                                                       *)
Before(row, status, events, tears, new) ==
    Follows(row, events, tears) \/ (row \in new /\ events = <<>> /\ status = UP)

(* The trapper has read or inserted the row of the object, and its event   *)
(* is not there yet.                                                       *)
Pending(o) == (At("update") \/ At("event")) /\ Object = o

Changes(row, status) == Discovered(row, status) \/ Lost(row, status)

Services ==
    \A c \in Checks :
        IF Pending(c)
        THEN /\ sent.row \in Table
             /\ Before(sent.row, Reported, history[c], torn[c], {NewRow})
             /\ sent.step = "update" => dservices[c] = sent.row
             /\ sent.step = "event" =>
                   Changes(sent.row, Reported) /\ dservices[c] = Updated(sent.row, Reported)
        ELSE Follows(dservices[c], history[c], torn[c])

(* The trapper has a row when it is about to update one, and a service     *)
(* when it is about to register one.                                       *)
Steps ==
    sent # Absent =>
        /\ sent.step \in {"update", "event"} => sent.row # Absent
        /\ At("service") => Object # Host

(* The rows that the server has processed.                                 *)
Done == IF sent = Absent THEN 0 ELSE sent.done

(* The pass which wrote the last of the first n rows finds the host up:    *)
(* its row for the host is the next one, or is still to be written.        *)
HostUpAfter(n) ==
    \/ \E m \in n + 1 .. Len(unsent) :
          /\ unsent[m].object = Host /\ unsent[m].status = UP
          /\ \A k \in n + 1 .. m - 1 : unsent[k].object # Host
    \/ /\ \A k \in n + 1 .. Len(unsent) : unsent[k].object # Host
       /\ pass # Absent /\ pass.status = UP

ServicesThenHost ==
    \A n \in 1 .. Len(unsent) :
        unsent[n].object # Host /\ unsent[n].status = UP => HostUpAfter(n)

(* The host is new only until the end of the pass that found it.           *)
NewUntilHost ==
    \/ /\ Follows(dhost, history[Host], {})
       /\ pass # Absent /\ pass.host # Absent => pass.host = dhost
    \/ /\ dhost = NewHostRow /\ history[Host] = <<>>
       /\ zbx_process = "server" => pass # Absent /\ pass.host = NewRow /\ pass.status = UP
       /\ zbx_process = "proxy" => HostUpAfter(Done)

(* The trapper is at the row of the host.                                  *)
HostPending ==
    /\ Before(sent.row, Reported, history[Host], {}, {NewRow, NewHostRow})
    /\ sent.step = "update" =>
          dhost = sent.row \/ (sent.row = NewRow /\ Reported = UP)
    /\ sent.step = "event" =>
          Changes(sent.row, Reported) /\ dhost = Updated(sent.row, Reported)

HostInTurn == IF Pending(Host) THEN HostPending ELSE NewUntilHost

Inv ==
    /\ Types /\ Sides /\ Steps /\ Services
    /\ stops = 0 => ServicesThenHost /\ HostInTurn
-----------------------------------------------------------------------------
(* Rows and events.                                                        *)

(* The events stay in turn when a row is updated.                          *)
LEMMA Followed ==
    ASSUME Distinct, NEW row \in Table, NEW status, NEW events \in Seq(Event), NEW tears \in SUBSET Nat,
           Before(row, status, events, tears, {NewRow, NewHostRow})
    PROVE  /\ Updated(row, status) \in Table
           /\ EventsAfter(events, row, status) \in Seq(Event)
           /\ Follows(Updated(row, status), EventsAfter(events, row, status), tears)
           /\ Changes(row, status) \/ Follows(row, events, tears)
  <1> DEFINE e == EventsAfter(events, row, status)
             n == Len(events)
  <1> UP # DOWN
    BY DEF UP, DOWN
  <1> UpRow \in Table /\ DownRow \in Table /\ row # Absent
    BY DEF UpRow, DownRow, Table, Distinct
  <1> InTurn(events, tears) /\ n \in Nat
    BY DEF Before, Follows, InTurn
  <1>1. ASSUME NEW event \in Event, e = Append(events, event),
               n \in tears \/ event = IF n > 0 /\ events[n] = "discover" THEN "lost" ELSE "discover"
        PROVE  e \in Seq(Event) /\ Len(e) = n + 1 /\ e[n + 1] = event /\ InTurn(e, tears)
    <2>1. e \in Seq(Event) /\ Len(e) = n + 1 /\ e[n + 1] = event /\ \A k \in 1 .. n : e[k] = events[k]
      BY <1>1
    <2>2. ASSUME NEW k \in 1 .. n + 1
          PROVE  k - 1 \in tears \/ e[k] = IF k > 1 /\ e[k - 1] = "discover" THEN "lost" ELSE "discover"
      <3>1. CASE k = n + 1
        BY <3>1, <2>1, <1>1
      <3>2. CASE k # n + 1
        <4> HIDE DEF e
        <4> QED BY <3>2, <2>1 DEF InTurn
      <3> QED BY <3>1, <3>2
    <2> HIDE DEF e
    <2> QED BY <2>1, <2>2 DEF InTurn
  <1>2. CASE Discovered(row, status)
    <2>1. e = Append(events, "discover") /\ Updated(row, status) = UpRow
      BY <1>2 DEF EventsAfter, Updated, Discovered, UpRow
    <2>2. n \in tears \/ ~(n > 0 /\ events[n] = "discover")
      BY <1>2 DEF Before, Follows, Discovered, UpRow
    <2>3. e \in Seq(Event) /\ Len(e) = n + 1 /\ e[n + 1] = "discover" /\ InTurn(e, tears)
      BY <2>1, <2>2, <1>1 DEF Event
    <2> HIDE DEF e
    <2>4. Follows(UpRow, e, tears)
      BY <2>3 DEF Follows
    <2> QED BY <2>1, <2>3, <2>4, <1>2 DEF Changes, e
  <1>3. CASE Lost(row, status)
    <2>1. e = Append(events, "lost") /\ Updated(row, status) = DownRow
      BY <1>3 DEF EventsAfter, Updated, Discovered, Lost, DownRow
    <2>2. n \in tears \/ (n > 0 /\ events[n] = "discover")
      BY <1>3 DEF Before, Follows, Lost, DownRow
    <2>3. e \in Seq(Event) /\ Len(e) = n + 1 /\ e[n + 1] = "lost" /\ InTurn(e, tears)
      BY <2>1, <2>2, <1>1 DEF Event
    <2> HIDE DEF e
    <2>4. Follows(DownRow, e, tears)
      BY <2>3 DEF Follows
    <2> QED BY <2>1, <2>3, <2>4, <1>3 DEF Changes, e
  <1>4. CASE ~Discovered(row, status) /\ ~Lost(row, status)
    <2>1. Follows(row, events, tears)
      BY <1>4 DEF Before, Discovered, NewRow, NewHostRow
    <2> QED BY <2>1, <1>4 DEF EventsAfter, Updated
  <1> QED BY <1>2, <1>3, <1>4

(* A row that register_service returns is to be updated.                   *)
LEMMA Registered ==
    ASSUME Distinct, Types, NEW c \in Checks, NEW status, register_service(c, status) # Absent,
           Follows(dservices[c], history[c], torn[c])
    PROVE  /\ register_service(c, status) \in Table
           /\ Before(register_service(c, status), status, history[c], torn[c], {NewRow})
  <1>1. register_service(c, status) \in Table
    BY DEF register_service, Types, NewRow, Table, UP, DOWN
  <1>2. CASE dservices[c] = Absent /\ status = UP
    <2>1. register_service(c, status) = NewRow
      BY <1>2 DEF register_service
    <2>2. UpRow # Absent /\ DownRow # Absent
      <3>1. UpRow \in Table /\ DownRow \in Table
        BY DEF UpRow, DownRow, Table
      <3> QED BY <3>1 DEF Distinct
    <2>3. history[c] = <<>> \/ Len(history[c]) \in torn[c]
      BY <1>2, <2>2 DEF Follows
    <2> QED BY <1>1, <1>2, <2>1, <2>3 DEF Before, Follows
  <1>3. CASE ~(dservices[c] = Absent /\ status = UP)
    BY <1>1, <1>3 DEF register_service, Before
  <1> QED BY <1>2, <1>3

(* update_service of a discoverer, with no trapper at work.                *)
LEMMA ServiceUpdated ==
    ASSUME Distinct, Types, Services, sent = Absent, sent' = sent, torn' = torn,
           NEW host, NEW c \in Checks, NEW status, update_service(host, c, status)
    PROVE  /\ dservices' \in [Checks -> Table \cup {Absent}]
           /\ history' \in [Checks \cup {Host} -> Seq(Event)]
           /\ Services'
           /\ history'[Host] = history[Host]
  <1> DEFINE service == register_service(c, status)
             kept == (host = Absent /\ register_host(status) = Absent) \/ service = Absent
  <1> USE DEF Pending, At
  <1>0. \A d \in Checks : Follows(dservices[d], history[d], torn[d])
    BY DEF Services
  <1>1. CASE kept
    BY <1>1 DEF update_service, Types, Services
  <1>2. CASE ~kept
    <2>1. /\ dservices' = [dservices EXCEPT ![c] = Updated(service, status)]
          /\ history' = [history EXCEPT ![c] = EventsAfter(history[c], service, status)]
      BY <1>2 DEF update_service
    <2>2. /\ service \in Table
          /\ Before(service, status, history[c], torn[c], {NewRow})
      BY <1>0, <1>2, Registered
    <2>3. history[c] \in Seq(Event) /\ torn[c] \in SUBSET Nat
      BY DEF Types
    <2>4. Before(service, status, history[c], torn[c], {NewRow, NewHostRow})
      BY <2>2 DEF Before
    <2>5. /\ Updated(service, status) \in Table
          /\ EventsAfter(history[c], service, status) \in Seq(Event)
          /\ Follows(Updated(service, status), EventsAfter(history[c], service, status), torn[c])
      <3> HIDE DEF service
      <3> QED BY <2>2, <2>3, <2>4, Followed
    <2> HIDE DEF service
    <2>6. dservices' \in [Checks -> Table \cup {Absent}] /\ history' \in [Checks \cup {Host} -> Seq(Event)]
      BY <2>1, <2>5 DEF Types
    <2>7. history'[Host] = history[Host]
      BY <2>1 DEF Types, Distinct
    <2>8. ASSUME NEW d \in Checks PROVE Follows(dservices'[d], history'[d], torn'[d])
      <3>1. CASE d = c
        BY <3>1, <2>1, <2>5 DEF Types
      <3>2. CASE d # c
        BY <3>2, <2>1, <1>0 DEF Types
      <3> QED BY <3>1, <3>2
    <2> QED BY <2>6, <2>7, <2>8 DEF Services
  <1> QED BY <1>1, <1>2

(* update_host_status of a discoverer, for the host as it is in the table, *)
(* or a new one of what is found up.                                       *)
LEMMA HostUpdated ==
    ASSUME Distinct, Types, Services, sent = Absent, sent' = sent, torn' = torn,
           NEW host \in Table, NEW row \in Table, NEW status, update_host_status(host, row, status)
    PROVE  /\ dhost' \in Table
           /\ history' \in [Checks \cup {Host} -> Seq(Event)]
           /\ dservices' = dservices
           /\ Services'
           /\ \/ Follows(host, history[Host], {}) /\ row = host
              \/ host \in {NewRow, NewHostRow} /\ history[Host] = <<>> /\ status = UP
              => Follows(dhost', history'[Host], {})
  <1> DEFINE e == EventsAfter(history[Host], host, status)
  <1> USE DEF Pending, At, Changes
  <1>1. /\ dhost' = IF Changes(host, status) THEN Updated(host, status) ELSE row
        /\ history' = [history EXCEPT ![Host] = e]
        /\ dservices' = dservices
    BY DEF update_host_status
  <1>2. history[Host] \in Seq(Event)
    BY DEF Types
  <1>3. e \in Seq(Event)
    BY <1>2 DEF EventsAfter, Event
  <1> HIDE DEF e
  <1>4. history' \in [Checks \cup {Host} -> Seq(Event)] /\ history'[Host] = e
    BY <1>1, <1>3 DEF Types
  <1>5. \A c \in Checks : history'[c] = history[c]
    BY <1>1 DEF Types, Distinct
  <1>6. Services'
    BY <1>1, <1>5 DEF Services
  <1>7. dhost' \in Table
    BY <1>1 DEF Updated, Discovered, Lost, Table
  <1>8. ASSUME \/ Follows(host, history[Host], {}) /\ row = host
               \/ host \in {NewRow, NewHostRow} /\ history[Host] = <<>> /\ status = UP
        PROVE  Follows(dhost', history'[Host], {})
    <2>1. Before(host, status, history[Host], {}, {NewRow, NewHostRow})
      BY <1>8 DEF Before
    <2>2. Follows(Updated(host, status), e, {})
      BY <2>1, <1>2, Followed DEF e
    <2>3. CASE Changes(host, status)
      BY <2>2, <2>3, <1>1, <1>4
    <2>4. CASE ~Changes(host, status)
      <3>1. row = host
        BY <2>4, <1>8 DEF Discovered, NewRow, NewHostRow
      <3>2. Updated(host, status) = host
        BY <2>4 DEF Updated
      <3> QED BY <3>1, <3>2, <2>2, <2>4, <1>1, <1>4
    <2> QED BY <2>3, <2>4
  <1> QED BY <1>1, <1>4, <1>6, <1>7, <1>8

-----------------------------------------------------------------------------
(* Rows that a proxy sends.                                                *)

(* A row more: the host is found up after the same rows.                   *)
LEMMA HostUpAppended ==
    ASSUME Types, NEW n \in Nat, n <= Len(unsent), HostUpAfter(n),
           NEW row \in HistoryRow, unsent' = Append(unsent, row),
           IF row.object = Host THEN row.status = pass.status
                                ELSE pass' # Absent /\ (pass.status = UP => pass'.status = UP)
    PROVE  HostUpAfter(n)'
  <1> unsent \in Seq(HistoryRow)
    BY DEF Types
  <1>1. /\ Len(unsent') = Len(unsent) + 1 /\ unsent'[Len(unsent) + 1] = row
        /\ \A k \in 1 .. Len(unsent) : unsent'[k] = unsent[k]
    OBVIOUS
  <1>2. ASSUME NEW m \in n + 1 .. Len(unsent),
               unsent[m].object = Host /\ unsent[m].status = UP,
               \A k \in n + 1 .. m - 1 : unsent[k].object # Host
        PROVE  HostUpAfter(n)'
    BY <1>1, <1>2 DEF HostUpAfter
  <1>3. ASSUME \A k \in n + 1 .. Len(unsent) : unsent[k].object # Host,
               pass # Absent, pass.status = UP
        PROVE  HostUpAfter(n)'
    <2>1. CASE row.object = Host
      <3> DEFINE m == Len(unsent) + 1
      <3>1. /\ m \in n + 1 .. Len(unsent')
            /\ unsent'[m].object = Host /\ unsent'[m].status = UP
            /\ \A k \in n + 1 .. m - 1 : unsent'[k].object # Host
        BY <2>1, <1>1, <1>3
      <3> HIDE DEF m
      <3> QED BY <3>1 DEF HostUpAfter
    <2>2. CASE row.object # Host
      <3>1. \A k \in n + 1 .. Len(unsent') : unsent'[k].object # Host
        BY <2>2, <1>1, <1>3
      <3> QED BY <3>1, <2>2, <1>3 DEF HostUpAfter
    <2> QED BY <2>1, <2>2
  <1> QED BY <1>2, <1>3 DEF HostUpAfter

(* The first d rows fewer.                                                 *)
LEMMA HostUpShifted ==
    ASSUME Types, NEW d \in Nat, NEW n \in Nat, d + n <= Len(unsent), HostUpAfter(d + n),
           unsent' = SubSeq(unsent, d + 1, Len(unsent)), pass' = pass
    PROVE  HostUpAfter(n)'
  <1> unsent \in Seq(HistoryRow)
    BY DEF Types
  <1>1. /\ Len(unsent') = Len(unsent) - d
        /\ \A k \in 1 .. Len(unsent) - d : unsent'[k] = unsent[k + d]
    BY DEF Types
  <1>2. ASSUME NEW m \in d + n + 1 .. Len(unsent),
               unsent[m].object = Host /\ unsent[m].status = UP,
               \A k \in d + n + 1 .. m - 1 : unsent[k].object # Host
        PROVE  HostUpAfter(n)'
    <2>1. \A k \in n + 1 .. m - d - 1 : unsent'[k].object # Host
      <3> TAKE k \in n + 1 .. m - d - 1
      <3> k + d \in d + n + 1 .. m - 1 /\ k \in 1 .. Len(unsent) - d
        OBVIOUS
      <3> QED BY <1>1, <1>2
    <2>2. m - d \in n + 1 .. Len(unsent') /\ unsent'[m - d] = unsent[m]
      BY <1>1
    <2> PICK l \in Int : l = m - d
      OBVIOUS
    <2> QED BY <2>1, <2>2, <1>2 DEF HostUpAfter
  <1>3. ASSUME \A k \in d + n + 1 .. Len(unsent) : unsent[k].object # Host,
               pass # Absent, pass.status = UP
        PROVE  HostUpAfter(n)'
    <2>1. \A k \in n + 1 .. Len(unsent') : unsent'[k].object # Host
      <3> TAKE k \in n + 1 .. Len(unsent')
      <3> k + d \in d + n + 1 .. Len(unsent) /\ k \in 1 .. Len(unsent) - d
        BY <1>1
      <3> QED BY <1>1, <1>3
    <2> QED BY <2>1, <1>3 DEF HostUpAfter
  <1> QED BY <1>2, <1>3 DEF HostUpAfter

-----------------------------------------------------------------------------
(* The steps.                                                              *)

LEMMA InitInv == ASSUME Distinct, DiscoveryInit PROVE Inv
  <1>1. Types
    BY DEF DiscoveryInit, Types
  <1>2. Sides /\ Steps
    BY DEF DiscoveryInit, Sides, Steps
  <1>3. Follows(dhost, history[Host], {}) /\ \A c \in Checks : Follows(dservices[c], history[c], torn[c])
    BY DEF DiscoveryInit, Follows, InTurn
  <1>4. ServicesThenHost
    BY DEF DiscoveryInit, ServicesThenHost
  <1>5. \A o : ~Pending(o)
    BY DEF DiscoveryInit, Pending, At
  <1>6. Services /\ HostInTurn
    BY <1>3, <1>5 DEF Services, HostInTurn, NewUntilHost, DiscoveryInit
  <1> QED BY <1>1, <1>2, <1>4, <1>6 DEF Inv

(* Rows and events stay in turn as long as the tables, the request and the *)
(* tears stay.                                                             *)
LEMMA SameServices ==
    ASSUME Steps, Services, UNCHANGED <<tables, sent, torn>>
    PROVE  Steps' /\ Services' /\ \A o : Pending(o)' <=> Pending(o)
  BY DEF Steps, Services, Pending, At, Object, Reported, tables

LEMMA SameHost ==
    ASSUME HostInTurn, NewUntilHost => NewUntilHost', UNCHANGED <<tables, sent>>
    PROVE  HostInTurn'
  BY DEF HostInTurn, HostPending, Pending, At, Object, Reported, tables

(* What only depends on the rows, the pass and the request.                *)
LEMMA SameRows ==
    ASSUME Inv, UNCHANGED <<zbx_process, tables, pass, unsent, sent, failures>>
    PROVE  Inv'
  <1> USE DEF failures
  <1>1. Types'
    BY DEF Inv, Types, tables
  <1>2. Sides' /\ Steps' /\ Services'
    BY SameServices DEF Inv, Sides, tables
  <1>3. \A n : HostUpAfter(n) <=> HostUpAfter(n)'
    BY DEF HostUpAfter
  <1>4. Done' = Done
    BY DEF Done
  <1>5. ServicesThenHost => ServicesThenHost'
    BY <1>3 DEF ServicesThenHost
  <1>6. HostInTurn => HostInTurn'
    <2> NewUntilHost => NewUntilHost'
      BY <1>3, <1>4 DEF NewUntilHost, tables
    <2> QED BY SameHost
  <1> QED BY <1>1, <1>2, <1>5, <1>6 DEF Inv

LEMMA BeginPassInv == ASSUME Distinct, Inv, BeginPass PROVE Inv'
  <1> USE DEF sending, environment, failures
  <1>1. pass' \in Pass /\ pass' # Absent /\ pass'.host = Absent /\ pass = Absent
    BY DEF BeginPass, Pass, Status, Distinct
  <1>2. Types'
    BY <1>1 DEF Inv, Types, BeginPass, tables
  <1>3. Sides' /\ Steps' /\ Services'
    BY <1>1, SameServices DEF Inv, Sides, BeginPass, tables
  <1>4. ASSUME NEW n, HostUpAfter(n) PROVE HostUpAfter(n)'
    BY <1>1, <1>4 DEF HostUpAfter, BeginPass
  <1>5. Done' = Done
    BY DEF Done, BeginPass
  <1>6. ServicesThenHost => ServicesThenHost'
    BY <1>4 DEF ServicesThenHost, BeginPass
  <1>7. NewUntilHost => NewUntilHost'
    BY <1>1, <1>4, <1>5 DEF NewUntilHost, BeginPass, tables
  <1>8. HostInTurn => HostInTurn'
    BY <1>7, SameHost DEF BeginPass
  <1> QED BY <1>2, <1>3, <1>6, <1>8 DEF Inv, BeginPass

(* A server has no request.                                                *)
LEMMA NoRequest ==
    ASSUME Inv, zbx_process = "server"
    PROVE  sent = Absent /\ unsent = <<>> /\ (HostInTurn => NewUntilHost)
  BY DEF Inv, Sides, HostInTurn, Pending, At

LEMMA NoRequestThen ==
    ASSUME sent' = Absent
    PROVE  Steps' /\ (NewUntilHost' => HostInTurn')
  BY DEF Steps, HostInTurn, Pending, At

(* process_check of a server: the pass has the host as it is, or as new.   *)
LEMMA CheckOnServer ==
    ASSUME Distinct, Inv, NEW c \in Checks, process_check(c), zbx_process = "server"
    PROVE  Inv'
  <1> USE DEF sending, environment, failures
  <1> DEFINE status == IF c \in up THEN UP ELSE DOWN
             known == IF pass.host = Absent THEN register_host(status) ELSE pass.host
  <1>1. /\ pass # Absent
        /\ pass' = [todo |-> pass.todo \ {c}, host |-> known,
                    status |-> IF pass.status = Absent \/ status = UP THEN status ELSE pass.status]
        /\ update_service(pass.host, c, status)
        /\ unsent' = unsent /\ sent' = sent /\ stops' = stops /\ torn' = torn /\ zbx_process' = zbx_process
    BY DEF process_check
  <1>0. sent = Absent
    BY NoRequest
  <1>2. pass \in Pass /\ dhost \in Table \cup {Absent}
    BY <1>1 DEF Inv, Types
  <1>3. NewRow \in Table /\ NewHostRow \in Table /\ UP # Absent
    BY DEF NewRow, NewHostRow, Table, UP, DOWN, Distinct
  <1>4. known \in Table \cup {Absent} /\ status \in {UP, DOWN}
    BY <1>2, <1>3 DEF register_host, Pass
  <1>5. pass' \in Pass /\ pass' # Absent
    BY <1>1, <1>2, <1>4 DEF Pass, Status, Distinct
  <1>6. /\ pass'.host = known
        /\ pass.status = UP \/ status = UP => pass'.status = UP
    BY <1>1, <1>3
  <1>7. /\ dservices' \in [Checks -> Table \cup {Absent}]
        /\ history' \in [Checks \cup {Host} -> Seq(Event)]
        /\ Services' /\ history'[Host] = history[Host]
    BY <1>0, <1>1, ServiceUpdated DEF Inv
  <1>8. dhost' = IF pass.host = Absent THEN HostRow(status) ELSE dhost
    BY <1>1 DEF update_service
  <1>9. Types'
    BY <1>1, <1>3, <1>5, <1>7, <1>8 DEF Inv, Types, HostRow
  <1>10. Sides'
    BY <1>1, <1>3, <1>6, <1>8 DEF Inv, Sides, register_host, HostRow, Distinct
  <1>11. ServicesThenHost'
    BY <1>1, NoRequest DEF ServicesThenHost
  <1>12. ASSUME NewUntilHost PROVE NewUntilHost'
    <2> UpRow \in Table /\ DownRow \in Table /\ Absent \notin Table
      BY DEF Distinct, UpRow, DownRow, Table
    <2>1. CASE pass.host = Absent
      <3>1. Follows(dhost, history[Host], {})
        BY <2>1, <1>1, <1>3, <1>12 DEF NewUntilHost
      <3>2. CASE dhost = Absent /\ status = UP
        <4>1. history[Host] = <<>>
          BY <3>1, <3>2 DEF Follows
        <4>2. dhost' = NewHostRow /\ known = NewRow
          BY <1>8, <2>1, <3>2 DEF HostRow, register_host
        <4> HIDE DEF known, status
        <4> QED BY <4>1, <4>2, <3>2, <1>1, <1>5, <1>6, <1>7 DEF NewUntilHost
      <3>3. CASE ~(dhost = Absent /\ status = UP)
        <4>1. dhost' = dhost /\ known = dhost
          BY <1>8, <2>1, <3>3 DEF HostRow, register_host
        <4> HIDE DEF known, status
        <4> QED BY <4>1, <3>1, <1>6, <1>7 DEF NewUntilHost
      <3> QED BY <3>2, <3>3
    <2>2. CASE pass.host # Absent
      <3>1. dhost' = dhost /\ pass'.host = pass.host /\ (pass.status = UP => pass'.status = UP)
        BY <2>2, <1>8, <1>6
      <3> QED BY <3>1, <2>2, <1>1, <1>5, <1>7, <1>12 DEF NewUntilHost
    <2> QED BY <2>1, <2>2
  <1> QED BY <1>0, <1>1, <1>7, <1>9, <1>10, <1>11, <1>12, NoRequest, NoRequestThen DEF Inv

(* A row more of a pass of a proxy, for a service or for the host.         *)
LEMMA RowAppended ==
    ASSUME Distinct, Inv, NEW row \in HistoryRow, zbx_process = "proxy",
           unsent' = Append(unsent, row), pass # Absent, pass' \in Pass \cup {Absent},
           pass' # Absent => pass'.host = Absent,
           IF row.object = Host THEN row.status = pass.status
           ELSE /\ pass' # Absent
                /\ pass.status = UP \/ row.status = UP => pass'.status = UP,
           UNCHANGED <<zbx_process, tables, sent, failures>>
    PROVE  Inv'
  <1> USE DEF failures
  <1>1. unsent \in Seq(HistoryRow) /\ Types
    BY DEF Inv, Types
  <1>2. /\ Len(unsent') = Len(unsent) + 1 /\ unsent'[Len(unsent) + 1] = row
        /\ \A k \in 1 .. Len(unsent) : unsent'[k] = unsent[k]
    BY <1>1
  <1>3. Types'
    BY <1>1 DEF Types, tables
  <1>4. Sides'
    <2>1. ASSUME sent # Absent
          PROVE  /\ sent.done <= Len(sent.rows) /\ Len(sent.rows) <= Len(unsent)
                 /\ \A k \in 1 .. Len(sent.rows) : sent.rows[k] = unsent[k]
                 /\ Len(sent.rows) \in Nat
      BY <2>1 DEF Inv, Sides, Types, Request
    <2> QED BY <1>1, <1>2, <2>1 DEF Sides
  <1>5. Steps' /\ Services'
    BY SameServices DEF Inv
  <1>6. ASSUME NEW n \in Nat, n <= Len(unsent), HostUpAfter(n) PROVE HostUpAfter(n)'
    BY <1>1, <1>6, HostUpAppended
  <1>7. ASSUME ServicesThenHost PROVE ServicesThenHost'
    <2> SUFFICES ASSUME NEW n \in 1 .. Len(unsent'), unsent'[n].object # Host, unsent'[n].status = UP
                 PROVE  HostUpAfter(n)'
      BY DEF ServicesThenHost
    <2>1. CASE n = Len(unsent) + 1
      <3>1. row.object # Host /\ row.status = UP
        BY <1>2, <2>1
      <3>2. \A k \in n + 1 .. Len(unsent') : unsent'[k].object # Host
        BY <1>1, <1>2, <2>1
      <3> QED BY <3>1, <3>2 DEF HostUpAfter
    <2>2. CASE n # Len(unsent) + 1
      <3>1. n \in 1 .. Len(unsent)
        BY <1>1, <1>2, <2>2
      <3> QED BY <3>1, <1>1, <1>2, <1>6, <1>7 DEF ServicesThenHost
    <2> QED BY <2>1, <2>2
  <1>8. ASSUME NewUntilHost PROVE NewUntilHost'
    <2>1. Done' = Done
      BY DEF Done
    <2>2. Done \in Nat /\ Done <= Len(unsent)
      BY <1>1 DEF Done, Inv, Sides, Types, Request
    <2>3. ASSUME HostUpAfter(Done) PROVE HostUpAfter(Done)'
      <3> PICK d \in Nat : d = Done
        BY <2>2
      <3>1. HostUpAfter(d)'
        BY <2>2, <2>3, <1>6
      <3> QED BY <3>1, <2>1
    <2> QED BY <2>3, <1>8 DEF NewUntilHost, tables
  <1>9. HostInTurn => HostInTurn'
    BY <1>8, SameHost
  <1> QED BY <1>3, <1>4, <1>5, <1>7, <1>9 DEF Inv

LEMMA CheckInv == ASSUME Distinct, Inv, NEW c \in Checks, process_check(c) PROVE Inv'
  <1> USE DEF environment, failures
  <1>1. CASE zbx_process = "server"
    BY <1>1, CheckOnServer
  <1>2. CASE zbx_process = "proxy"
    <2> DEFINE status == IF c \in up THEN UP ELSE DOWN
               row == [object |-> c, status |-> status]
               found == IF pass.status = Absent \/ status = UP THEN status ELSE pass.status
    <2>1. /\ pass # Absent
          /\ pass' = [todo |-> pass.todo \ {c}, host |-> Absent, status |-> found]
          /\ unsent' = Append(unsent, row)
          /\ UNCHANGED <<zbx_process, tables, sent, failures>>
      BY <1>2 DEF process_check
    <2>2. row \in HistoryRow /\ row.object # Host /\ row.status = status
      BY DEF HistoryRow, Status, Distinct
    <2>3. pass \in Pass
      BY <2>1 DEF Inv, Types
    <2>4. pass' \in Pass /\ pass' # Absent /\ pass'.host = Absent
      BY <2>1, <2>3 DEF Pass, Status, Distinct
    <2>5. pass.status = UP \/ status = UP => pass'.status = UP
      BY <2>1 DEF Distinct
    <2> HIDE DEF row, found, status
    <2> QED BY <1>2, <2>1, <2>2, <2>4, <2>5, RowAppended
  <1> QED BY <1>1, <1>2 DEF Inv, Types

LEMMA EndPassInv == ASSUME Distinct, Inv, EndPass PROVE Inv'
  <1> USE DEF environment, failures
  <1>1. /\ pass \in Pass /\ pass # Absent /\ pass' = Absent
        /\ UNCHANGED <<zbx_process, sent, failures>>
    BY DEF EndPass, Inv, Types
  <1>2. CASE zbx_process = "proxy"
    <2> PICK row \in HistoryRow : row = [object |-> Host, status |-> pass.status]
      BY <1>1 DEF HistoryRow, Pass
    <2>1. unsent' = Append(unsent, row) /\ UNCHANGED tables
      BY <1>2 DEF EndPass
    <2> QED BY <1>1, <1>2, <2>1, RowAppended
  <1>3. CASE zbx_process = "server" /\ pass.host = Absent
    <2>1. UNCHANGED <<tables, unsent>>
      BY <1>3 DEF EndPass
    <2>2. Types'
      BY <1>1, <2>1 DEF Inv, Types, tables
    <2>3. Sides' /\ Steps' /\ Services'
      BY <1>1, <2>1, SameServices DEF Inv, Sides, tables
    <2>4. ServicesThenHost'
      BY <1>1, <1>3, <2>1 DEF Inv, Sides, ServicesThenHost
    <2>5. ASSUME NewUntilHost PROVE NewUntilHost'
      <3>1. NewRow \in Table /\ Absent \notin Table
        BY DEF Distinct, NewRow, Table, UP, DOWN
      <3> QED BY <3>1, <1>1, <1>3, <2>1, <2>5 DEF NewUntilHost, tables
    <2>6. sent = Absent /\ (HostInTurn => NewUntilHost)
      BY <1>3, NoRequest
    <2>7. HostInTurn => HostInTurn'
      BY <1>1, <2>5, <2>6, NoRequestThen
    <2> QED BY <1>1, <2>2, <2>3, <2>4, <2>7 DEF Inv
  <1>4. CASE zbx_process = "server" /\ pass.host # Absent
    <2>1. update_host_status(pass.host, dhost, pass.status) /\ unsent' = unsent
      BY <1>4 DEF EndPass
    <2>0. sent = Absent /\ (HostInTurn => NewUntilHost)
      BY <1>4, NoRequest
    <2>2. Types /\ Services /\ pass.host \in Table
      BY <1>1, <1>4 DEF Inv, Types, Pass
    <2> PICK host \in Table : host = pass.host
      BY <2>2
    <2> PICK status : status = pass.status
      OBVIOUS
    <2> DEFINE updated ==
                 \/ Follows(host, history[Host], {}) /\ dhost = host
                 \/ host \in {NewRow, NewHostRow} /\ history[Host] = <<>> /\ status = UP
    <2>3. dhost \in Table
      BY <1>1, <1>4 DEF Inv, Sides, Types
    <2>4. /\ dhost' \in Table
          /\ history' \in [Checks \cup {Host} -> Seq(Event)]
          /\ dservices' = dservices
          /\ Services'
          /\ updated => Follows(dhost', history'[Host], {})
      BY <1>1, <2>0, <2>1, <2>2, <2>3, HostUpdated
    <2>5. Types'
      BY <1>1, <2>1, <2>4 DEF Inv, Types
    <2>6. Sides'
      BY <1>1, <2>1 DEF Inv, Sides
    <2>7. ServicesThenHost'
      BY <1>1, <1>4, <2>1 DEF Inv, Sides, ServicesThenHost
    <2>8. NewUntilHost => updated
      BY <1>1, <1>4 DEF NewUntilHost
    <2>9. NewUntilHost => NewUntilHost'
      BY <2>4, <2>8, <1>1 DEF NewUntilHost
    <2>10. Steps' /\ (HostInTurn => HostInTurn')
      BY <1>1, <2>0, <2>9, NoRequestThen
    <2> QED BY <1>1, <2>4, <2>5, <2>6, <2>7, <2>10 DEF Inv
  <1> QED BY <1>2, <1>3, <1>4 DEF Inv, Types

(* A request of the rows, or none.                                         *)
LEMMA SenderInv == ASSUME Distinct, Inv, dhistory_sender PROVE Inv'
  <1> USE DEF environment, failures
  <1> DEFINE n == IF Len(unsent) < ZBX_MAX_HRECORDS THEN Len(unsent) ELSE ZBX_MAX_HRECORDS
             rows == SubSeq(unsent, 1, n)
  <1>1. unsent \in Seq(HistoryRow) /\ n \in 0 .. Len(unsent)
    BY DEF Inv, Types, Distinct
  <1>2. /\ rows \in Seq(HistoryRow) /\ Len(rows) = n
        /\ \A k \in 1 .. n : rows[k] = unsent[k]
    <2> HIDE DEF n
    <2> QED BY <1>1
  <1>3. /\ sent' = Fresh(rows, 0) /\ sent = Absent
        /\ unsent # <<>>
        /\ UNCHANGED <<zbx_process, tables, pass, unsent, failures>>
    BY DEF dhistory_sender
  <1> HIDE DEF rows, n
  <1>4. sent' \in Request /\ sent' # Absent
    BY <1>2, <1>3 DEF Request, Distinct, Fresh
  <1>5. Types'
    BY <1>3, <1>4 DEF Inv, Types, tables
  <1>6. Sides'
    BY <1>1, <1>2, <1>3 DEF Inv, Sides, Types, Fresh, tables
  <1>7. /\ \A o : ~Pending(o) /\ ~Pending(o)'
        /\ Steps' /\ Services'
    <2>1. \A o : ~Pending(o) /\ ~Pending(o)'
      BY <1>3 DEF Pending, At, Fresh
    <2> QED BY <1>3, <2>1 DEF Inv, Services, Steps, At, Fresh, tables
  <1>8. Done' = Done
    BY <1>3, <1>4 DEF Done, Fresh
  <1>9. \A n_1 : HostUpAfter(n_1) <=> HostUpAfter(n_1)'
    BY <1>3 DEF HostUpAfter
  <1>10. ServicesThenHost => ServicesThenHost'
    BY <1>3, <1>9 DEF ServicesThenHost
  <1>11. NewUntilHost => NewUntilHost'
    BY <1>3, <1>8, <1>9 DEF NewUntilHost, tables
  <1>12. HostInTurn => HostInTurn'
    BY <1>7, <1>11 DEF HostInTurn
  <1> QED BY <1>3, <1>5, <1>6, <1>7, <1>10, <1>12 DEF Inv

-----------------------------------------------------------------------------
(* The trapper.                                                            *)

(* The row that the trapper is at.                                         *)
LEMMA RowAt ==
    ASSUME Distinct, Inv, sent # Absent, sent.done < Len(sent.rows)
    PROVE  /\ sent \in Request /\ Done = sent.done /\ zbx_process = "proxy"
           /\ Object \in Checks \cup {Host}
           /\ \E d \in 1 .. Len(unsent) :
                 d = sent.done + 1 /\ Object = unsent[d].object /\ Reported = unsent[d].status
           /\ pass # Absent => pass.host = Absent
  <1>1. sent \in Request /\ unsent \in Seq(HistoryRow)
    BY DEF Inv, Types
  <1>2. Len(sent.rows) \in Nat /\ Len(unsent) \in Nat /\ sent.done \in Nat
    BY <1>1 DEF Request
  <1> PICK d \in Nat : d = sent.done + 1
    BY <1>2
  <1>3. d \in 1 .. Len(unsent) /\ d \in 1 .. Len(sent.rows) /\ sent.rows[d] = unsent[d]
    BY <1>2 DEF Inv, Sides
  <1>4. unsent[d] \in HistoryRow
    BY <1>1, <1>3
  <1>5. Object = unsent[d].object /\ Reported = unsent[d].status
    BY <1>3 DEF Object, Reported
  <1>6. zbx_process = "proxy"
    BY DEF Inv, Sides, Types
  <1> QED BY <1>1, <1>3, <1>4, <1>5, <1>6 DEF Done, HistoryRow, Inv, Sides

LEMMA Stepped ==
    ASSUME Distinct, sent \in Request, sent.done < Len(sent.rows),
           NEW step \in {"service", "update", "event"}, NEW row \in Table \cup {Absent}, Step(step, row)
    PROVE  /\ sent' \in Request /\ sent' # Absent
           /\ sent'.rows = sent.rows /\ sent'.done = sent.done
           /\ sent'.step = step /\ sent'.row = row
           /\ Object' = Object /\ Reported' = Reported
           /\ \A x : At(x)' <=> x = step
  <1>1. sent' = [sent EXCEPT !.step = step, !.row = row]
    BY DEF Step
  <1>2. sent' \in Request /\ sent' # Absent
    BY <1>1 DEF Request, Distinct
  <1>3. sent'.rows = sent.rows /\ sent'.done = sent.done /\ sent'.step = step /\ sent'.row = row
    BY <1>1 DEF Request
  <1> QED BY <1>2, <1>3 DEF Object, Reported, At

LEMMA Moved ==
    ASSUME Distinct, sent \in Request, sent.done < Len(sent.rows), NextRow
    PROVE  /\ sent' \in Request /\ sent' # Absent
           /\ sent'.rows = sent.rows /\ sent'.done = sent.done + 1
           /\ Steps' /\ \A o : ~Pending(o)'
  <1>1. sent' = Fresh(sent.rows, sent.done + 1)
    BY DEF NextRow
  <1>2. sent' \in Request /\ sent' # Absent
    BY <1>1 DEF Request, Distinct, Fresh
  <1>3. sent'.rows = sent.rows /\ sent'.done = sent.done + 1 /\ sent'.step = "host"
    BY <1>1 DEF Fresh
  <1> QED BY <1>2, <1>3 DEF Steps, Pending, At

(* What each step of the trapper preserves.                                *)
LEMMA RowKept ==
    ASSUME Distinct, Inv, sent # Absent, sent.done < Len(sent.rows),
           UNCHANGED <<zbx_process, pass, unsent, failures>>,
           sent' \in Request, sent' # Absent, sent'.rows = sent.rows,
           sent'.done \in {sent.done, sent.done + 1},
           dhost' \in Table \cup {Absent}, dservices' \in [Checks -> Table \cup {Absent}],
           history' \in [Checks \cup {Host} -> Seq(Event)]
    PROVE  /\ Types' /\ Sides'
           /\ ServicesThenHost => ServicesThenHost'
           /\ \A n : HostUpAfter(n) <=> HostUpAfter(n)'
  <1> USE DEF failures
  <1>1. Types'
    BY DEF Inv, Types
  <1>2. sent'.done <= Len(sent.rows)
    BY RowAt DEF Request
  <1>3. Sides'
    BY <1>2, RowAt DEF Inv, Sides
  <1>4. \A n : HostUpAfter(n) <=> HostUpAfter(n)'
    BY DEF HostUpAfter
  <1>5. ServicesThenHost => ServicesThenHost'
    BY <1>4 DEF ServicesThenHost
  <1> QED BY <1>1, <1>3, <1>4, <1>5

(* A row of a service changes nothing in what is to come of the host.      *)
LEMMA HostUpMoved ==
    ASSUME unsent \in Seq(HistoryRow), NEW d \in 1 .. Len(unsent), unsent[d].object # Host
    PROVE  HostUpAfter(d - 1) <=> HostUpAfter(d)
  <1>1. ASSUME HostUpAfter(d - 1) PROVE HostUpAfter(d)
    BY <1>1 DEF HostUpAfter
  <1>2. ASSUME HostUpAfter(d) PROVE HostUpAfter(d - 1)
    <2>1. \A k \in d .. Len(unsent) : k = d \/ k \in d + 1 .. Len(unsent)
      OBVIOUS
    <2>2. \A m \in d + 1 .. Len(unsent) : \A k \in d .. m - 1 : k = d \/ k \in d + 1 .. m - 1
      OBVIOUS
    <2> QED BY <1>2, <2>1, <2>2 DEF HostUpAfter
  <1> QED BY <1>1, <1>2

LEMMA HostMoved ==
    ASSUME Distinct, Inv, sent # Absent, sent.done < Len(sent.rows), Object # Host,
           UNCHANGED <<zbx_process, dhost, pass, unsent>>, history'[Host] = history[Host],
           sent' # Absent, sent'.done \in {sent.done, sent.done + 1}, NewUntilHost
    PROVE  NewUntilHost'
  <1> PICK d \in 1 .. Len(unsent) :
            d = sent.done + 1 /\ Object = unsent[d].object /\ Done = d - 1 /\ unsent \in Seq(HistoryRow)
    BY RowAt DEF Inv, Types, Request
  <1>1. Done' \in {d - 1, d}
    BY DEF Done
  <1>2. HostUpAfter(Done) => HostUpAfter(d - 1) /\ HostUpAfter(d)
    BY HostUpMoved
  <1>3. \A n : HostUpAfter(n) <=> HostUpAfter(n)'
    BY DEF HostUpAfter
  <1>4. HostUpAfter(Done) => HostUpAfter(Done)'
    BY <1>1, <1>2, <1>3
  <1> QED BY <1>4 DEF NewUntilHost

(* The host is in the table, or it is new and will be up at the end of the *)
(* pass.                                                                   *)
LEMMA RegisterHostInv == ASSUME Distinct, Inv, RegisterHost PROVE Inv'
  <1> DEFINE host == register_host(Reported)
  <1>1. /\ sent # Absent /\ sent.done < Len(sent.rows) /\ sent.step = "host"
        /\ dhost' = HostRow(Reported)
        /\ UNCHANGED <<zbx_process, dservices, history, pass, unsent, failures>>
    BY DEF RegisterHost, At, environment
  <1>2. sent \in Request /\ zbx_process = "proxy" /\ Object \in Checks \cup {Host}
    BY <1>1, RowAt
  <1>3. /\ NewRow \in Table /\ NewHostRow \in Table /\ Absent \notin Table
        /\ UpRow \in Table /\ DownRow \in Table
    BY DEF NewRow, NewHostRow, UpRow, DownRow, Table, UP, DOWN, Distinct
  <1>4. host \in Table \cup {Absent} /\ dhost' \in Table \cup {Absent}
    BY <1>1, <1>3 DEF Inv, Types, register_host, HostRow
  <1>5. \A c \in Checks : Follows(dservices[c], history[c], torn[c])
    BY <1>1 DEF Inv, Services, Pending, At
  <1>6. /\ dservices' \in [Checks -> Table \cup {Absent}]
        /\ history' \in [Checks \cup {Host} -> Seq(Event)] /\ torn' = torn /\ stops' = stops
    BY <1>1 DEF Inv, Types, failures
  <1>7. HostInTurn => NewUntilHost
    BY <1>1 DEF HostInTurn, Pending, At
  <1>8. dhost = Absent /\ NewUntilHost => history[Host] = <<>>
    BY <1>3 DEF NewUntilHost, Follows
  <1>9. ~(dhost = Absent /\ Reported = UP) => host = dhost /\ dhost' = dhost
    BY <1>1 DEF register_host, HostRow
  <1> PICK d \in 1 .. Len(unsent) :
            /\ d = sent.done + 1 /\ Object = unsent[d].object /\ Reported = unsent[d].status
            /\ Done = d - 1 /\ unsent \in Seq(HistoryRow) /\ (pass # Absent => pass.host = Absent)
    BY <1>1, RowAt DEF Inv, Types, Request
  <1>10. CASE host = Absent
    <2>1. NextRow /\ dhost = Absent /\ dhost' = dhost
      BY <1>1, <1>3, <1>9, <1>10 DEF RegisterHost, register_host
    <2>2. /\ sent' \in Request /\ sent' # Absent /\ sent'.rows = sent.rows /\ sent'.done = sent.done + 1
          /\ Steps' /\ \A o : ~Pending(o)'
      BY <2>1, <1>1, <1>2, Moved
    <2>3. Types' /\ Sides' /\ (ServicesThenHost => ServicesThenHost')
      BY <2>2, <1>1, <1>4, <1>6, RowKept
    <2>4. Services'
      BY <2>2, <1>1, <1>5, <1>6 DEF Services
    <2>5. HostInTurn => HostInTurn'
      BY <2>1, <2>2, <1>1, <1>3, <1>7 DEF HostInTurn, NewUntilHost
    <2> QED BY <2>2, <2>3, <2>4, <2>5, <1>6 DEF Inv
  <1>11. CASE host # Absent /\ Object = Host
    <2>1. Step("update", host)
      BY <1>11 DEF RegisterHost
    <2>2. /\ sent' \in Request /\ sent' # Absent /\ sent'.rows = sent.rows /\ sent'.done = sent.done
          /\ sent'.step = "update" /\ sent'.row = host
          /\ Object' = Host /\ Reported' = Reported /\ \A x : At(x)' <=> x = "update"
      <3> HIDE DEF host
      <3> QED BY <2>1, <1>1, <1>2, <1>4, <1>11, Stepped
    <2>3. Types' /\ Sides' /\ (ServicesThenHost => ServicesThenHost')
      BY <2>2, <1>1, <1>4, <1>6, RowKept
    <2>4. Steps'
      BY <2>2, <1>11 DEF Steps
    <2>5. Services'
      BY <2>2, <1>1, <1>5, <1>6 DEF Services, Pending, Distinct
    <2>6. ASSUME NewUntilHost PROVE HostPending'
      <3>1. CASE dhost = Absent /\ Reported = UP
        <4>1. host = NewRow
          BY <3>1 DEF register_host
        <4> QED BY <4>1, <3>1, <2>2, <2>6, <1>1, <1>8 DEF HostPending, Before
      <3>2. CASE ~(dhost = Absent /\ Reported = UP)
        <4>1. HostUpAfter(Done) => Reported = UP
          <5>1. Len(unsent) \in Nat /\ unsent[d].object = Host /\ Done + 1 = d
            BY <1>11
          <5>2. ASSUME NEW m \in d .. Len(unsent), \A k \in d .. m - 1 : unsent[k].object # Host
                PROVE  m = d
            <6>1. m # d => d \in d .. m - 1
              BY <5>1
            <6> QED BY <6>1, <5>1, <5>2
          <5>3. d \in d .. Len(unsent)
            BY <5>1
          <5>4. ~ \A k \in d .. Len(unsent) : unsent[k].object # Host
            BY <5>1, <5>3
          <5> QED BY <5>1, <5>2, <5>4 DEF HostUpAfter
        <4>2. Before(dhost, Reported, history[Host], {}, {NewRow, NewHostRow})
          BY <4>1, <2>6, <1>2 DEF Before, NewUntilHost
        <4> QED BY <4>2, <3>2, <2>2, <1>1, <1>9 DEF HostPending
      <3> QED BY <3>1, <3>2
    <2>7. HostInTurn => HostInTurn'
      BY <2>2, <2>6, <1>7 DEF HostInTurn, Pending
    <2> QED BY <2>3, <2>4, <2>5, <2>7, <1>6 DEF Inv
  <1>12. CASE host # Absent /\ Object # Host
    <2>1. Step("service", Absent)
      BY <1>12 DEF RegisterHost
    <2>2. /\ sent' \in Request /\ sent' # Absent /\ sent'.rows = sent.rows /\ sent'.done = sent.done
          /\ sent'.step = "service"
          /\ Object' = Object /\ Reported' = Reported /\ \A x : At(x)' <=> x = "service"
      BY <2>1, <1>1, <1>2, Stepped
    <2>3. /\ Types' /\ Sides' /\ (ServicesThenHost => ServicesThenHost')
          /\ \A n : HostUpAfter(n) <=> HostUpAfter(n)'
      BY <2>2, <1>1, <1>4, <1>6, RowKept
    <2>4. Steps' /\ \A o : ~Pending(o)'
      BY <2>2, <1>12 DEF Steps, Pending
    <2>5. Services'
      BY <2>4, <1>1, <1>5, <1>6 DEF Services
    <2>6. ASSUME ServicesThenHost, NewUntilHost PROVE NewUntilHost'
      <3>1. CASE dhost = Absent /\ Reported = UP
        <4>1. HostUpAfter(d)
          BY <2>6, <3>1, <1>12 DEF ServicesThenHost
        <4>2. HostUpAfter(d - 1)
          BY <4>1, <1>12, HostUpMoved
        <4>3. Done' = d - 1 /\ dhost' = NewHostRow
          BY <2>2, <3>1, <1>1 DEF Done, HostRow
        <4> QED BY <4>2, <4>3, <3>1, <2>3, <2>6, <1>1, <1>2, <1>8 DEF NewUntilHost
      <3>2. CASE ~(dhost = Absent /\ Reported = UP)
        BY <3>2, <2>2, <2>6, <1>1, <1>9, <1>12, HostMoved
      <3> QED BY <3>1, <3>2
    <2>7. ServicesThenHost /\ HostInTurn => HostInTurn'
      BY <2>4, <2>6, <1>7 DEF HostInTurn
    <2> QED BY <2>3, <2>4, <2>5, <2>7, <1>6 DEF Inv
  <1> QED BY <1>10, <1>11, <1>12

(* The service of the row is in the table.                                 *)
LEMMA RegisterServiceInv == ASSUME Distinct, Inv, RegisterService PROVE Inv'
  <1> DEFINE service == register_service(Object, Reported)
  <1>1. /\ sent # Absent /\ sent.done < Len(sent.rows) /\ sent.step = "service" /\ At("service")
        /\ dservices' = [dservices EXCEPT ![Object] = service]
        /\ UNCHANGED <<zbx_process, dhost, history, pass, unsent, failures>>
    BY DEF RegisterService, At, environment
  <1>2. sent \in Request /\ Object \in Checks
    BY <1>1, RowAt DEF Inv, Steps
  <1> PICK c \in Checks : c = Object
    BY <1>2
  <1>3. \A b \in Checks : Follows(dservices[b], history[b], torn[b])
    BY <1>1 DEF Inv, Services, Pending, At
  <1>4. service \in Table \cup {Absent}
    BY <1>2 DEF Inv, Types, register_service, NewRow, Table, UP, DOWN
  <1>5. /\ dservices' \in [Checks -> Table \cup {Absent}] /\ dservices'[c] = service
        /\ \A b \in Checks \ {c} : dservices'[b] = dservices[b]
        /\ dhost' \in Table \cup {Absent} /\ history' \in [Checks \cup {Host} -> Seq(Event)]
        /\ torn' = torn /\ stops' = stops /\ history' = history
    BY <1>1, <1>2, <1>4 DEF Inv, Types, failures
  <1>6. HostInTurn => NewUntilHost
    BY <1>1 DEF HostInTurn, Pending, At
  <1>7. c # Host
    BY DEF Distinct
  <1>8. CASE service = Absent
    <2>1. NextRow
      BY <1>8 DEF RegisterService
    <2>2. /\ sent' \in Request /\ sent' # Absent /\ sent'.rows = sent.rows /\ sent'.done = sent.done + 1
          /\ Steps' /\ \A o : ~Pending(o)'
      BY <2>1, <1>1, <1>2, Moved
    <2>3. Types' /\ Sides' /\ (ServicesThenHost => ServicesThenHost')
      BY <2>2, <1>1, <1>5, RowKept
    <2>4. dservices'[c] = dservices[c]
      BY <1>5, <1>8 DEF register_service
    <2>5. Services'
      BY <2>2, <2>4, <1>3, <1>5 DEF Services
    <2>6. HostInTurn => HostInTurn'
      BY <2>2, <1>1, <1>5, <1>6, <1>7, HostMoved DEF HostInTurn
    <2> QED BY <2>2, <2>3, <2>5, <2>6, <1>5 DEF Inv
  <1>9. CASE service # Absent
    <2>1. Step("update", service)
      BY <1>9 DEF RegisterService
    <2>2. /\ sent' \in Request /\ sent' # Absent /\ sent'.rows = sent.rows /\ sent'.done = sent.done
          /\ sent'.step = "update" /\ sent'.row = service
          /\ Object' = c /\ Reported' = Reported /\ \A x : At(x)' <=> x = "update"
      <3> HIDE DEF service
      <3> QED BY <2>1, <1>1, <1>2, <1>4, Stepped
    <2>3. Types' /\ Sides' /\ (ServicesThenHost => ServicesThenHost')
      BY <2>2, <1>1, <1>5, RowKept
    <2>4. Steps' /\ \A o : Pending(o)' <=> o = c
      BY <2>2, <1>9 DEF Steps, Pending
    <2>5. service \in Table /\ Before(service, Reported, history[c], torn[c], {NewRow})
      BY <1>3, <1>9, Registered DEF Inv
    <2>6. Services'
      <3> HIDE DEF service
      <3> QED BY <2>2, <2>4, <2>5, <1>3, <1>5 DEF Services
    <2>7. HostInTurn => HostInTurn'
      BY <2>2, <2>4, <1>1, <1>5, <1>6, <1>7, HostMoved DEF HostInTurn
    <2> QED BY <2>3, <2>4, <2>6, <2>7, <1>5 DEF Inv
  <1> QED BY <1>8, <1>9

(* The row is as it is reported, and the event is to come.                 *)
LEMMA UpdateRowInv == ASSUME Distinct, Inv, UpdateRow PROVE Inv'
  <1> DEFINE changes == Changes(sent.row, Reported)
             row == Updated(sent.row, Reported)
  <1>1. /\ sent # Absent /\ sent.done < Len(sent.rows) /\ sent.step = "update" /\ At("update")
        /\ UNCHANGED <<zbx_process, history, pass, unsent, failures>>
    BY DEF UpdateRow, At, environment
  <1>2. /\ sent \in Request /\ sent.row \in Table /\ Object \in Checks \cup {Host}
        /\ zbx_process = "proxy" /\ (pass # Absent => pass.host = Absent)
    BY <1>1, RowAt DEF Inv, Steps, Request
  <1>3. \A o : Pending(o) <=> o = Object
    BY <1>1 DEF Pending
  <1>4. /\ dhost \in Table \cup {Absent} /\ dservices \in [Checks -> Table \cup {Absent}]
        /\ history \in [Checks \cup {Host} -> Seq(Event)] /\ torn \in [Checks \cup {Host} -> SUBSET Nat]
        /\ torn' = torn /\ stops' = stops
    BY <1>1 DEF Inv, Types, failures
  <1>5. changes => row \in Table
    BY DEF Changes, Updated, Discovered, Lost, Table
  <1>6. Object \in Checks =>
          /\ Before(sent.row, Reported, history[Object], torn[Object], {NewRow})
          /\ dservices[Object] = sent.row
    BY <1>1, <1>3 DEF Inv, Services
  <1>7. Host \notin Checks
    BY DEF Distinct
  <1>8. CASE changes
    <2>1. /\ Step("event", sent.row)
          /\ Object = Host => dhost' = row /\ dservices' = dservices
          /\ Object # Host => dhost' = dhost /\ dservices' = [dservices EXCEPT ![Object] = row]
      BY <1>8 DEF UpdateRow, Changes
    <2>2. /\ sent' \in Request /\ sent' # Absent /\ sent'.rows = sent.rows /\ sent'.done = sent.done
          /\ sent'.step = "event" /\ sent'.row = sent.row
          /\ Object' = Object /\ Reported' = Reported /\ \A x : At(x)' <=> x = "event"
      BY <2>1, <1>1, <1>2, Stepped
    <2>3. dhost' \in Table \cup {Absent} /\ dservices' \in [Checks -> Table \cup {Absent}]
      <3> HIDE DEF row
      <3> QED BY <2>1, <1>2, <1>4, <1>5, <1>8
    <2>4. Types' /\ Sides' /\ (ServicesThenHost => ServicesThenHost')
      BY <2>2, <2>3, <1>1, <1>4, RowKept
    <2>5. Steps' /\ \A o : Pending(o)' <=> o = Object
      BY <2>2, <1>2 DEF Steps, Pending, Distinct
    <2>6. ASSUME NEW b \in Checks, b # Object PROVE Follows(dservices'[b], history'[b], torn'[b])
      <3>1. Follows(dservices[b], history[b], torn[b])
        BY <2>6, <1>3 DEF Inv, Services
      <3>2. dservices'[b] = dservices[b]
        BY <2>1, <2>6, <1>4
      <3> QED BY <3>1, <3>2, <1>1, <1>4
    <2>7. Object \in Checks => dservices'[Object] = row
      BY <2>1, <1>4, <1>7
    <2>8. ASSUME NEW b \in Checks, b = Object
          PROVE  /\ sent'.row \in Table
                 /\ Before(sent'.row, Reported', history'[b], torn'[b], {NewRow})
                 /\ sent'.step # "update"
                 /\ Changes(sent'.row, Reported') /\ dservices'[b] = Updated(sent'.row, Reported')
      BY <2>2, <2>7, <2>8, <1>1, <1>2, <1>4, <1>6, <1>8
    <2>9. Services'
      BY <2>5, <2>6, <2>8 DEF Services
    <2>10. HostInTurn => HostInTurn'
      <3>1. CASE Object = Host
        BY <3>1, <2>1, <2>2, <2>5, <1>1, <1>3, <1>8 DEF HostInTurn, HostPending
      <3>2. CASE Object # Host
        BY <3>2, <2>1, <2>2, <2>5, <1>1, <1>3, HostMoved DEF HostInTurn
      <3> QED BY <3>1, <3>2
    <2> QED BY <2>4, <2>5, <2>9, <2>10, <1>4 DEF Inv
  <1>9. CASE ~changes
    <2>1. NextRow /\ dhost' = dhost /\ dservices' = dservices
      BY <1>9 DEF UpdateRow, Changes
    <2>2. /\ sent' \in Request /\ sent' # Absent /\ sent'.rows = sent.rows /\ sent'.done = sent.done + 1
          /\ Steps' /\ \A o : ~Pending(o)'
      BY <2>1, <1>1, <1>2, Moved
    <2>3. Types' /\ Sides' /\ (ServicesThenHost => ServicesThenHost')
      BY <2>1, <2>2, <1>1, <1>4, RowKept
    <2>4. ASSUME NEW b \in Checks PROVE Follows(dservices[b], history[b], torn[b])
      <3>1. CASE b = Object
        BY <3>1, <1>6, <1>9 DEF Before, Changes, Discovered, NewRow
      <3>2. CASE b # Object
        BY <3>2, <1>3 DEF Inv, Services
      <3> QED BY <3>1, <3>2
    <2>5. Services'
      BY <2>1, <2>2, <2>4, <1>1, <1>4 DEF Services
    <2>6. HostInTurn => HostInTurn'
      <3>1. CASE Object = Host
        <4>1. HostInTurn => Follows(dhost, history[Host], {})
          BY <3>1, <1>1, <1>3, <1>9 DEF HostInTurn, HostPending, Before, Changes, Discovered, NewRow, NewHostRow
        <4> QED BY <4>1, <2>1, <2>2, <1>1, <1>2 DEF HostInTurn, NewUntilHost
      <3>2. CASE Object # Host
        BY <3>2, <2>1, <2>2, <1>1, <1>3, HostMoved DEF HostInTurn
      <3> QED BY <3>1, <3>2
    <2> QED BY <2>2, <2>3, <2>5, <2>6, <1>4 DEF Inv
  <1> QED BY <1>8, <1>9

(* The row follows its events again.                                       *)
LEMMA AddEventInv == ASSUME Distinct, Inv, AddEvent PROVE Inv'
  <1> DEFINE e == EventsAfter(history[Object], sent.row, Reported)
             row == Updated(sent.row, Reported)
  <1>1. /\ sent # Absent /\ sent.done < Len(sent.rows) /\ sent.step = "event" /\ At("event")
        /\ history' = [history EXCEPT ![Object] = e] /\ NextRow
        /\ UNCHANGED <<zbx_process, dhost, dservices, pass, unsent, failures>>
    BY DEF AddEvent, At, environment
  <1>2. /\ sent \in Request /\ sent.row \in Table /\ Object \in Checks \cup {Host}
        /\ zbx_process = "proxy" /\ (pass # Absent => pass.host = Absent)
    BY <1>1, RowAt DEF Inv, Steps, Request
  <1>3. \A o : Pending(o) <=> o = Object
    BY <1>1 DEF Pending
  <1>4. /\ dhost \in Table \cup {Absent} /\ dservices \in [Checks -> Table \cup {Absent}]
        /\ history \in [Checks \cup {Host} -> Seq(Event)] /\ torn \in [Checks \cup {Host} -> SUBSET Nat]
        /\ torn' = torn /\ stops' = stops
    BY <1>1 DEF Inv, Types, failures
  <1>5. e \in Seq(Event)
    BY <1>2, <1>4 DEF EventsAfter, Event
  <1>6. /\ history' \in [Checks \cup {Host} -> Seq(Event)] /\ history'[Object] = e
        /\ \A o \in (Checks \cup {Host}) \ {Object} : history'[o] = history[o]
    <2> HIDE DEF e
    <2> QED BY <1>1, <1>2, <1>4, <1>5
  <1>7. Host \notin Checks
    BY DEF Distinct
  <1>8. /\ sent' \in Request /\ sent' # Absent /\ sent'.rows = sent.rows /\ sent'.done = sent.done + 1
        /\ Steps' /\ \A o : ~Pending(o)'
    BY <1>1, <1>2, Moved
  <1>9. Types' /\ Sides' /\ (ServicesThenHost => ServicesThenHost')
    BY <1>1, <1>4, <1>6, <1>8, RowKept
  <1>10. ASSUME NEW tears \in SUBSET Nat, Before(sent.row, Reported, history[Object], tears, {NewRow, NewHostRow})
         PROVE  Follows(row, e, tears)
    BY <1>2, <1>4, <1>10, Followed
  <1> HIDE DEF e
  <1>11. ASSUME NEW b \in Checks PROVE Follows(dservices'[b], history'[b], torn'[b])
    <2>1. CASE b = Object
      <3>1. /\ Before(sent.row, Reported, history[b], torn[b], {NewRow})
            /\ dservices[b] = row
        BY <2>1, <1>1, <1>3 DEF Inv, Services
      <3>2. Before(sent.row, Reported, history[b], torn[b], {NewRow, NewHostRow})
        BY <3>1 DEF Before
      <3>3. torn[b] \in SUBSET Nat
        BY <1>4
      <3>4. Follows(row, e, torn[b])
        BY <3>2, <3>3, <2>1, <1>10
      <3> QED BY <3>1, <3>4, <2>1, <1>1, <1>4, <1>6
    <2>2. CASE b # Object
      BY <2>2, <1>1, <1>3, <1>4, <1>6 DEF Inv, Services
    <2> QED BY <2>1, <2>2
  <1>12. Services'
    BY <1>8, <1>11 DEF Services
  <1>13. HostInTurn => HostInTurn'
    <2>1. CASE Object = Host
      <3>1. ASSUME HostPending PROVE Follows(dhost', history'[Host], {})
        BY <3>1, <2>1, <1>1, <1>6, <1>10 DEF HostPending
      <3> QED BY <3>1, <2>1, <1>1, <1>2, <1>3, <1>8 DEF HostInTurn, NewUntilHost
    <2>2. CASE Object # Host
      <3>1. history'[Host] = history[Host]
        BY <2>2, <1>6
      <3> QED BY <3>1, <2>2, <1>1, <1>3, <1>8, HostMoved DEF HostInTurn
    <2> QED BY <2>1, <2>2
  <1> QED BY <1>4, <1>8, <1>9, <1>12, <1>13 DEF Inv

LEMMA ProcessRowInv == ASSUME Distinct, Inv, ProcessRow PROVE Inv'
  BY RegisterHostInv, RegisterServiceInv, UpdateRowInv, AddEventInv DEF ProcessRow

LEMMA Shorter ==
    ASSUME NEW S, NEW s \in Seq(S), NEW d \in Nat, d <= Len(s)
    PROVE  /\ Len(SubSeq(s, d + 1, Len(s))) = Len(s) - d
           /\ \A k \in 1 .. Len(s) - d : SubSeq(s, d + 1, Len(s))[k] = s[k + d]
  OBVIOUS

(* The rows of the request are gone, and the others stay.                  *)
LEMMA AcknowledgeInv == ASSUME Distinct, Inv, Acknowledge PROVE Inv'
  <1> USE DEF environment, failures
  <1>1. /\ sent \in Request /\ sent # Absent /\ sent.done = Len(sent.rows)
        /\ unsent \in Seq(HistoryRow)
    BY DEF Acknowledge, Inv, Types
  <1> PICK d \in Nat : d = Len(sent.rows)
    BY <1>1 DEF Request
  <1>2. d <= Len(unsent) /\ Done = d
    BY <1>1 DEF Inv, Sides, Done
  <1>3. /\ unsent' = SubSeq(unsent, d + 1, Len(unsent)) /\ sent' = Absent
        /\ UNCHANGED <<zbx_process, tables, pass, failures>>
    BY DEF Acknowledge, AfterRequest
  <1>4. /\ unsent' \in Seq(HistoryRow) /\ Len(unsent') = Len(unsent) - d
        /\ \A k \in 1 .. Len(unsent) - d : unsent'[k] = unsent[k + d]
    <2>1. Len(unsent') = Len(unsent) - d /\ \A k \in 1 .. Len(unsent) - d : unsent'[k] = unsent[k + d]
      BY <1>1, <1>2, <1>3, Shorter
    <2>2. unsent' \in Seq(HistoryRow)
      BY <1>1, <1>2, <1>3, SubSeqProperties
    <2> QED BY <2>1, <2>2
  <1>5. Types'
    BY <1>3, <1>4 DEF Inv, Types, tables
  <1>6. zbx_process = "proxy"
    BY <1>1 DEF Inv, Sides, Types
  <1>7. /\ \A o : ~Pending(o) /\ ~Pending(o)'
        /\ Sides' /\ Steps' /\ Services'
    <2>1. \A o : ~Pending(o) /\ ~Pending(o)'
      BY <1>1, <1>3 DEF Pending, At, Request
    <2> QED BY <1>3, <1>6, <2>1, NoRequestThen DEF Inv, Sides, Services, tables
  <1>8. ASSUME NEW n \in Nat, d + n <= Len(unsent), HostUpAfter(d + n) PROVE HostUpAfter(n)'
    BY <1>3, <1>8, HostUpShifted DEF Inv
  <1>9. ASSUME ServicesThenHost PROVE ServicesThenHost'
    <2> SUFFICES ASSUME NEW n \in 1 .. Len(unsent'), unsent'[n].object # Host, unsent'[n].status = UP
                 PROVE  HostUpAfter(n)'
      BY DEF ServicesThenHost
    <2>1. unsent'[n] = unsent[d + n] /\ d + n \in 1 .. Len(unsent)
      BY <1>1, <1>4
    <2>2. HostUpAfter(d + n)
      BY <2>1, <1>9 DEF ServicesThenHost
    <2> QED BY <2>1, <2>2, <1>8
  <1>10. ASSUME NewUntilHost PROVE NewUntilHost'
    <2>1. Done' = 0
      BY <1>3 DEF Done
    <2>2. ASSUME HostUpAfter(Done) PROVE HostUpAfter(Done)'
      <3>1. HostUpAfter(d + 0)
        BY <2>2, <1>2
      <3>2. HostUpAfter(0)'
        BY <3>1, <1>2, <1>8
      <3> QED BY <3>2, <2>1
    <2> QED BY <2>2, <1>3, <1>10 DEF NewUntilHost, tables
  <1>11. HostInTurn => HostInTurn'
    BY <1>7, <1>10 DEF HostInTurn
  <1> QED BY <1>3, <1>5, <1>7, <1>9, <1>11 DEF Inv

(* A half-written row is torn from its events.                             *)
LEMMA RequestFailsInv == ASSUME Distinct, Inv, RequestFails PROVE Inv'
  <1>1. /\ sent' = Absent /\ stops' = stops + 1
        /\ torn' = IF HalfWritten THEN [torn EXCEPT ![Object] = torn[Object] \cup {Len(history[Object])}] ELSE torn
        /\ UNCHANGED <<zbx_process, tables, pass, unsent>>
    BY DEF RequestFails, environment
  <1>2. HalfWritten => Object \in Checks \cup {Host}
    BY RowAt DEF HalfWritten, At
  <1>3. torn' \in [Checks \cup {Host} -> SUBSET Nat] /\ stops' \in Nat /\ stops' # 0
    <2>1. HalfWritten => Len(history[Object]) \in Nat
      BY <1>2 DEF Inv, Types
    <2>2. stops \in Nat /\ torn \in [Checks \cup {Host} -> SUBSET Nat]
      BY DEF Inv, Types
    <2>3. HalfWritten => torn[Object] \cup {Len(history[Object])} \in SUBSET Nat
      BY <2>1, <2>2, <1>2
    <2>4. torn' \in [Checks \cup {Host} -> SUBSET Nat]
      BY <2>2, <2>3, <1>1, <1>2
    <2> QED BY <2>2, <2>4, <1>1
  <1>4. Types' /\ Sides' /\ Steps' /\ \A o : ~Pending(o)'
    BY <1>1, <1>3 DEF Inv, Types, Sides, Steps, Pending, At, tables
  <1>5. ASSUME NEW c \in Checks PROVE Follows(dservices[c], history[c], torn'[c])
    <2>1. CASE HalfWritten /\ Object = c
      <3>1. torn'[c] = torn[c] \cup {Len(history[c])}
        BY <2>1, <1>1 DEF Inv, Types
      <3>2. Pending(c)
        BY <2>1 DEF HalfWritten, Pending
      <3>3. InTurn(history[c], torn[c])
        BY <3>2 DEF Inv, Services, Before, Follows, InTurn
      <3> QED BY <3>1, <3>3 DEF Follows, InTurn
    <2>2. CASE ~(HalfWritten /\ Object = c)
      <3>1. torn'[c] = torn[c]
        BY <2>2, <1>1, <1>2 DEF Inv, Types
      <3>2. CASE Pending(c)
        <4>1. At("update") /\ sent.row # NewRow
          BY <3>2, <2>2 DEF HalfWritten, Pending
        <4> QED BY <4>1, <3>1, <3>2 DEF Inv, Services, Before, At
      <3>3. CASE ~Pending(c)
        BY <3>1, <3>3 DEF Inv, Services
      <3> QED BY <3>2, <3>3
    <2> QED BY <2>1, <2>2
  <1>6. Services'
    BY <1>1, <1>4, <1>5 DEF Services, tables
  <1> QED BY <1>3, <1>4, <1>6 DEF Inv

(* After a process was stopped nothing is said of the host.                *)
LEMMA StopDiscovererInv == ASSUME Distinct, Inv, StopDiscoverer PROVE Inv'
  <1>1. /\ pass' = Absent /\ stops' = stops + 1
        /\ UNCHANGED <<zbx_process, tables, unsent, sent, torn>>
    BY DEF StopDiscoverer, environment, sending
  <1>2. stops' \in Nat /\ stops' # 0
    BY <1>1 DEF Inv, Types
  <1>3. Types' /\ Sides'
    BY <1>1, <1>2 DEF Inv, Types, Sides, tables
  <1> QED BY <1>1, <1>2, <1>3, SameServices DEF Inv

LEMMA NextInv == ASSUME Distinct, Inv, [DiscoveryNext]_discoveryVars PROVE Inv'
  <1>1. CASE Flip
    BY <1>1, SameRows DEF Flip, sending
  <1>2. CASE Discover
    BY <1>2, BeginPassInv, CheckInv, EndPassInv DEF Discover
  <1>3. CASE Deliver
    BY <1>3, SenderInv, ProcessRowInv, AcknowledgeInv DEF Deliver
  <1>4. CASE RequestFails \/ StopDiscoverer
    BY <1>4, RequestFailsInv, StopDiscovererInv
  <1>5. CASE UNCHANGED discoveryVars
    BY <1>5, SameRows DEF discoveryVars, environment, sending
  <1> QED BY <1>1, <1>2, <1>3, <1>4, <1>5 DEF DiscoveryNext

(* Whatever the network does and however often rows are sent again, the    *)
(* discovery actions (events.c, actions.c) see every service discovered    *)
(* and lost in turn: only the event after a trapper was stopped with a     *)
(* half-written row of that service may repeat the one before it.  They    *)
(* see the host in turn unless a process was stopped.                      *)
THEOREM DiscoveredInTurn == ASSUME Distinct PROVE DiscoverySpec => []DiscoveredAndLost
  <1>1. DiscoveryInit => Inv
    BY InitInv
  <1>2. Inv /\ [DiscoveryNext]_discoveryVars => Inv'
    BY NextInv
  <1>3. Inv => DiscoveredAndLost
    <2>1. ASSUME Inv, stops = 0 PROVE InTurn(history[Host], {})
      BY <2>1 DEF Inv, HostInTurn, HostPending, NewUntilHost, Before, Follows, InTurn
    <2>2. ASSUME Inv, NEW c \in Checks PROVE InTurn(history[c], torn[c])
      BY <2>2 DEF Inv, Services, Before, Follows, InTurn
    <2> QED BY <2>1, <2>2 DEF DiscoveredAndLost
  <1> QED BY <1>1, <1>2, <1>3, PTL DEF DiscoverySpec
=============================================================================
