---------------------------- MODULE ActiveChecks ----------------------------
(***************************************************************************)
(* Active checks of log files: one thread of the agent                     *)
(* (src/zabbix_agent/active.c) reads lines (logfiles.c), keeps the matching *)
(* ones in a buffer and sends the buffer to a trapper                      *)
(* (src/zabbix_server/trapper/trapper.c), which stores the values and, with *)
(* them, how far each log was read.  An agent that starts gets that        *)
(* position back with the list of its checks (trapper/active.c).           *)
(*                                                                         *)
(* The agent waits while it sends; when it gives up, the trapper may still *)
(* have the request.  A server that stops with the request half done       *)
(* closes the connection, and the agent reads an empty answer.             *)
(***************************************************************************)
EXTENDS Integers, Sequences

CONSTANTS
    Items,              \* the log[] items of the host
    Matches,            \* the lines of each item's file that match its pattern
    CONFIG_BUFFER_SIZE,
    None,
    MaxLines, MaxFaults \* bounds

VARIABLES
    file,               \* the lines of each log file, numbered as written
    written,            \* how many were written
    truncated,          \* items whose file was truncated
    metrics,            \* active_metrics: position and status, None when absent
    buffer,
    pending,            \* the value that process_value was called with, or None
    tried,              \* it has called send_buffer
    request,            \* what send_buffer waits for: [values, done], or None
    late,               \* requests the agent gave up that are still at a trapper
    received,           \* the values that came to process_mass_data, in order
    dropped, refused,   \* lines overwritten in a full buffer, or freed with it
                        \* although the server did not take them
    faults

logs == <<file, written, truncated>>
agent == <<metrics, buffer, pending, tried>>
server == <<late, received>>
lost == <<dropped, refused>>
vars == <<logs, agent, request, server, lost, faults>>

Init ==
    /\ file = [i \in Items |-> <<>>]
    /\ written = [i \in Items |-> 0]
    /\ truncated = {}
    /\ metrics = [i \in Items |-> None]
    /\ buffer = <<>> /\ pending = None /\ tried = FALSE
    /\ request = None
    /\ late = {}
    /\ received = <<>>
    /\ dropped = [i \in Items |-> {}] /\ refused = [i \in Items |-> {}]
    /\ faults = 0

Fault == faults < MaxFaults /\ faults' = faults + 1

Idle == pending = None /\ request = None

Lines(values, i) == {values[k].line : k \in {n \in 1 .. Len(values) : values[n].item = i}} \ {None}

-----------------------------------------------------------------------------
(* The logs, written by other programs.                                    *)
WriteLine(i) ==
    /\ written[i] < MaxLines
    /\ written' = [written EXCEPT ![i] = @ + 1]
    /\ file' = [file EXCEPT ![i] = Append(@, written[i] + 1)]
    /\ UNCHANGED <<truncated, agent, request, server, lost, faults>>

Truncate(i) ==
    /\ Fault
    /\ file[i] # <<>>
    /\ file' = [file EXCEPT ![i] = <<>>]
    /\ truncated' = truncated \cup {i}
    /\ UNCHANGED <<written, agent, request, server, lost>>

-----------------------------------------------------------------------------
(* refresh_active_checks and parse_list_of_checks.                         *)

(* Mutant: an item that the agent knows stays disabled.                    *)
add_checkDisabled(metric, lastlogsize) ==
    IF metric = None THEN [lastlogsize |-> lastlogsize, status |-> "active"] ELSE metric

(* Mutant: takes the position of the server for an item it knows.          *)
add_checkPosition(metric, lastlogsize) == [lastlogsize |-> lastlogsize, status |-> "active"]

add_check(metric, lastlogsize) ==
    IF metric = None THEN [lastlogsize |-> lastlogsize, status |-> "active"]
                     ELSE [metric EXCEPT !.status = "active"]

(* items.lastlogsize after the first k values: the others wait in the      *)
(* history cache.  "ZBX_NOTSUPPORTED" is not stored.                       *)
Position(i, k) ==
    LET K == {n \in 1 .. k : received[n].item = i /\ received[n].line # None}
    IN  IF K = {} THEN 0 ELSE received[CHOOSE n \in K : \A m \in K : m <= n].lastlogsize

RefreshChecks ==
    /\ Idle
    /\ \E k \in [Items -> 0 .. Len(received)] :
          metrics' = [i \in Items |-> add_check(metrics[i], Position(i, k[i]))]
    /\ UNCHANGED <<logs, buffer, pending, tried, request, server, lost, faults>>

(* The answer is no list of checks.                                        *)
disable_all_metrics ==
    /\ Idle
    /\ Fault
    /\ metrics' = [i \in Items |-> IF metrics[i] = None THEN None
                                   ELSE [metrics[i] EXCEPT !.status = "notsupported"]]
    /\ UNCHANGED <<logs, buffer, pending, tried, request, server, lost>>

-----------------------------------------------------------------------------
(* process_active_checks: the next line of a log, from the start when the  *)
(* file is shorter than it was.                                            *)
ProcessLog(i) ==
    /\ Idle
    /\ metrics[i] # None
    /\ metrics[i].status = "active"
    /\ LET at == IF Len(file[i]) < metrics[i].lastlogsize THEN 0 ELSE metrics[i].lastlogsize
           Passed(n) == [metrics EXCEPT ![i].lastlogsize = n]
       IN  IF at = Len(file[i])
           THEN metrics' = Passed(at) /\ UNCHANGED pending
           ELSE IF file[i][at + 1] \in Matches[i]
           THEN /\ pending' = [item |-> i, line |-> file[i][at + 1], lastlogsize |-> at + 1]
                /\ UNCHANGED metrics
           ELSE metrics' = Passed(at + 1) /\ UNCHANGED pending
    /\ UNCHANGED <<logs, buffer, tried, request, server, lost, faults>>

(* The file cannot be read: "ZBX_NOTSUPPORTED" is the value.               *)
ProcessLogFails(i) ==
    /\ Idle
    /\ metrics[i] # None
    /\ metrics[i].status = "active"
    /\ Fault
    /\ metrics' = [metrics EXCEPT ![i].status = "notsupported"]
    /\ pending' = [item |-> i, line |-> None, lastlogsize |-> metrics[i].lastlogsize]
    /\ UNCHANGED <<logs, buffer, tried, request, server, lost>>

(* The rest of process_value: a value more, the oldest one overwritten     *)
(* when the buffer is full.  send_buffer was called, and may have found    *)
(* that it is not time to send unless the buffer is full.                  *)
process_value ==
    /\ pending # None
    /\ request = None
    /\ tried \/ Len(buffer) < CONFIG_BUFFER_SIZE
    /\ IF Len(buffer) < CONFIG_BUFFER_SIZE
       THEN buffer' = Append(buffer, pending) /\ UNCHANGED dropped
       ELSE /\ buffer' = Append(Tail(buffer), pending)
            /\ dropped' = [dropped EXCEPT ![buffer[1].item] = @ \cup ({buffer[1].line} \ {None})]
    /\ metrics' = [metrics EXCEPT ![pending.item].lastlogsize = pending.lastlogsize]
    /\ pending' = None /\ tried' = FALSE
    /\ UNCHANGED <<logs, request, server, refused, faults>>

-----------------------------------------------------------------------------
(* send_buffer, called by process_value and by the thread itself.          *)
MaySend == request = None /\ buffer # <<>> /\ ~tried

send_buffer ==
    /\ MaySend
    /\ request' = [values |-> buffer, done |-> FALSE]
    /\ UNCHANGED <<logs, agent, server, lost, faults>>

(* Mutant: the buffer is freed whatever the result.                        *)
BufferAfterFailureFreed(b) == <<>>

BufferAfterFailure(b) == b

(* No connection.                                                          *)
SendFails ==
    /\ MaySend
    /\ Fault
    /\ tried' = (pending # None)
    /\ buffer' = BufferAfterFailure(buffer)
    /\ UNCHANGED <<logs, metrics, pending, request, server, lost>>

Abandoned == IF request # None /\ ~request.done
             THEN late \cup {[values |-> request.values, id |-> faults]} ELSE late

(* The answer does not come in time, or is lost.                           *)
GiveUp ==
    /\ request # None
    /\ Fault
    /\ late' = Abandoned
    /\ request' = None
    /\ tried' = (pending # None)
    /\ buffer' = BufferAfterFailure(buffer)
    /\ UNCHANGED <<logs, metrics, pending, received, lost>>

(* zbx_tcp_recv succeeds: check_response looks at the answer, and its      *)
(* result only goes to the log.                                            *)
FreeBuffer ==
    /\ request' = None
    /\ tried' = (pending # None)
    /\ buffer' = <<>>
    /\ UNCHANGED <<logs, metrics, pending, server, dropped>>

Answered ==
    /\ request # None
    /\ request.done
    /\ FreeBuffer
    /\ UNCHANGED <<refused, faults>>

(* The server stops after it has read the request.                         *)
ClosedUnanswered ==
    /\ request # None
    /\ Fault
    /\ FreeBuffer
    /\ refused' = IF request.done THEN refused
                  ELSE [i \in Items |-> refused[i] \cup Lines(request.values, i)]

-----------------------------------------------------------------------------
(* process_new_values and process_mass_data.                               *)
process_new_values ==
    /\ request # None
    /\ ~request.done
    /\ received' = received \o request.values
    /\ request' = [request EXCEPT !.done = TRUE]
    /\ UNCHANGED <<logs, agent, late, lost, faults>>

ProcessLate ==
    /\ \E r \in late :
          /\ received' = received \o r.values
          /\ late' = late \ {r}
    /\ UNCHANGED <<logs, agent, request, lost, faults>>

(* The agent is stopped and started: everything it had in memory is gone.  *)
RestartAgent ==
    /\ Fault
    /\ metrics' = [i \in Items |-> None]
    /\ buffer' = <<>> /\ pending' = None /\ tried' = FALSE
    /\ late' = Abandoned
    /\ request' = None
    /\ UNCHANGED <<logs, received, lost>>

Next ==
    \/ \E i \in Items : WriteLine(i) \/ Truncate(i) \/ ProcessLog(i) \/ ProcessLogFails(i)
    \/ RefreshChecks \/ disable_all_metrics
    \/ process_value
    \/ send_buffer \/ SendFails \/ GiveUp \/ Answered \/ ClosedUnanswered
    \/ process_new_values \/ ProcessLate
    \/ RestartAgent

(* The thread of the agent and the trapper that has its request go on.     *)
Fairness ==
    /\ WF_vars(RefreshChecks)
    /\ \A i \in Items : WF_vars(ProcessLog(i))
    /\ WF_vars(process_value) /\ WF_vars(send_buffer)
    /\ WF_vars(process_new_values) /\ WF_vars(Answered)

Spec == Init /\ [][Next]_vars /\ Fairness
-----------------------------------------------------------------------------
(* Properties.                                                             *)

Settled(i) == Lines(received, i) \cup dropped[i] \cup refused[i]

(* A log is never read past a matching line that is neither on its way to  *)
(* the server, nor there, nor lost in one of the two ways the buffer loses *)
(* lines, also after a restart with the position of the server.            *)
LinesAccounted ==
    \A i \in Items \ truncated : metrics[i] # None =>
        \A k \in 1 .. metrics[i].lastlogsize :
            file[i][k] \in Matches[i] => file[i][k] \in Settled(i) \cup Lines(buffer, i)

(* Unless something fails, the server gets each line once and in order,    *)
(* however often the list of checks is refreshed meanwhile.                *)
OnceInOrder ==
    faults = 0 => \A k, m \in 1 .. Len(received) :
        k < m /\ received[k].item = received[m].item => received[k].line < received[m].line

(* Every matching line is settled at last, after failures of the network,  *)
(* the server, the agent and the reading of the file.                      *)
LinesSettled ==
    \A i \in Items : []<>(i \in truncated \/ (1 .. written[i]) \cap Matches[i] \subseteq Settled(i))
=============================================================================
