------------------------------ MODULE Session ------------------------------
(***************************************************************************)
(* How processes talk to the DV: one connection for each request, two      *)
(* listening sockets, one thread that serves them, and the identity that   *)
(* HELLO gives to a process.  It is about who gets which answer, and when; *)
(* the DV module is about what a request does to files and simulations.    *)
(***************************************************************************)
EXTENDS Integers, FiniteSets, SequencesExt, Functions

CONSTANTS
    Client,      \* analyses
    Slow,        \* clients that may pause, or die, between connect() and write()
    StatusTool,  \* runs of dv_status
    StopTool,    \* runs of stop_dv
    PassiveJob,  \* the job ids users give to simulators in passive mode
    Mode,        \* the values of passive_mode_: TRUE, FALSE
    Calls,       \* the lists of ranges a client may ask for in one call
    Unsendable,  \* the ranges whose names are too long for a message
    Malformed,   \* those that the DV cannot read, with a colon in a name
    Key, Value,  \* what the extended API can store
    Together,    \* bound: the sets of processes that are run together
    MaxRank,     \* bound: ranks and job ids that the DV hands out
    MaxJobs,     \* bound: simulations that opens start
    MaxCalls     \* bound: calls of a client

Job == 1 .. MaxRank
Tool == StatusTool \cup StopTool

ASSUME SessionAssumption ==
    /\ Mode \subseteq BOOLEAN /\ MaxRank \in Nat /\ MaxJobs \in Nat /\ MaxCalls \in Nat
    /\ PassiveJob \subseteq Job /\ Slow \subseteq Client
    /\ Client \cap Tool = {} /\ StatusTool \cap StopTool = {}
    /\ (Client \cup Tool) \cap Job = {} /\ Together \subseteq SUBSET (Client \cup Tool \cup Job)
    /\ Calls \subseteq Seq(UNION {Range(ranges) : ranges \in Calls}) \ {<<>>}

VARIABLES
    passive_mode,
    dv,       \* the members of the DV that requests read and change
    backlog,  \* for each listening socket, the processes connected to it
    ready,    \* the listening sockets of select() this iteration has to serve
    held,     \* processes whose socket was accepted and left open, unanswered
    proc      \* the processes

vars == <<passive_mode, dv, backlog, ready, held, proc>>

Origin == {"simulator", "client"}
Proc == Client \cup Tool \cup Job

NoRank == -1   \* the rank sent to simulators; also the job id of a client
Unknown == -2  \* the id of a process that had no answer to HELLO yet

Pending == [is |-> "pending", value |-> 0]
Closed == [is |-> "closed", value |-> 0]
Sent(v) == [is |-> "sent", value |-> v]

\* The messages: type, appid or jobid, and the argument of EXTENDED_API.
Request(type, id, arg) == [type |-> type, id |-> id, arg |-> arg]
NoRequest == Request("none", 0, <<>>)

Init ==
    /\ passive_mode \in Mode
    /\ dv = [conncount |-> 0, simulation_jobs |-> {}, clients |-> <<>>, info |-> <<>>,
             quit_requested |-> FALSE, listening |-> TRUE]
    /\ backlog = [o \in Origin |-> <<>>]
    /\ ready = {} /\ held = {}
    /\ proc = [p \in Proc |->
          [pc |-> "off", request |-> NoRequest, reply |-> Pending, id |-> Unknown,
           ranges |-> <<>>, next |-> 1, result |-> 0, calls |-> 0]]

-----------------------------------------------------------------------------
\* A process: dvl_srv_connect, dvl_send_message, dvl_recv_message.

\* The default ports; that of a tool is an argument of its command line.
Port(p) == IF p \in Client THEN {"client"} ELSE IF p \in Job THEN {"simulator"} ELSE Origin

\* No answer comes to these two, and nobody waits for one.
OneWay == {"FINALIZE", "STOP_SERVER"}

Written(request) == IF request.type \in OneWay THEN "ended" ELSE "waiting"

\* connect(), which a closed socket refuses: the process exits; and write().
Connect(p, process, request) ==
    /\ IF dv.listening
       THEN /\ \E o \in Port(p) : backlog' = [backlog EXCEPT ![o] = Append(@, p)]
            /\ proc' = [proc EXCEPT ![p] = [process EXCEPT
                  !.pc = IF p \in Slow THEN "connected" ELSE Written(request),
                  !.request = request, !.reply = Pending]]
       ELSE /\ proc' = [proc EXCEPT ![p].pc = "ended"]
            /\ UNCHANGED backlog
    /\ UNCHANGED <<passive_mode, dv, ready, held>>

\* write() of a slow client.
Write(p) ==
    /\ proc[p].pc = "connected"
    /\ proc' = [proc EXCEPT ![p].pc = Written(proc[p].request)]
    /\ UNCHANGED <<passive_mode, dv, backlog, ready, held>>

\* It dies before that.
Crash(p) ==
    /\ proc[p].pc = "connected"
    /\ proc' = [proc EXCEPT ![p] = [@ EXCEPT !.pc = "ended", !.request = NoRequest]]
    /\ UNCHANGED <<passive_mode, dv, backlog, ready, held>>

\* dvl_init of a client or a simulator; the first message of a tool.
Hello(p) ==
    /\ proc[p].pc = "off"
    /\ \E S \in Together : {p} \cup {q \in Proc : proc[q].pc # "off"} \subseteq S
    /\ p \in Job => p \in IF passive_mode THEN PassiveJob ELSE dv.simulation_jobs
    /\ LET jobid == IF p \in Job THEN p ELSE IF p \in Tool THEN 0 ELSE NoRank
       IN  Connect(p, proc[p], Request("HELLO", jobid, <<>>))

\* dvl_finalize of a simulator.
Finalize(p) ==
    /\ p \in Job /\ proc[p].pc = "idle"
    /\ Connect(p, proc[p], Request("FINALIZE", p, <<>>))

\* The second message of a tool, which gives up when its appid is negative.
Ask(p) ==
    /\ p \in Tool /\ proc[p].pc = "idle"
    /\ IF proc[p].id < 0
       THEN /\ proc' = [proc EXCEPT ![p].pc = "ended"]
            /\ UNCHANGED <<passive_mode, dv, backlog, ready, held>>
       ELSE LET type == IF p \in StopTool THEN "STOP_SERVER" ELSE "STATUS_REQUEST"
            IN  Connect(p, proc[p], Request(type, proc[p].id, <<>>))

Calling(p) ==
    /\ p \in Client /\ proc[p].pc = "idle"
    /\ proc[p].calls < MaxCalls /\ proc[p].next > Len(proc[p].ranges)

Counted(process) == [process EXCEPT !.calls = @ + 1]

\* nc_open of a result file.
Open(p) == Calling(p) /\ Connect(p, Counted(proc[p]), Request("FOPEN", proc[p].id, <<>>))

\* sdavi_set_info, sdavi_get_info, and what the DV does not implement:
\* sdavi_test_file, sdavi_status.
CallInfo(p) ==
    /\ Calling(p)
    /\ \E type \in {"SET_INFO", "GET_INFO", "NOT_IMPLEMENTED"}, k \in Key, v \in Value :
          Connect(p, Counted(proc[p]), Request(type, proc[p].id, [key |-> k, value |-> v]))

\* The first message of a call clears the list, the last completes it.
RangeRequest(process) ==
    Request("REQUEST_RANGE", process.id,
            [first |-> process.next = 1, last |-> process.next = Len(process.ranges),
             range |-> process.ranges[process.next]])

\* A failure ends the call, which sends nothing more.
RangeFailed(process) == [process EXCEPT !.result = -1, !.next = Len(process.ranges) + 1]

\* sdavi_request_range_internal.
SendRange(p, process) ==
    \/ /\ process.ranges[process.next] \notin Unsendable
       /\ Connect(p, process, RangeRequest(process))
    \/ /\ process.ranges[process.next] \in Unsendable
       /\ proc' = [proc EXCEPT ![p] = RangeFailed(process)]
       /\ UNCHANGED <<passive_mode, dv, backlog, ready, held>>

\* sdavi_request_range, sdavi_request_multiple_ranges: the first range.
RequestRanges(p) ==
    /\ Calling(p)
    /\ \E ranges \in Calls :
          SendRange(p, [Counted(proc[p]) EXCEPT !.ranges = ranges, !.next = 1])

\* ... and the ones after it.
RequestNextRange(p) ==
    /\ proc[p].pc = "idle" /\ proc[p].next <= Len(proc[p].ranges)
    /\ SendRange(p, proc[p])

\* read() of the answer to HELLO.  Nobody checks that there was one: a client
\* whose connection was closed takes its rank from the message it has sent.
Greeted(p) ==
    IF p \in Tool /\ proc[p].reply.is = "closed" THEN [proc[p] EXCEPT !.pc = "ended"]
    ELSE [proc[p] EXCEPT
            !.pc = "idle",
            !.id = IF p \in Job THEN p
                   ELSE IF proc[p].reply.is = "sent" THEN proc[p].reply.value ELSE NoRank]

\* read() of the answer to a range.
RangeAnswered(p) ==
    LET process == [proc[p] EXCEPT !.pc = "idle"]
    IN  IF process.reply.is = "sent" /\ process.reply.value >= 0
        THEN [process EXCEPT !.result = process.reply.value, !.next = @ + 1]
        ELSE RangeFailed(process)

Receive(p) ==
    /\ proc[p].pc = "waiting" /\ proc[p].reply # Pending
    /\ LET process ==
              CASE proc[p].request.type = "HELLO" -> Greeted(p)
                [] proc[p].request.type = "REQUEST_RANGE" -> RangeAnswered(p)
                [] OTHER -> [proc[p] EXCEPT !.pc = IF p \in Tool THEN "ended" ELSE "idle"]
       IN  proc' = [proc EXCEPT ![p] = [process EXCEPT !.request = NoRequest,
                                                       !.reply = Pending]]
    /\ UNCHANGED <<passive_mode, dv, backlog, ready, held>>

Process(p) ==
    \/ Hello(p) \/ Write(p) \/ Crash(p) \/ Receive(p) \/ Finalize(p) \/ Ask(p)
    \/ Open(p) \/ CallInfo(p) \/ RequestRanges(p) \/ RequestNextRange(p)

-----------------------------------------------------------------------------
\* The handlers.  Each gives the DV's members afterwards and the answer;
\* Pending is an answer when the handler leaves the socket open without one.

\* The assignment map[k] = v of a C++ map.
assigned(map, k, v) == [x \in DOMAIN map \cup {k} |-> IF x = k THEN v ELSE map[x]]

\* Defect: the counter of ranks is not advanced.
getNewRank_Same(d) == d

getNewRank(d) == [d EXCEPT !.conncount = @ + 1]

\* Defect: a client is not noted.
registerClient_Lost(d) == d

registerClient(d) == [d EXCEPT !.clients = assigned(@, d.conncount, <<>>)]

HelloServed(m) ==
    IF m.id \in dv.simulation_jobs \/ passive_mode
    THEN {<<IF passive_mode THEN [dv EXCEPT !.simulation_jobs = @ \cup {m.id}] ELSE dv,
            Sent(NoRank)>>}
    ELSE LET d == registerClient(getNewRank(dv)) IN {<<d, Sent(d.conncount)>>}

\* Bound: the others are for those who have not said hello.
RankLeft ==
    dv.conncount + Cardinality({p \in Client \cup Tool : proc[p].id = Unknown}) < MaxRank

\* handleOpen: a file that is available, or one that a simulation, perhaps a
\* new one, will produce.
OpenServed(m) ==
    IF m.id \notin DOMAIN dv.clients THEN {<<dv, Pending>>}
    ELSE {<<dv, Sent(0)>>, <<dv, Sent(1)>>} \cup
         IF Cardinality(dv.simulation_jobs) < MaxJobs /\ RankLeft
         THEN LET d == getNewRank(dv)
              IN  {<<[d EXCEPT !.simulation_jobs = @ \cup {d.conncount}], Sent(1)>>}
         ELSE {}

\* SimulatorFinalizeMessageHandler; DV::removeJob, DV::deindexJob.
FinalizeServed(m) == {<<[dv EXCEPT !.simulation_jobs = @ \ {m.id}], Closed>>}

\* Defect: the first range of a call does not clear the list.
handleRangeRequest_Appends(ranges, arg) == Append(ranges, arg.range)

handleRangeRequest(ranges, arg) ==
    Append(IF arg.first THEN <<>> ELSE ranges, arg.range)

ExtendedApiServed(m) ==
    {CASE m.type = "SET_INFO" ->
             <<[dv EXCEPT !.info = assigned(@, m.arg.key, m.arg.value)], Sent(0)>>
       [] m.type = "GET_INFO" ->
             <<dv, Sent(IF m.arg.key \in DOMAIN dv.info THEN dv.info[m.arg.key]
                                                        ELSE m.arg.value)>>
       [] m.type = "REQUEST_RANGE" /\ m.id \in DOMAIN dv.clients
                                   /\ m.arg.range \notin Malformed ->
             <<[dv EXCEPT !.clients[m.id] = handleRangeRequest(@, m.arg)], Sent(0)>>
       [] OTHER -> <<dv, Sent(-1)>>}

\* Defect: the request to stop is not kept.
quit_Ignored(d) == d

quit(d) == [d EXCEPT !.quit_requested = TRUE]

StatusServed == {<<dv, Sent(0)>>}

StopServed == {<<quit(dv), Closed>>}

\* runMessageHandler2: no distinction of the origin of the message.  A closed
\* connection is accepted and its socket left open.
runMessageHandler2(m) ==
    CASE m.type = "HELLO" -> HelloServed(m)
      [] m.type = "FOPEN" -> OpenServed(m)
      [] m.type = "FINALIZE" -> FinalizeServed(m)
      [] m.type = "STATUS_REQUEST" -> StatusServed
      [] m.type = "STOP_SERVER" -> StopServed
      [] m.type = "none" -> {<<dv, Pending>>}
      [] OTHER -> ExtendedApiServed(m)

-----------------------------------------------------------------------------
\* DV::run.

\* select(), when the iteration before it is over.
Select ==
    /\ ready = {} /\ dv.listening /\ ~dv.quit_requested
    /\ ready' = {o \in Origin : backlog[o] # <<>>} /\ ready' # {}
    /\ UNCHANGED <<passive_mode, dv, backlog, held, proc>>

\* accept(), recv(), which waits for a process that has not written yet, and
\* the handler: the simulators' socket first.
Accept(o) ==
    /\ o \in ready /\ ("simulator" \in ready => o = "simulator")
    /\ LET p == Head(backlog[o])
       IN  /\ proc[p].pc # "connected"
           /\ \E r \in runMessageHandler2(proc[p].request) :
                 /\ dv' = r[1]
                 /\ proc' = [proc EXCEPT ![p].reply = r[2]]
                 /\ held' = IF r[2] = Pending THEN held \cup {p} ELSE held
    /\ backlog' = [backlog EXCEPT ![o] = Tail(@)]
    /\ ready' = ready \ {o}
    /\ UNCHANGED passive_mode

\* DV::finish, and the end of the process, which closes every socket.
Finish ==
    /\ ready = {} /\ dv.listening /\ dv.quit_requested
    /\ dv' = [dv EXCEPT !.listening = FALSE]
    /\ LET open == held \cup Range(backlog["simulator"]) \cup Range(backlog["client"])
       IN  proc' = [p \in Proc |-> IF p \in open THEN [proc[p] EXCEPT !.reply = Closed]
                                                 ELSE proc[p]]
    /\ backlog' = [o \in Origin |-> <<>>] /\ held' = {}
    /\ UNCHANGED <<passive_mode, ready>>

Server == Select \/ (\E o \in Origin : Accept(o)) \/ Finish

Next == Server \/ \E p \in Proc : Process(p)

\* The DV runs; a process that has connected writes or dies, and one that has
\* its answer goes on.  Nobody has to begin anything.
Fairness ==
    /\ WF_vars(Server)
    /\ \A p \in Proc :
          /\ WF_vars(Write(p) \/ Crash(p))
          /\ WF_vars(Receive(p)) /\ WF_vars(Ask(p))

Spec == Init /\ [][Next]_vars /\ Fairness

-----------------------------------------------------------------------------
\* Ids identify: an analysis or a tool that holds a rank is registered under
\* it, no other holds the same, and none is the id of a simulation, since all
\* come from one counter; and a simulator that has said hello is indexed
\* until its FINALIZE is served.
IdsIdentify ==
    /\ \A p \in Client \cup Tool : proc[p].id >= 0 =>
          /\ proc[p].id \in DOMAIN dv.clients
          /\ proc[p].id \notin dv.simulation_jobs
          /\ \A j \in Job : proc[j].pc # "off" => j # proc[p].id
          /\ \A q \in (Client \cup Tool) \ {p} : proc[q].id # proc[p].id
    /\ \A j \in Job :
          dv.listening /\ proc[j].id = j /\ proc[j].pc # "ended" => j \in dv.simulation_jobs

\* A call for ranges that returned success has left exactly its ranges, in
\* order, with the DV: its messages come in one connection each, between those
\* of other clients' calls, and a call of the same client before it may have
\* failed, in the library or in the DV, after it had left some ranges there.
RangesAreComplete ==
    \A p \in Client :
       LET c == proc[p]
       IN  c.ranges # <<>> /\ c.next > Len(c.ranges) /\ c.result = 0 =>
              dv.clients[c.id] = c.ranges

\* In normal mode whoever waits for an answer gets one, or sees its connection
\* closed, although the DV serves one connection after the other, waits for
\* slow writers and never closes the sockets of some requests: again and again
\* there is a moment when nobody waits.
EveryRequestAnswered ==
    []<>(\A p \in Proc : proc[p].pc # "waiting" \/ passive_mode)

\* In normal mode stop_dv, once started, stops the DV.
StopIsHonoured ==
    \A t \in StopTool : proc[t].pc # "off" /\ ~passive_mode ~> ~dv.listening

=============================================================================
