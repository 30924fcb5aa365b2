--------------------------- MODULE SessionProofs ---------------------------
(***************************************************************************)
(* What holds of the requests to the DV for any processes, calls, keys and *)
(* bounds, in both modes: ids identify, and a call that succeeded has left *)
(* its ranges.  The first part says what each step changes of a process.   *)
(***************************************************************************)
EXTENDS Session, SequenceTheorems, TLAPS

Ranges == UNION {Range(ranges) : ranges \in Calls}

Type ==
    {"none", "HELLO", "FINALIZE", "STATUS_REQUEST", "STOP_SERVER", "FOPEN",
     "SET_INFO", "GET_INFO", "NOT_IMPLEMENTED", "REQUEST_RANGE"}

Argument ==
    {<<>>} \cup [key : Key, value : Value]
           \cup [first : BOOLEAN, last : BOOLEAN, range : Ranges]

RequestType == [type : Type, id : Int, arg : Argument]

ReplyType == {Pending, Closed} \cup [is : {"sent"}, value : Int \cup Value]

ProcessType ==
    [pc : {"off", "connected", "waiting", "idle", "ended"},
     request : RequestType, reply : ReplyType,
     id : Int, ranges : Seq(Ranges), next : Nat, result : Int, calls : Nat]

Table(K, V) == UNION {[D -> V] : D \in SUBSET K}

DvType ==
    [conncount : Nat, simulation_jobs : SUBSET Int, clients : Table(Nat, Seq(Ranges)),
     info : Table(Key, Value), quit_requested : BOOLEAN, listening : BOOLEAN]

Typed ==
    /\ passive_mode \in BOOLEAN
    /\ dv \in DvType /\ DOMAIN dv.clients \subseteq 1 .. dv.conncount
    /\ backlog \in [Origin -> Seq(Proc)]
    /\ ready \in SUBSET Origin /\ held \in SUBSET Proc
    /\ proc \in [Proc -> ProcessType]

(* A process is in one backlog at most, once, and until it is served it    *)
(* has no answer.                                                          *)
BacklogInv ==
    /\ \A o \in Origin : IsInjective(backlog[o])
    /\ Range(backlog["simulator"]) \cap Range(backlog["client"]) = {}
    /\ \A o \in Origin : \A p \in Range(backlog[o]) :
          proc[p].pc \notin {"off", "idle"} /\ proc[p].reply = Pending
    /\ ready # {} => dv.listening
    /\ \A o \in ready : backlog[o] # <<>>

HelloId(p) == IF p \in Job THEN p ELSE IF p \in Tool THEN 0 ELSE NoRank

(* What a process asks for follows from what it is and has.                *)
RequestInv(p) ==
    /\ proc[p].pc \in {"off", "idle"} => proc[p].request = NoRequest
    /\ proc[p].pc = "off" => proc[p].id = Unknown /\ proc[p].ranges = <<>>
    /\ proc[p].request.type = "HELLO" =>
          /\ proc[p].pc \in {"connected", "waiting"}
          /\ proc[p].id = Unknown /\ proc[p].ranges = <<>>
          /\ proc[p].request.id = HelloId(p)
          /\ proc[p].reply.value \in Int
          /\ proc[p].reply = Closed => ~dv.listening
    /\ proc[p].request.type = "FINALIZE" =>
          p \in Job /\ proc[p].request.id = p /\ proc[p].pc = "ended"
    /\ proc[p].request.type = "REQUEST_RANGE" =>
          /\ p \in Client /\ proc[p].pc \in {"connected", "waiting"}
          /\ proc[p].request.id = proc[p].id
          /\ proc[p].next \in 1 .. Len(proc[p].ranges)
          /\ proc[p].request.arg.first = (proc[p].next = 1)
          /\ proc[p].request.arg.range = proc[p].ranges[proc[p].next]
          /\ proc[p].reply.value \in {0, -1}
    /\ proc[p].request.type \in {"SET_INFO", "GET_INFO"} =>
          proc[p].request.arg \in [key : Key, value : Value]
    /\ proc[p].next \in 1 .. Len(proc[p].ranges) + 1
    /\ p \notin Client => proc[p].ranges = <<>>

Base == Typed /\ BacklogInv /\ \A p \in Proc : RequestInv(p)

(* The rank a process has, or is about to read.                            *)
RankOf(p) ==
    IF proc[p].request.type = "HELLO" /\ proc[p].reply.is = "sent"
    THEN proc[p].reply.value ELSE proc[p].id

RanksInv ==
    \A p \in Client \cup Tool : RankOf(p) >= 0 =>
        /\ RankOf(p) \in DOMAIN dv.clients
        /\ \A q \in (Client \cup Tool) \ {p} : RankOf(q) # RankOf(p)

(* Ranks and job ids come from one counter; in passive mode, where users   *)
(* choose job ids, there are no ranks.                                     *)
JobIdsInv ==
    IF passive_mode THEN DOMAIN dv.clients = {}
    ELSE /\ dv.simulation_jobs \subseteq 1 .. dv.conncount
         /\ dv.simulation_jobs \cap DOMAIN dv.clients = {}
         /\ \A j \in Job : proc[j].pc # "off" => j <= dv.conncount /\ j \notin DOMAIN dv.clients

\* A simulator is indexed from its HELLO, or before, to its FINALIZE.
IndexInv ==
    \A j \in Job :
        /\ dv.listening /\ proc[j].pc # "ended"
        /\ \/ proc[j].id = j
           \/ proc[j].request.type = "HELLO" /\ (~passive_mode \/ proc[j].reply.is = "sent")
        => j \in dv.simulation_jobs

IdsInv == RanksInv /\ JobIdsInv /\ IndexInv

(* The ranges of a call that the DV has, up to the one it was last asked   *)
(* for, or has answered.                                                   *)
Stored(p, n) ==
    proc[p].id \in DOMAIN dv.clients /\ dv.clients[proc[p].id] = SubSeq(proc[p].ranges, 1, n)

Asked(p) == proc[p].request.type = "REQUEST_RANGE"

RangesInv(p) ==
    /\ Asked(p) /\ proc[p].reply = Sent(0) => Stored(p, proc[p].next)
    /\ proc[p].next \in 2 .. Len(proc[p].ranges) /\ proc[p].pc # "ended"
          /\ (Asked(p) => proc[p].reply = Pending)
       => Stored(p, proc[p].next - 1)
    /\ proc[p].ranges # <<>> /\ proc[p].next > Len(proc[p].ranges) /\ proc[p].result = 0
       => Stored(p, Len(proc[p].ranges))

-----------------------------------------------------------------------------
\* What each step changes, field by field.

\* The process p sends the request r, with the ranges and the position of its
\* call; or it finds the socket closed and ends.
Asks(p, r, ranges, next) ==
    /\ UNCHANGED <<passive_mode, dv, ready, held>>
    /\ proc'[p].id = proc[p].id /\ proc'[p].result = proc[p].result
    /\ \/ /\ dv.listening
          /\ \E o \in Origin : backlog' = [backlog EXCEPT ![o] = Append(backlog[o], p)]
          /\ proc'[p].pc \in {"connected", "waiting", "ended"}
          /\ proc'[p].pc = "ended" => r.type \in OneWay
          /\ p \notin Slow /\ r.type \in OneWay => proc'[p].pc = "ended"
          /\ proc'[p].request = r /\ proc'[p].reply = Pending
          /\ proc'[p].ranges = ranges /\ proc'[p].next = next
       \/ /\ ~dv.listening
          /\ backlog' = backlog /\ proc'[p].pc = "ended"
          /\ proc'[p].request = proc[p].request /\ proc'[p].reply = proc[p].reply
          /\ proc'[p].ranges = proc[p].ranges /\ proc'[p].next = proc[p].next

AskEffect(p) ==
    \E r \in RequestType, ranges \in Seq(Ranges), next \in Nat :
       /\ Asks(p, r, ranges, next)
       /\ \/ /\ proc[p].pc = "off"
             /\ r.type = "HELLO" /\ r.id = HelloId(p)
             /\ p \in Job /\ ~passive_mode => p \in dv.simulation_jobs
             /\ ranges = proc[p].ranges /\ next = proc[p].next
          \/ /\ proc[p].pc = "idle"
             /\ r.type \notin {"HELLO", "REQUEST_RANGE"}
             /\ r.type = "FINALIZE" => p \in Job /\ r.id = p
             /\ r.type \in {"SET_INFO", "GET_INFO"} => r.arg \in [key : Key, value : Value]
             /\ ranges = proc[p].ranges /\ next = proc[p].next
          \/ /\ proc[p].pc = "idle" /\ p \in Client
             /\ r.type = "REQUEST_RANGE" /\ r.id = proc[p].id
             /\ next \in 1 .. Len(ranges)
             /\ r.arg.first = (next = 1) /\ r.arg.range = ranges[next]
             /\ next = 1 \/ (ranges = proc[p].ranges /\ next = proc[p].next)

\* The process goes on, or ends, without the DV.
StaysEffect(p) ==
    /\ UNCHANGED <<passive_mode, dv, backlog, ready, held>>
    /\ proc'[p].id = proc[p].id /\ proc'[p].reply = proc[p].reply
    /\ proc'[p].ranges = proc[p].ranges /\ proc'[p].next = proc[p].next
    /\ proc'[p].result = proc[p].result
    /\ \/ /\ proc[p].pc = "connected"
          /\ proc'[p].request = proc[p].request
          /\ proc'[p].pc = Written(proc[p].request)
       \/ proc'[p].pc = "ended" /\ proc[p].pc = "connected" /\ proc'[p].request = NoRequest
       \/ proc'[p].pc = "ended" /\ proc[p].pc = "idle" /\ proc'[p].request = proc[p].request

\* It reads its answer.
ReceiveEffect(p) ==
    /\ UNCHANGED <<passive_mode, dv, backlog, ready, held>>
    /\ proc[p].pc = "waiting" /\ proc[p].reply # Pending
    /\ proc'[p].request = NoRequest /\ proc'[p].reply = Pending
    /\ proc'[p].pc \in {"idle", "ended"}
    /\ proc'[p].ranges = proc[p].ranges
    /\ \/ /\ proc[p].request.type = "HELLO"
          /\ proc'[p].next = proc[p].next /\ proc'[p].result = proc[p].result
          /\ p \in Job => proc'[p].id = p
          /\ p \notin Job => \/ proc[p].reply.is = "sent" /\ proc'[p].id = proc[p].reply.value
                             \/ proc[p].reply.is # "sent" /\ proc'[p].id \in {NoRank, proc[p].id}
       \/ /\ proc[p].request.type = "REQUEST_RANGE" /\ proc'[p].id = proc[p].id
          /\ \/ /\ proc[p].reply.is = "sent" /\ proc[p].reply.value = 0
                /\ proc'[p].result = 0 /\ proc'[p].next = proc[p].next + 1
             \/ /\ proc'[p].result = -1 /\ proc'[p].next = Len(proc[p].ranges) + 1
       \/ /\ proc[p].request.type \notin {"HELLO", "REQUEST_RANGE"}
          /\ proc'[p].id = proc[p].id
          /\ proc'[p].next = proc[p].next /\ proc'[p].result = proc[p].result

\* Its call fails: a range cannot be sent.
FailEffect(p) ==
    /\ UNCHANGED <<passive_mode, dv, backlog, ready, held>>
    /\ p \in Client /\ proc[p].pc = "idle" /\ proc'[p].pc = "idle"
    /\ proc'[p].request = proc[p].request /\ proc'[p].reply = proc[p].reply
    /\ proc'[p].id = proc[p].id
    /\ proc'[p].result = -1 /\ proc'[p].next = Len(proc'[p].ranges) + 1

ProcessEffect(p) ==
    /\ proc' \in [Proc -> ProcessType]
    /\ \A q \in Proc : q # p => proc'[q] = proc[q]
    /\ AskEffect(p) \/ StaysEffect(p) \/ ReceiveEffect(p) \/ FailEffect(p)

LEMMA ProcessFields ==
    ASSUME Typed, NEW p \in Proc
    PROVE  /\ proc[p] \in ProcessType
           /\ proc[p].pc \in {"off", "connected", "waiting", "idle", "ended"}
           /\ proc[p].request \in RequestType /\ proc[p].request.type \in Type
           /\ proc[p].request.id \in Int
           /\ proc[p].reply \in ReplyType /\ proc[p].reply.is \in {"pending", "closed", "sent"}
           /\ proc[p].id \in Int /\ proc[p].ranges \in Seq(Ranges) /\ proc[p].next \in Nat
           /\ Len(proc[p].ranges) \in Nat /\ proc[p].result \in Int /\ proc[p].calls \in Nat
<1>1. proc[p] \in ProcessType
  BY DEF Typed
<1>2. proc[p].request \in RequestType /\ proc[p].reply \in ReplyType
      /\ proc[p].ranges \in Seq(Ranges)
  BY <1>1 DEF ProcessType
<1>3. /\ proc[p].pc \in {"off", "connected", "waiting", "idle", "ended"}
      /\ proc[p].id \in Int /\ proc[p].next \in Nat
      /\ proc[p].result \in Int /\ proc[p].calls \in Nat
  BY <1>1 DEF ProcessType
<1>4. /\ proc[p].request.type \in Type /\ proc[p].request.id \in Int
      /\ proc[p].reply.is \in {"pending", "closed", "sent"}
  BY <1>2 DEF RequestType, ReplyType, Pending, Closed
<1>5. Len(proc[p].ranges) \in Nat
  BY <1>2
<1>6. QED  BY <1>1, <1>2, <1>3, <1>4, <1>5

LEMMA OneProcessMoves ==
    ASSUME Typed, NEW p \in Proc, NEW x \in ProcessType, proc' = [proc EXCEPT ![p] = x]
    PROVE  /\ proc'[p] = x /\ \A q \in Proc : q # p => proc'[q] = proc[q]
           /\ proc' \in [Proc -> ProcessType]
BY DEF Typed

LEMMA ConstantsTyped ==
    /\ NoRequest \in RequestType /\ Pending \in ReplyType /\ Closed \in ReplyType
    /\ Pending.is = "pending" /\ Closed.is = "closed" /\ NoRequest.type = "none"
    /\ Pending.value = 0 /\ Closed.value = 0
    /\ \A v \in Int \cup Value : Sent(v) \in ReplyType
    /\ \A v : Sent(v).is = "sent" /\ Sent(v).value = v
    /\ \A t, i, a : Request(t, i, a).type = t /\ Request(t, i, a).id = i /\ Request(t, i, a).arg = a
    /\ \A t \in Type, i \in Int, a \in Argument : Request(t, i, a) \in RequestType
    /\ <<>> \in Argument
BY DEF NoRequest, Request, Pending, Closed, Sent, RequestType, ReplyType, Type, Argument

(* connect() of a process that has the ranges and the position of a call.  *)
LEMMA Connects ==
    ASSUME Typed, NEW p \in Proc, NEW r \in RequestType,
           NEW ranges \in Seq(Ranges), NEW next \in Nat, NEW x \in ProcessType,
           x.id = proc[p].id, x.result = proc[p].result, x.ranges = ranges, x.next = next,
           Connect(p, x, r)
    PROVE  /\ Asks(p, r, ranges, next)
           /\ proc' \in [Proc -> ProcessType]
           /\ \A q \in Proc : q # p => proc'[q] = proc[q]
<1>1. Written(r) \in {"waiting", "ended"} /\ (Written(r) = "ended" <=> r.type \in OneWay)
  BY DEF Written
<1>2. UNCHANGED <<passive_mode, dv, ready, held>>
  BY DEF Connect
<1>3. CASE dv.listening
  <2> DEFINE pc == IF p \in Slow THEN "connected" ELSE Written(r)
             y == [x EXCEPT !.pc = pc, !.request = r, !.reply = Pending]
  <2>1. proc' = [proc EXCEPT ![p] = y]
    BY <1>3 DEF Connect
  <2>2. pc \in {"connected", "waiting", "ended"}
    BY <1>1
  <2>3. /\ y \in ProcessType /\ y.pc = pc /\ y.request = r /\ y.reply = Pending
        /\ y.id = x.id /\ y.result = x.result /\ y.ranges = x.ranges /\ y.next = x.next
    <3> HIDE DEF pc
    <3>1. QED  BY <2>2, ConstantsTyped DEF ProcessType
  <2>4. \E o \in Origin : backlog' = [backlog EXCEPT ![o] = Append(backlog[o], p)]
    <3>1. PICK o \in Port(p) : backlog' = [backlog EXCEPT ![o] = Append(@, p)]
      BY <1>3 DEF Connect
    <3>2. o \in Origin
      BY <3>1 DEF Port, Origin
    <3>3. QED  BY <3>1, <3>2
  <2>5. (pc = "ended" => r.type \in OneWay) /\ (p \notin Slow /\ r.type \in OneWay => pc = "ended")
    BY <1>1
  <2> HIDE DEF y, pc
  <2>6. proc'[p] = y /\ (\A q \in Proc : q # p => proc'[q] = proc[q]) /\ proc' \in [Proc -> ProcessType]
    BY <2>1, <2>3, OneProcessMoves
  <2>7. QED  BY <1>2, <1>3, <2>2, <2>3, <2>4, <2>5, <2>6 DEF Asks
<1>4. CASE ~dv.listening
  <2> DEFINE y == [proc[p] EXCEPT !.pc = "ended"]
  <2>1. proc' = [proc EXCEPT ![p] = y] /\ backlog' = backlog
    BY <1>4 DEF Connect
  <2>2. /\ y \in ProcessType /\ y.pc = "ended" /\ y.request = proc[p].request
        /\ y.reply = proc[p].reply /\ y.id = proc[p].id /\ y.result = proc[p].result
        /\ y.ranges = proc[p].ranges /\ y.next = proc[p].next
    BY ProcessFields DEF ProcessType
  <2> HIDE DEF y
  <2>3. proc'[p] = y /\ (\A q \in Proc : q # p => proc'[q] = proc[q]) /\ proc' \in [Proc -> ProcessType]
    BY <2>1, <2>2, OneProcessMoves
  <2>4. QED  BY <1>2, <1>4, <2>1, <2>2, <2>3 DEF Asks
<1>5. QED  BY <1>3, <1>4

LEMMA Receives ==
    ASSUME Typed, NEW p \in Proc, RequestInv(p), Receive(p)
    PROVE  ProcessEffect(p)
<1> DEFINE c == proc[p]
           x == CASE proc[p].request.type = "HELLO" -> Greeted(p)
                  [] proc[p].request.type = "REQUEST_RANGE" -> RangeAnswered(p)
                  [] OTHER -> [proc[p] EXCEPT !.pc = IF p \in Tool THEN "ended" ELSE "idle"]
           y == [x EXCEPT !.request = NoRequest, !.reply = Pending]
<1>0. /\ c \in ProcessType /\ c.request \in RequestType /\ c.reply \in ReplyType
      /\ c.id \in Int /\ c.ranges \in Seq(Ranges) /\ c.next \in Nat /\ Len(c.ranges) \in Nat
  BY ProcessFields
<1>1. /\ c.pc = "waiting" /\ c.reply # Pending
      /\ proc' = [proc EXCEPT ![p] = y]
      /\ UNCHANGED <<passive_mode, dv, backlog, ready, held>>
  BY DEF Receive
<1>2. CASE c.request.type = "HELLO"
  <2> DEFINE id == IF p \in Job THEN p ELSE IF c.reply.is = "sent" THEN c.reply.value ELSE NoRank
  <2>1. x = Greeted(p) /\ c.reply.value \in Int
    BY <1>2 DEF RequestInv
  <2>2. id \in Int
    BY <2>1, SessionAssumption DEF NoRank, Job
  <2>3. x = IF p \in Tool /\ c.reply.is = "closed" THEN [c EXCEPT !.pc = "ended"]
            ELSE [c EXCEPT !.pc = "idle", !.id = id]
    BY <2>1 DEF Greeted
  <2>4. Tool \cap Job = {}
    BY SessionAssumption
  <2> HIDE DEF id, x
  <2>5. /\ x \in ProcessType /\ x.ranges = c.ranges /\ x.next = c.next /\ x.result = c.result
        /\ x.pc \in {"idle", "ended"}
        /\ x.id = IF p \in Tool /\ c.reply.is = "closed" THEN c.id ELSE id
    <3> HIDE DEF c
    <3>1. QED  BY <1>0, <2>2, <2>3 DEF ProcessType
  <2>6. /\ p \in Job => x.id = p
        /\ p \notin Job => \/ c.reply.is = "sent" /\ x.id = c.reply.value
                           \/ c.reply.is # "sent" /\ x.id \in {NoRank, c.id}
    BY <2>4, <2>5 DEF id
  <2>7. /\ y \in ProcessType /\ y.request = NoRequest /\ y.reply = Pending
        /\ y.ranges = x.ranges /\ y.next = x.next /\ y.result = x.result
        /\ y.pc = x.pc /\ y.id = x.id
    BY <2>5, ConstantsTyped DEF ProcessType
  <2> HIDE DEF y
  <2>8. proc'[p] = y /\ (\A q \in Proc : q # p => proc'[q] = proc[q])
        /\ proc' \in [Proc -> ProcessType]
    BY <1>1, <2>7, OneProcessMoves
  <2>9. ReceiveEffect(p)
    BY <1>1, <1>2, <2>5, <2>6, <2>7, <2>8 DEF ReceiveEffect
  <2>10. QED  BY <2>8, <2>9 DEF ProcessEffect
<1>3. CASE c.request.type = "REQUEST_RANGE"
  <2> DEFINE result == IF c.reply.is = "sent" THEN c.reply.value ELSE -1
             next == IF result < 0 THEN Len(c.ranges) + 1 ELSE c.next + 1
  <2>1. x = RangeAnswered(p) /\ c.reply.value \in {0, -1}
    BY <1>3 DEF RequestInv
  <2>2. result \in {0, -1} /\ (result = 0 => c.reply.is = "sent" /\ c.reply.value = 0)
        /\ (result = -1 => next = Len(c.ranges) + 1) /\ (result = 0 => next = c.next + 1)
    BY <2>1
  <2>3. result \in Int /\ next \in Nat
    BY <1>0, <2>2
  <2>4. x = [c EXCEPT !.pc = "idle", !.result = result, !.next = next]
    <3> DEFINE z == [c EXCEPT !.pc = "idle"]
               answered == c.reply.is = "sent" /\ c.reply.value >= 0
    <3>1. x = IF answered THEN [z EXCEPT !.result = c.reply.value, !.next = @ + 1]
              ELSE RangeFailed(z)
      BY <1>0, <2>1 DEF RangeAnswered, ProcessType
    <3>2. z \in ProcessType /\ z.next = c.next /\ z.ranges = c.ranges
      BY <1>0 DEF ProcessType
    <3>3. RangeFailed(z) = [z EXCEPT !.result = -1, !.next = Len(c.ranges) + 1]
      BY <3>2 DEF RangeFailed
    <3>4. answered <=> result = 0
      BY <2>1
    <3>5. CASE answered
      <4>1. x = [z EXCEPT !.result = result, !.next = next]
        BY <2>2, <3>1, <3>2, <3>4, <3>5
      <4>2. QED  BY <1>0, <4>1 DEF ProcessType
    <3>6. CASE ~answered
      <4>1. result = -1
        BY <2>2, <3>4, <3>6
      <4>2. x = [z EXCEPT !.result = result, !.next = next]
        BY <2>2, <3>1, <3>3, <3>6, <4>1
      <4>3. QED  BY <1>0, <4>2 DEF ProcessType
    <3>7. QED  BY <3>5, <3>6
  <2> HIDE DEF result, next, x
  <2>5. /\ x \in ProcessType /\ x.ranges = c.ranges /\ x.next = next /\ x.result = result
        /\ x.pc = "idle" /\ x.id = c.id
    <3> HIDE DEF c
    <3>1. QED  BY <1>0, <2>3, <2>4 DEF ProcessType
  <2>6. /\ y \in ProcessType /\ y.request = NoRequest /\ y.reply = Pending
        /\ y.ranges = x.ranges /\ y.next = x.next /\ y.result = x.result
        /\ y.pc = x.pc /\ y.id = x.id
    BY <2>5, ConstantsTyped DEF ProcessType
  <2> HIDE DEF y
  <2>7. proc'[p] = y /\ (\A q \in Proc : q # p => proc'[q] = proc[q])
        /\ proc' \in [Proc -> ProcessType]
    BY <1>1, <2>6, OneProcessMoves
  <2>8. ReceiveEffect(p)
    BY <1>1, <1>3, <2>2, <2>5, <2>6, <2>7 DEF ReceiveEffect
  <2>9. QED  BY <2>7, <2>8 DEF ProcessEffect
<1>4. CASE c.request.type \notin {"HELLO", "REQUEST_RANGE"}
  <2> DEFINE pc == IF p \in Tool THEN "ended" ELSE "idle"
  <2>1. x = [c EXCEPT !.pc = pc] /\ pc \in {"idle", "ended"}
    BY <1>4
  <2> HIDE DEF x, pc
  <2>2. /\ x \in ProcessType /\ x.ranges = c.ranges /\ x.next = c.next /\ x.result = c.result
        /\ x.pc = pc /\ x.id = c.id
    <3> HIDE DEF c
    <3>1. QED  BY <1>0, <2>1 DEF ProcessType
  <2>3. /\ y \in ProcessType /\ y.request = NoRequest /\ y.reply = Pending
        /\ y.ranges = x.ranges /\ y.next = x.next /\ y.result = x.result
        /\ y.pc = x.pc /\ y.id = x.id
    BY <2>2, ConstantsTyped DEF ProcessType
  <2> HIDE DEF y
  <2>4. proc'[p] = y /\ (\A q \in Proc : q # p => proc'[q] = proc[q])
        /\ proc' \in [Proc -> ProcessType]
    BY <1>1, <2>3, OneProcessMoves
  <2>5. ReceiveEffect(p)
    BY <1>1, <1>4, <2>1, <2>2, <2>3, <2>4 DEF ReceiveEffect
  <2>6. QED  BY <2>4, <2>5 DEF ProcessEffect
<1>5. QED  BY <1>2, <1>3, <1>4

LEMMA Proceeds ==
    ASSUME Base, NEW p \in Proc, Process(p)
    PROVE  ProcessEffect(p)
<1>0. Typed /\ RequestInv(p) /\ proc[p] \in ProcessType /\ proc[p].request \in RequestType
      /\ proc[p].id \in Int /\ proc[p].ranges \in Seq(Ranges) /\ proc[p].next \in Nat
      /\ proc[p].pc \in {"off", "connected", "waiting", "idle", "ended"}
      /\ Len(proc[p].ranges) \in Nat /\ proc[p].result \in Int /\ proc[p].calls \in Nat
      /\ proc[p].reply \in ReplyType
  BY ProcessFields DEF Base
<1>1. ASSUME NEW r \in RequestType, Connect(p, proc[p], r)
      PROVE  /\ Asks(p, r, proc[p].ranges, proc[p].next)
             /\ proc' \in [Proc -> ProcessType]
             /\ \A q \in Proc : q # p => proc'[q] = proc[q]
  BY <1>0, <1>1, Connects
<1>2. /\ Counted(proc[p]) \in ProcessType /\ Counted(proc[p]).id = proc[p].id
      /\ Counted(proc[p]).result = proc[p].result /\ Counted(proc[p]).ranges = proc[p].ranges
      /\ Counted(proc[p]).next = proc[p].next
  BY <1>0 DEF Counted, ProcessType
<1>3. ASSUME NEW r \in RequestType, Connect(p, Counted(proc[p]), r)
      PROVE  /\ Asks(p, r, proc[p].ranges, proc[p].next)
             /\ proc' \in [Proc -> ProcessType]
             /\ \A q \in Proc : q # p => proc'[q] = proc[q]
  BY <1>0, <1>2, <1>3, Connects
<1>4. p \in Job => p \in Int
  BY SessionAssumption DEF Job
<1>5. CASE Hello(p)
  <2> DEFINE r == Request("HELLO", HelloId(p), <<>>)
  <2>1. proc[p].pc = "off" /\ Connect(p, proc[p], r)
    BY <1>5 DEF Hello, HelloId
  <2>2. HelloId(p) \in Int
    BY SessionAssumption DEF HelloId, NoRank, Job
  <2>3. r \in RequestType /\ r.type = "HELLO" /\ r.id = HelloId(p)
    <3>1. "HELLO" \in Type
      BY DEF Type
    <3>2. QED  BY <2>2, <3>1, ConstantsTyped
  <2>4. p \in Job /\ ~passive_mode => p \in dv.simulation_jobs
    BY <1>5 DEF Hello
  <2> HIDE DEF r
  <2>5. /\ Asks(p, r, proc[p].ranges, proc[p].next)
        /\ proc' \in [Proc -> ProcessType]
        /\ \A q \in Proc : q # p => proc'[q] = proc[q]
    BY <1>1, <2>1, <2>3
  <2>6. AskEffect(p)
    BY <1>0, <2>1, <2>3, <2>4, <2>5 DEF AskEffect
  <2>7. QED  BY <2>5, <2>6 DEF ProcessEffect
<1>6. ASSUME NEW t \in Type, NEW i \in Int, NEW a \in Argument,
             t \notin {"HELLO", "REQUEST_RANGE"}, t = "FINALIZE" => p \in Job /\ i = p,
             t \in {"SET_INFO", "GET_INFO"} => a \in [key : Key, value : Value],
             proc[p].pc = "idle",
             \/ Connect(p, proc[p], Request(t, i, a))
             \/ Connect(p, Counted(proc[p]), Request(t, i, a))
      PROVE  ProcessEffect(p)
  <2> DEFINE r == Request(t, i, a)
  <2>1. r \in RequestType /\ r.type = t /\ r.id = i /\ r.arg = a
    BY ConstantsTyped
  <2>2. Connect(p, proc[p], r) \/ Connect(p, Counted(proc[p]), r)
    BY <1>6
  <2> HIDE DEF r
  <2>3. /\ Asks(p, r, proc[p].ranges, proc[p].next)
        /\ proc' \in [Proc -> ProcessType]
        /\ \A q \in Proc : q # p => proc'[q] = proc[q]
    BY <1>1, <1>3, <2>1, <2>2
  <2>4. AskEffect(p)
    BY <1>0, <1>6, <2>1, <2>3 DEF AskEffect
  <2>5. QED  BY <2>3, <2>4 DEF ProcessEffect
<1>7. CASE Finalize(p)
  <2>1. p \in Job /\ proc[p].pc = "idle" /\ Connect(p, proc[p], Request("FINALIZE", p, <<>>))
    BY <1>7 DEF Finalize
  <2>2. "FINALIZE" \in Type /\ p \in Int
    BY <1>4, <2>1 DEF Type
  <2>3. QED  BY <1>6, <2>1, <2>2, ConstantsTyped
<1>8. CASE Open(p)
  <2>1. proc[p].pc = "idle" /\ Connect(p, Counted(proc[p]), Request("FOPEN", proc[p].id, <<>>))
    BY <1>8 DEF Open, Calling
  <2>2. "FOPEN" \in Type
    BY DEF Type
  <2>3. QED  BY <1>0, <1>6, <2>1, <2>2, ConstantsTyped
<1>9. CASE CallInfo(p)
  <2>1. PICK type \in {"SET_INFO", "GET_INFO", "NOT_IMPLEMENTED"}, k \in Key, v \in Value :
           Connect(p, Counted(proc[p]), Request(type, proc[p].id, [key |-> k, value |-> v]))
    BY <1>9 DEF CallInfo
  <2>2. proc[p].pc = "idle" /\ type \in Type /\ [key |-> k, value |-> v] \in Argument
        /\ [key |-> k, value |-> v] \in [key : Key, value : Value]
    BY <1>9 DEF CallInfo, Calling, Type, Argument
  <2>3. QED  BY <1>0, <1>6, <2>1, <2>2
<1>10. CASE Ask(p)
  <2>1. CASE proc[p].id < 0
    <3> DEFINE y == [proc[p] EXCEPT !.pc = "ended"]
    <3>1. proc[p].pc = "idle" /\ proc' = [proc EXCEPT ![p] = y]
          /\ UNCHANGED <<passive_mode, dv, backlog, ready, held>>
      BY <1>10, <2>1 DEF Ask
    <3>2. /\ y \in ProcessType /\ y.pc = "ended" /\ y.request = proc[p].request
          /\ y.reply = proc[p].reply /\ y.id = proc[p].id /\ y.result = proc[p].result
          /\ y.ranges = proc[p].ranges /\ y.next = proc[p].next
      BY <1>0 DEF ProcessType
    <3> HIDE DEF y
    <3>3. proc'[p] = y /\ (\A q \in Proc : q # p => proc'[q] = proc[q])
          /\ proc' \in [Proc -> ProcessType]
      BY <1>0, <3>1, <3>2, OneProcessMoves
    <3>4. StaysEffect(p)
      BY <3>1, <3>2, <3>3 DEF StaysEffect
    <3>5. QED  BY <3>3, <3>4 DEF ProcessEffect
  <2>2. CASE ~(proc[p].id < 0)
    <3>1. PICK type \in {"STOP_SERVER", "STATUS_REQUEST"} :
             proc[p].pc = "idle" /\ Connect(p, proc[p], Request(type, proc[p].id, <<>>))
      BY <1>10, <2>2 DEF Ask
    <3>2. type \in Type
      BY DEF Type
    <3>3. QED  BY <1>0, <1>6, <3>1, <3>2, ConstantsTyped
  <2>3. QED  BY <2>1, <2>2
<1>11. ASSUME NEW ranges \in Seq(Ranges), NEW i \in 1 .. Len(ranges), NEW x \in ProcessType,
              x.id = proc[p].id, x.result = proc[p].result, x.ranges = ranges, x.next = i,
              i = 1 \/ (ranges = proc[p].ranges /\ i = proc[p].next),
              proc[p].pc = "idle", p \in Client, Connect(p, x, RangeRequest(x))
       PROVE  ProcessEffect(p)
  <2> DEFINE r == RangeRequest(x)
             a == [first |-> i = 1, last |-> i = Len(ranges), range |-> ranges[i]]
  <2>1. a \in Argument /\ a.first = (i = 1) /\ a.range = ranges[i]
    <3>1. ranges[i] \in Ranges
      OBVIOUS
    <3>2. QED  BY <3>1 DEF Argument
  <2>2. r = Request("REQUEST_RANGE", proc[p].id, a) /\ "REQUEST_RANGE" \in Type
    BY <1>11 DEF RangeRequest, Type
  <2> HIDE DEF a
  <2>3. r \in RequestType /\ r.type = "REQUEST_RANGE" /\ r.id = proc[p].id /\ r.arg = a
    BY <1>0, <2>1, <2>2, ConstantsTyped
  <2>4. Connect(p, x, r) /\ i \in Nat
    BY <1>11
  <2> HIDE DEF r
  <2>5. /\ Asks(p, r, ranges, i)
        /\ proc' \in [Proc -> ProcessType]
        /\ \A q \in Proc : q # p => proc'[q] = proc[q]
    BY <1>0, <1>11, <2>3, <2>4, Connects
  <2>6. AskEffect(p)
    BY <1>11, <2>1, <2>3, <2>4, <2>5 DEF AskEffect
  <2>7. QED  BY <2>5, <2>6 DEF ProcessEffect
<1>12. ASSUME NEW x \in ProcessType, x.id = proc[p].id, x.result = proc[p].result,
              x.request = proc[p].request, x.reply = proc[p].reply, x.pc = proc[p].pc,
              x.next \in 1 .. Len(x.ranges),
              x.next = 1 \/ (x.ranges = proc[p].ranges /\ x.next = proc[p].next),
              proc[p].pc = "idle", p \in Client, SendRange(p, x)
       PROVE  ProcessEffect(p)
  <2>1. x.ranges \in Seq(Ranges) /\ Len(x.ranges) \in Nat
    BY DEF ProcessType
  <2>2. CASE Connect(p, x, RangeRequest(x))
    <3> DEFINE ranges == x.ranges
               i == x.next
    <3>1. ranges \in Seq(Ranges) /\ i \in 1 .. Len(ranges) /\ x.ranges = ranges /\ x.next = i
          /\ (i = 1 \/ (ranges = proc[p].ranges /\ i = proc[p].next))
      BY <1>12, <2>1
    <3> HIDE DEF ranges, i
    <3>2. QED  BY <1>11, <1>12, <2>2, <3>1
  <2>3. CASE proc' = [proc EXCEPT ![p] = RangeFailed(x)]
             /\ UNCHANGED <<passive_mode, dv, backlog, ready, held>>
    <3> DEFINE y == RangeFailed(x)
    <3>1. /\ y \in ProcessType /\ y.pc = "idle" /\ y.request = proc[p].request
          /\ y.reply = proc[p].reply /\ y.id = proc[p].id
          /\ y.result = -1 /\ y.next = Len(y.ranges) + 1
      <4> DEFINE n == Len(x.ranges) + 1
      <4>1. n \in Nat /\ y = [x EXCEPT !.result = -1, !.next = n]
        BY <2>1 DEF RangeFailed
      <4> HIDE DEF n, y
      <4>2. /\ y \in ProcessType /\ y.pc = x.pc /\ y.request = x.request /\ y.reply = x.reply
            /\ y.id = x.id /\ y.result = -1 /\ y.next = n /\ y.ranges = x.ranges
        <5>1. -1 \in Int
          OBVIOUS
        <5>2. y \in ProcessType
          BY <4>1, <5>1, Zenon DEF ProcessType
        <5>3. QED  BY <4>1, <5>2 DEF ProcessType
      <4>3. QED  BY <1>12, <4>2 DEF n
    <3>2. proc' = [proc EXCEPT ![p] = y]
      BY <2>3
    <3> HIDE DEF y
    <3>3. proc'[p] = y /\ (\A q \in Proc : q # p => proc'[q] = proc[q])
          /\ proc' \in [Proc -> ProcessType]
      BY <1>0, <3>1, <3>2, OneProcessMoves
    <3>4. FailEffect(p)
      BY <1>12, <2>3, <3>1, <3>3 DEF FailEffect
    <3>5. QED  BY <3>3, <3>4 DEF ProcessEffect
  <2>4. QED  BY <1>12, <2>2, <2>3 DEF SendRange
<1>13. CASE RequestRanges(p)
  <2>1. PICK ranges \in Calls :
           SendRange(p, [Counted(proc[p]) EXCEPT !.ranges = ranges, !.next = 1])
    BY <1>13 DEF RequestRanges
  <2>2. ranges \in Seq(Ranges) /\ ranges # <<>>
    BY SessionAssumption DEF Ranges
  <2>3. 1 \in 1 .. Len(ranges)
    BY <2>2
  <2> DEFINE x == [Counted(proc[p]) EXCEPT !.ranges = ranges, !.next = 1]
  <2>4. /\ x \in ProcessType /\ x.id = proc[p].id /\ x.result = proc[p].result
        /\ x.request = proc[p].request /\ x.reply = proc[p].reply /\ x.pc = proc[p].pc
        /\ x.ranges = ranges /\ x.next = 1
    <3> DEFINE y == Counted(proc[p])
    <3>1. y \in ProcessType /\ y.id = proc[p].id /\ y.result = proc[p].result
          /\ y.request = proc[p].request /\ y.reply = proc[p].reply /\ y.pc = proc[p].pc
      BY <1>0 DEF Counted, ProcessType
    <3>2. x = [y EXCEPT !.ranges = ranges, !.next = 1]
      OBVIOUS
    <3> HIDE DEF x, y
    <3>3. QED  BY <2>2, <3>1, <3>2 DEF ProcessType
  <2>5. SendRange(p, x) /\ proc[p].pc = "idle" /\ p \in Client
    BY <1>13, <2>1 DEF RequestRanges, Calling
  <2> HIDE DEF x
  <2>6. QED  BY <1>12, <2>3, <2>4, <2>5
<1>14. CASE RequestNextRange(p)
  <2>1. /\ proc[p].pc = "idle" /\ proc[p].next <= Len(proc[p].ranges)
        /\ SendRange(p, proc[p])
    BY <1>14 DEF RequestNextRange
  <2>2. proc[p].next \in 1 .. Len(proc[p].ranges)
    BY <1>0, <2>1 DEF RequestInv
  <2>3. p \in Client
    <3>1. proc[p].ranges # <<>>
      BY <2>2
    <3>2. QED  BY <1>0, <3>1 DEF RequestInv
  <2>4. QED  BY <1>0, <1>12, <2>1, <2>2, <2>3
<1>15. ASSUME NEW y \in ProcessType, proc' = [proc EXCEPT ![p] = y],
              y.id = proc[p].id, y.reply = proc[p].reply, y.ranges = proc[p].ranges,
              y.next = proc[p].next, y.result = proc[p].result,
              UNCHANGED <<passive_mode, dv, backlog, ready, held>>,
              proc[p].pc = "connected",
              \/ y.request = proc[p].request /\ y.pc = Written(proc[p].request)
              \/ y.pc = "ended" /\ y.request = NoRequest
       PROVE  ProcessEffect(p)
  <2>1. proc'[p] = y /\ (\A q \in Proc : q # p => proc'[q] = proc[q])
        /\ proc' \in [Proc -> ProcessType]
    BY <1>0, <1>15, OneProcessMoves
  <2>2. StaysEffect(p)
    BY <1>15, <2>1 DEF StaysEffect
  <2>3. QED  BY <2>1, <2>2 DEF ProcessEffect
<1>16. CASE Write(p)
  <2> DEFINE y == [proc[p] EXCEPT !.pc = Written(proc[p].request)]
  <2>1. Written(proc[p].request) \in {"waiting", "ended"}
    BY DEF Written
  <2>2. /\ y \in ProcessType /\ y.pc = Written(proc[p].request) /\ y.request = proc[p].request
        /\ y.reply = proc[p].reply /\ y.id = proc[p].id /\ y.result = proc[p].result
        /\ y.ranges = proc[p].ranges /\ y.next = proc[p].next
    BY <1>0, <2>1 DEF ProcessType
  <2>3. /\ proc' = [proc EXCEPT ![p] = y] /\ proc[p].pc = "connected"
        /\ UNCHANGED <<passive_mode, dv, backlog, ready, held>>
    BY <1>16 DEF Write
  <2> HIDE DEF y
  <2>4. QED  BY <1>15, <2>2, <2>3
<1>17. CASE Crash(p)
  <2> DEFINE y == [proc[p] EXCEPT !.pc = "ended", !.request = NoRequest]
  <2>1. /\ y \in ProcessType /\ y.pc = "ended" /\ y.request = NoRequest
        /\ y.reply = proc[p].reply /\ y.id = proc[p].id /\ y.result = proc[p].result
        /\ y.ranges = proc[p].ranges /\ y.next = proc[p].next
    BY <1>0, ConstantsTyped DEF ProcessType
  <2>2. /\ proc' = [proc EXCEPT ![p] = y] /\ proc[p].pc = "connected"
        /\ UNCHANGED <<passive_mode, dv, backlog, ready, held>>
    BY <1>17 DEF Crash
  <2> HIDE DEF y
  <2>3. QED  BY <1>15, <2>1, <2>2
<1>18. CASE Receive(p)
  BY <1>0, <1>18, Receives DEF Base
<1>19. QED
  BY <1>5, <1>7, <1>8, <1>9, <1>10, <1>13, <1>14, <1>16, <1>17, <1>18
  DEF Process

-----------------------------------------------------------------------------
\* The handlers.

\* What the request m makes of the members of the DV, and the answer.
Handled(m, d, reply) ==
    /\ d.listening = dv.listening
    /\ \/ /\ m.type = "HELLO" /\ (m.id \in dv.simulation_jobs \/ passive_mode)
          /\ reply = Sent(NoRank)
          /\ d.conncount = dv.conncount /\ d.clients = dv.clients
          /\ d.simulation_jobs = IF passive_mode THEN dv.simulation_jobs \cup {m.id}
                                 ELSE dv.simulation_jobs
       \/ /\ m.type = "HELLO" /\ ~(m.id \in dv.simulation_jobs \/ passive_mode)
          /\ reply = Sent(dv.conncount + 1)
          /\ d.conncount = dv.conncount + 1
          /\ d.clients = assigned(dv.clients, dv.conncount + 1, <<>>)
          /\ d.simulation_jobs = dv.simulation_jobs
       \/ /\ m.type = "FOPEN" /\ m.id \in DOMAIN dv.clients
          /\ d.conncount = dv.conncount + 1 /\ d.clients = dv.clients
          /\ d.simulation_jobs = dv.simulation_jobs \cup {dv.conncount + 1}
       \/ /\ m.type = "FINALIZE"
          /\ d.conncount = dv.conncount /\ d.clients = dv.clients
          /\ d.simulation_jobs = dv.simulation_jobs \ {m.id}
       \/ /\ m.type = "REQUEST_RANGE" /\ m.id \in DOMAIN dv.clients
          /\ reply = Sent(0)
          /\ d.conncount = dv.conncount /\ d.simulation_jobs = dv.simulation_jobs
          /\ d.clients = [dv.clients EXCEPT ![m.id] = handleRangeRequest(dv.clients[m.id], m.arg)]
       \/ m.type = "REQUEST_RANGE" /\ reply = Sent(-1) /\ d = dv
       \/ /\ m.type \notin {"HELLO", "FINALIZE", "REQUEST_RANGE"}
          /\ d.conncount = dv.conncount /\ d.clients = dv.clients
          /\ d.simulation_jobs = dv.simulation_jobs

LEMMA TableFields ==
    ASSUME NEW K, NEW V, NEW t \in Table(K, V)
    PROVE  t \in [DOMAIN t -> V] /\ DOMAIN t \in SUBSET K
<1>1. PICK D \in SUBSET K : t \in [D -> V]
  BY DEF Table
<1>2. QED  BY <1>1

LEMMA AssignedTable ==
    ASSUME NEW K, NEW V, NEW t \in Table(K, V), NEW k \in K, NEW v \in V
    PROVE  assigned(t, k, v) \in Table(K, V)
<1>1. t \in [DOMAIN t -> V] /\ DOMAIN t \in SUBSET K
  BY TableFields
<1>2. assigned(t, k, v) \in [DOMAIN t \cup {k} -> V] /\ DOMAIN t \cup {k} \in SUBSET K
  BY <1>1 DEF assigned
<1>3. QED  BY <1>2 DEF Table

LEMMA UpdatedTable ==
    ASSUME NEW K, NEW V, NEW t \in Table(K, V), NEW k \in DOMAIN t, NEW v \in V
    PROVE  [t EXCEPT ![k] = v] \in Table(K, V) /\ DOMAIN [t EXCEPT ![k] = v] = DOMAIN t
<1>1. t \in [DOMAIN t -> V] /\ DOMAIN t \in SUBSET K
  BY TableFields
<1>2. [t EXCEPT ![k] = v] \in [DOMAIN t -> V]
  BY <1>1
<1>3. QED  BY <1>1, <1>2 DEF Table

LEMMA DvFields ==
    ASSUME Typed
    PROVE  /\ dv \in DvType /\ dv.conncount \in Nat /\ dv.simulation_jobs \in SUBSET Int
           /\ dv.clients \in Table(Nat, Seq(Ranges)) /\ dv.info \in Table(Key, Value)
           /\ dv.quit_requested \in BOOLEAN /\ dv.listening \in BOOLEAN
           /\ DOMAIN dv.clients \subseteq 1 .. dv.conncount
BY DEF Typed, DvType

(* Each handler: its answer, and the members it leaves.                    *)
LEMMA HandlersReturn ==
    ASSUME Typed, NEW m \in RequestType,
           m.type \in {"SET_INFO", "GET_INFO"} => m.arg \in [key : Key, value : Value],
           m.type = "REQUEST_RANGE" => m.arg.range \in Ranges,
           NEW r \in runMessageHandler2(m)
    PROVE  /\ Handled(m, r[1], r[2])
           /\ r[1] \in DvType /\ DOMAIN r[1].clients \subseteq 1 .. r[1].conncount
           /\ r[2] \in ReplyType
<1>0. /\ dv \in DvType /\ dv.conncount \in Nat /\ dv.simulation_jobs \in SUBSET Int
      /\ dv.clients \in Table(Nat, Seq(Ranges)) /\ dv.info \in Table(Key, Value)
      /\ DOMAIN dv.clients \subseteq 1 .. dv.conncount
      /\ m.type \in Type /\ m.id \in Int
  BY DvFields DEF RequestType
<1>1. CASE m.type = "HELLO" /\ (m.id \in dv.simulation_jobs \/ passive_mode)
  <2> DEFINE s == dv.simulation_jobs \cup {m.id}
             d == [dv EXCEPT !.simulation_jobs = s]
  <2>1. r[1] = (IF passive_mode THEN d ELSE dv) /\ r[2] = Sent(NoRank)
    BY <1>1 DEF runMessageHandler2, HelloServed
  <2>2. s \in SUBSET Int
    BY <1>0
  <2> HIDE DEF s
  <2>3. /\ d \in DvType /\ d.conncount = dv.conncount /\ d.clients = dv.clients
        /\ d.simulation_jobs = s /\ d.listening = dv.listening
    BY <1>0, <2>2 DEF DvType
  <2> HIDE DEF d
  <2>4. r[2] \in ReplyType
    BY <2>1, ConstantsTyped DEF NoRank
  <2>5. QED  BY <1>0, <1>1, <2>1, <2>3, <2>4 DEF Handled, s
<1>2. CASE m.type = "HELLO" /\ ~(m.id \in dv.simulation_jobs \/ passive_mode)
  <2> DEFINE n == dv.conncount + 1
             c == assigned(dv.clients, n, <<>>)
             e == [dv EXCEPT !.conncount = n]
             d == [e EXCEPT !.clients = assigned(e.clients, e.conncount, <<>>)]
  <2>1. r[1] = d /\ r[2] = Sent(d.conncount)
    BY <1>2 DEF runMessageHandler2, HelloServed, registerClient, getNewRank
  <2>2. n \in Nat /\ <<>> \in Seq(Ranges)
    BY <1>0
  <2>3. c \in Table(Nat, Seq(Ranges)) /\ DOMAIN c = DOMAIN dv.clients \cup {n}
    <3>1. dv.clients \in Table(Nat, Seq(Ranges))
      BY <1>0
    <3> HIDE DEF n
    <3>2. assigned(dv.clients, n, <<>>) \in Table(Nat, Seq(Ranges))
      BY <2>2, <3>1, AssignedTable
    <3>3. DOMAIN assigned(dv.clients, n, <<>>) = DOMAIN dv.clients \cup {n}
      BY DEF assigned
    <3>4. QED  BY <3>2, <3>3
  <2> HIDE DEF c, n
  <2>4. e \in DvType /\ e.conncount = n /\ e.clients = dv.clients
        /\ e.simulation_jobs = dv.simulation_jobs /\ e.listening = dv.listening
    BY <1>0, <2>2 DEF DvType
  <2> HIDE DEF e
  <2>5. d = [e EXCEPT !.clients = c]
    BY <2>4 DEF c
  <2> HIDE DEF d
  <2>6. /\ d \in DvType /\ d.conncount = n /\ d.clients = c
        /\ d.simulation_jobs = dv.simulation_jobs /\ d.listening = dv.listening
    BY <2>3, <2>4, <2>5 DEF DvType
  <2>7. DOMAIN c \subseteq 1 .. n
    BY <1>0, <2>3 DEF n
  <2>8. r[2] \in ReplyType
    BY <2>1, <2>2, <2>6, ConstantsTyped
  <2>9. QED  BY <1>2, <2>1, <2>6, <2>7, <2>8 DEF Handled, c, n
<1>3. CASE m.type = "FOPEN"
  <2> DEFINE n == dv.conncount + 1
             s == dv.simulation_jobs \cup {n}
             e == [dv EXCEPT !.conncount = n]
             d == [e EXCEPT !.simulation_jobs = @ \cup {e.conncount}]
  <2>1. \/ r[1] = dv /\ r[2] \in {Pending, Sent(0), Sent(1)}
        \/ m.id \in DOMAIN dv.clients /\ r[1] = d /\ r[2] = Sent(1)
    BY <1>3 DEF runMessageHandler2, OpenServed, getNewRank
  <2>2. n \in Nat /\ s \in SUBSET Int
    BY <1>0
  <2>3. e \in DvType /\ e.conncount = n /\ e.clients = dv.clients
        /\ e.simulation_jobs = dv.simulation_jobs /\ e.listening = dv.listening
    <3> HIDE DEF n
    <3>1. QED  BY <1>0, <2>2 DEF DvType
  <2> HIDE DEF n, e
  <2>4. d = [e EXCEPT !.simulation_jobs = s]
    BY <2>3
  <2> HIDE DEF s, d
  <2>5. /\ d \in DvType /\ d.conncount = n /\ d.clients = dv.clients
        /\ d.simulation_jobs = s /\ d.listening = dv.listening
    BY <2>2, <2>3, <2>4 DEF DvType
  <2>6. DOMAIN dv.clients \subseteq 1 .. n
    BY <1>0 DEF n
  <2>7. r[2] \in ReplyType
    BY <2>1, ConstantsTyped
  <2>8. QED  BY <1>0, <1>3, <2>1, <2>5, <2>6, <2>7 DEF Handled, s, n
<1>4. CASE m.type = "FINALIZE"
  <2> DEFINE s == dv.simulation_jobs \ {m.id}
             d == [dv EXCEPT !.simulation_jobs = s]
  <2>1. r[1] = d /\ r[2] = Closed
    BY <1>4 DEF runMessageHandler2, FinalizeServed
  <2>2. s \in SUBSET Int
    BY <1>0
  <2> HIDE DEF s
  <2>3. /\ d \in DvType /\ d.conncount = dv.conncount /\ d.clients = dv.clients
        /\ d.simulation_jobs = s /\ d.listening = dv.listening
    BY <1>0, <2>2 DEF DvType
  <2> HIDE DEF d
  <2>4. QED  BY <1>0, <1>4, <2>1, <2>3, ConstantsTyped DEF Handled, s
<1>5. CASE m.type \in {"STATUS_REQUEST", "none"}
  <2>1. r[1] = dv /\ r[2] \in {Sent(0), Pending}
    BY <1>5 DEF runMessageHandler2, StatusServed
  <2>2. QED  BY <1>0, <1>5, <2>1, ConstantsTyped DEF Handled
<1>6. CASE m.type = "STOP_SERVER"
  <2> DEFINE d == [dv EXCEPT !.quit_requested = TRUE]
  <2>1. r[1] = d /\ r[2] = Closed
    BY <1>6 DEF runMessageHandler2, StopServed, quit
  <2>2. /\ d \in DvType /\ d.conncount = dv.conncount /\ d.clients = dv.clients
        /\ d.simulation_jobs = dv.simulation_jobs /\ d.listening = dv.listening
    BY <1>0 DEF DvType
  <2> HIDE DEF d
  <2>3. QED  BY <1>0, <1>6, <2>1, <2>2, ConstantsTyped DEF Handled
<1>7. CASE m.type = "SET_INFO"
  <2> DEFINE i == assigned(dv.info, m.arg.key, m.arg.value)
             d == [dv EXCEPT !.info = i]
  <2>1. r[1] = d /\ r[2] = Sent(0)
    BY <1>7 DEF runMessageHandler2, ExtendedApiServed
  <2>2. i \in Table(Key, Value)
    <3>1. m.arg.key \in Key /\ m.arg.value \in Value
      BY <1>7
    <3>2. QED  BY <1>0, <3>1, AssignedTable
  <2> HIDE DEF i
  <2>3. /\ d \in DvType /\ d.conncount = dv.conncount /\ d.clients = dv.clients
        /\ d.simulation_jobs = dv.simulation_jobs /\ d.listening = dv.listening
    BY <1>0, <2>2 DEF DvType
  <2> HIDE DEF d
  <2>4. QED  BY <1>0, <1>7, <2>1, <2>3, ConstantsTyped DEF Handled
<1>8. CASE m.type = "GET_INFO"
  <2> DEFINE v == IF m.arg.key \in DOMAIN dv.info THEN dv.info[m.arg.key] ELSE m.arg.value
  <2>1. r[1] = dv /\ r[2] = Sent(v)
    BY <1>8 DEF runMessageHandler2, ExtendedApiServed
  <2>2. v \in Value
    <3>1. m.arg.key \in Key /\ m.arg.value \in Value
      BY <1>8
    <3>2. dv.info \in [DOMAIN dv.info -> Value]
      BY <1>0, TableFields
    <3>3. QED  BY <3>1, <3>2
  <2> HIDE DEF v
  <2>3. v \in Int \cup Value
    BY <2>2
  <2>4. Sent(v) \in ReplyType
    BY <2>3, ConstantsTyped
  <2>5. QED  BY <1>0, <1>8, <2>1, <2>4 DEF Handled
<1>9. CASE m.type = "REQUEST_RANGE" /\ m.id \in DOMAIN dv.clients /\ m.arg.range \notin Malformed
  <2> DEFINE l == handleRangeRequest(dv.clients[m.id], m.arg)
             c == [dv.clients EXCEPT ![m.id] = l]
             d == [dv EXCEPT !.clients = c]
  <2>1. r[1] = d /\ r[2] = Sent(0)
    BY <1>9 DEF runMessageHandler2, ExtendedApiServed
  <2>2. dv.clients \in [DOMAIN dv.clients -> Seq(Ranges)]
    BY <1>0, TableFields
  <2>3. l \in Seq(Ranges)
    <3>1. dv.clients[m.id] \in Seq(Ranges) /\ m.arg.range \in Ranges
      BY <1>9, <2>2
    <3>2. QED  BY <3>1 DEF handleRangeRequest
  <2> HIDE DEF l
  <2>4. c \in Table(Nat, Seq(Ranges)) /\ DOMAIN c = DOMAIN dv.clients
    BY <1>0, <1>9, <2>3, UpdatedTable
  <2> HIDE DEF c
  <2>5. /\ d \in DvType /\ d.conncount = dv.conncount /\ d.clients = c
        /\ d.simulation_jobs = dv.simulation_jobs /\ d.listening = dv.listening
    BY <1>0, <2>4 DEF DvType
  <2> HIDE DEF d
  <2>6. QED  BY <1>0, <1>9, <2>1, <2>4, <2>5, ConstantsTyped DEF Handled, c, l
<1>10. CASE m.type = "REQUEST_RANGE"
            /\ ~(m.id \in DOMAIN dv.clients /\ m.arg.range \notin Malformed)
  <2>1. r[1] = dv /\ r[2] = Sent(-1)
    BY <1>10 DEF runMessageHandler2, ExtendedApiServed
  <2>2. QED  BY <1>0, <1>10, <2>1, ConstantsTyped DEF Handled
<1>11. CASE m.type = "NOT_IMPLEMENTED"
  <2>1. r[1] = dv /\ r[2] = Sent(-1)
    BY <1>11 DEF runMessageHandler2, ExtendedApiServed
  <2>2. QED  BY <1>0, <1>11, <2>1, ConstantsTyped DEF Handled
<1>12. QED
  BY <1>0, <1>1, <1>2, <1>3, <1>4, <1>5, <1>6, <1>7, <1>8, <1>9, <1>10, <1>11 DEF Type

-----------------------------------------------------------------------------
\* The DV's thread.

LEMMA Appended ==
    ASSUME NEW S, NEW s \in Seq(S), NEW x \in S
    PROVE  /\ Append(s, x) \in Seq(S)
           /\ \A y : y \in Range(Append(s, x)) <=> y \in Range(s) \/ y = x
           /\ IsInjective(s) /\ x \notin Range(s) => IsInjective(Append(s, x))
<1> DEFINE t == Append(s, x)
<1>1. /\ t \in Seq(S) /\ Len(t) = Len(s) + 1 /\ Len(s) \in Nat
      /\ DOMAIN t = 1 .. Len(s) + 1 /\ DOMAIN s = 1 .. Len(s)
      /\ \A i \in 1 .. Len(s) : t[i] = s[i]
      /\ t[Len(s) + 1] = x
  OBVIOUS
<1> HIDE DEF t
<1>2. ASSUME NEW y PROVE y \in Range(t) <=> y \in Range(s) \/ y = x
  <2>1. ASSUME y \in Range(t) PROVE y \in Range(s) \/ y = x
    <3>1. PICK i \in DOMAIN t : y = t[i]
      BY <2>1 DEF Range
    <3>2. CASE i = Len(s) + 1
      BY <1>1, <3>1, <3>2
    <3>3. CASE i # Len(s) + 1
      <4>1. i \in DOMAIN s /\ t[i] = s[i]
        BY <1>1, <3>1, <3>3
      <4>2. QED  BY <3>1, <4>1 DEF Range
    <3>4. QED  BY <3>2, <3>3
  <2>2. ASSUME y \in Range(s) PROVE y \in Range(t)
    <3>1. PICK i \in DOMAIN s : y = s[i]
      BY <2>2 DEF Range
    <3>2. i \in DOMAIN t /\ t[i] = y
      BY <1>1, <3>1
    <3>3. QED  BY <3>2 DEF Range
  <2>3. x \in Range(t)
    <3>1. Len(s) + 1 \in DOMAIN t
      BY <1>1
    <3>2. QED  BY <1>1, <3>1 DEF Range
  <2>4. QED  BY <2>1, <2>2, <2>3
<1>3. ASSUME IsInjective(s), x \notin Range(s), NEW i \in DOMAIN t, NEW j \in DOMAIN t,
             t[i] = t[j]
      PROVE  i = j
  <2>1. \A k \in DOMAIN s : s[k] # x
    BY <1>3 DEF Range
  <2>2. \A k, l \in DOMAIN s : s[k] = s[l] => k = l
    BY <1>3 DEF IsInjective
  <2>3. QED  BY <1>1, <1>3, <2>1, <2>2
<1>4. IsInjective(s) /\ x \notin Range(s) => IsInjective(t)
  BY <1>3 DEF IsInjective
<1>5. QED  BY <1>1, <1>2, <1>4 DEF t

LEMMA Dequeued ==
    ASSUME NEW S, NEW s \in Seq(S), s # <<>>, IsInjective(s)
    PROVE  /\ Head(s) \in Range(s) /\ Head(s) \in S
           /\ Tail(s) \in Seq(S) /\ IsInjective(Tail(s))
           /\ \A y : y \in Range(Tail(s)) => y \in Range(s) /\ y # Head(s)
<1> DEFINE t == Tail(s)
<1>1. /\ t \in Seq(S) /\ Len(t) = Len(s) - 1 /\ Len(s) \in Nat \ {0}
      /\ DOMAIN t = 1 .. Len(s) - 1 /\ DOMAIN s = 1 .. Len(s)
      /\ \A i \in 1 .. Len(s) - 1 : t[i] = s[i + 1]
      /\ Head(s) = s[1] /\ s[1] \in S
  OBVIOUS
<1> HIDE DEF t
<1>2. \A k, l \in DOMAIN s : s[k] = s[l] => k = l
  BY DEF IsInjective
<1>3. Head(s) \in Range(s)
  <2>1. 1 \in DOMAIN s
    BY <1>1
  <2>2. QED  BY <1>1, <2>1 DEF Range
<1>4. IsInjective(t)
  <2>1. ASSUME NEW i \in DOMAIN t, NEW j \in DOMAIN t, t[i] = t[j] PROVE i = j
    BY <1>1, <1>2, <2>1
  <2>2. QED  BY <2>1 DEF IsInjective
<1>5. ASSUME NEW y, y \in Range(t) PROVE y \in Range(s) /\ y # Head(s)
  <2>1. PICK i \in DOMAIN t : y = t[i]
    BY <1>5 DEF Range
  <2>2. i + 1 \in DOMAIN s /\ y = s[i + 1] /\ i + 1 # 1 /\ 1 \in DOMAIN s
    BY <1>1, <2>1
  <2>3. QED  BY <1>1, <1>2, <2>2 DEF Range
<1>6. QED  BY <1>1, <1>3, <1>4, <1>5 DEF t

\* It serves the process p at the socket o.
ServeEffect(o, p) ==
    /\ o \in ready /\ backlog[o] # <<>> /\ p = Head(backlog[o])
    /\ proc[p].pc \in {"waiting", "ended"}
    /\ UNCHANGED passive_mode
    /\ backlog' = [backlog EXCEPT ![o] = Tail(backlog[o])] /\ ready' = ready \ {o}
    /\ held' \in SUBSET Proc
    /\ dv' \in DvType /\ DOMAIN dv'.clients \subseteq 1 .. dv'.conncount
    /\ Handled(proc[p].request, dv', proc'[p].reply)
    /\ proc'[p].pc = proc[p].pc /\ proc'[p].request = proc[p].request
    /\ proc'[p].id = proc[p].id /\ proc'[p].ranges = proc[p].ranges
    /\ proc'[p].next = proc[p].next /\ proc'[p].result = proc[p].result
    /\ proc' \in [Proc -> ProcessType]
    /\ \A q \in Proc : q # p => proc'[q] = proc[q]

\* It ends.
FinishEffect ==
    /\ ready = {} /\ ready' = ready /\ dv.listening
    /\ UNCHANGED passive_mode
    /\ backlog' = [o \in Origin |-> <<>>] /\ held' = {}
    /\ dv' \in DvType /\ dv'.conncount = dv.conncount /\ dv'.clients = dv.clients
    /\ dv'.simulation_jobs = dv.simulation_jobs /\ ~dv'.listening
    /\ proc' \in [Proc -> ProcessType]
    /\ \A p \in Proc :
          /\ proc'[p].pc = proc[p].pc /\ proc'[p].request = proc[p].request
          /\ proc'[p].id = proc[p].id /\ proc'[p].ranges = proc[p].ranges
          /\ proc'[p].next = proc[p].next /\ proc'[p].result = proc[p].result
          /\ proc'[p].reply \in {proc[p].reply, Closed}

(* accept(), recv() and the handler serve the first of a backlog.          *)
LEMMA Serves ==
    ASSUME Base, NEW o \in Origin, Accept(o)
    PROVE  Head(backlog[o]) \in Proc /\ ServeEffect(o, Head(backlog[o]))
<1> DEFINE p == Head(backlog[o])
<1>0. Typed /\ BacklogInv
  BY DEF Base
<1>1. o \in ready /\ backlog[o] \in Seq(Proc) /\ backlog[o] # <<>> /\ IsInjective(backlog[o])
  BY <1>0 DEF Accept, Typed, BacklogInv
<1>2. p \in Range(backlog[o]) /\ p \in Proc
  BY <1>1, Dequeued
<1>3. proc[p].pc \notin {"off", "idle"} /\ RequestInv(p)
  BY <1>0, <1>2 DEF BacklogInv, Base
<1>4. PICK r \in runMessageHandler2(proc[p].request) :
         /\ dv' = r[1]
         /\ proc' = [proc EXCEPT ![p].reply = r[2]]
         /\ held' = IF r[2] = Pending THEN held \cup {p} ELSE held
  BY DEF Accept
<1>5. /\ proc[p].pc # "connected" /\ ready' = ready \ {o} /\ UNCHANGED passive_mode
      /\ backlog' = [backlog EXCEPT ![o] = Tail(backlog[o])]
  BY DEF Accept
<1> HIDE DEF p
<1>6. /\ proc[p] \in ProcessType /\ proc[p].request \in RequestType
      /\ proc[p].pc \in {"off", "connected", "waiting", "idle", "ended"}
      /\ proc[p].ranges \in Seq(Ranges)
  BY <1>0, <1>2, ProcessFields
<1>7. proc[p].request.type \in {"SET_INFO", "GET_INFO"} =>
          proc[p].request.arg \in [key : Key, value : Value]
  BY <1>3 DEF RequestInv
<1>8. proc[p].request.type = "REQUEST_RANGE" => proc[p].request.arg.range \in Ranges
  <2>1. HAVE proc[p].request.type = "REQUEST_RANGE"
  <2>2. /\ proc[p].next \in 1 .. Len(proc[p].ranges)
        /\ proc[p].request.arg.range = proc[p].ranges[proc[p].next]
    BY <1>3, <2>1 DEF RequestInv
  <2>3. QED  BY <1>6, <2>2
<1>9. /\ Handled(proc[p].request, r[1], r[2])
      /\ r[1] \in DvType /\ DOMAIN r[1].clients \subseteq 1 .. r[1].conncount
      /\ r[2] \in ReplyType
  BY <1>0, <1>6, <1>7, <1>8, HandlersReturn
<1> DEFINE y == [proc[p] EXCEPT !.reply = r[2]]
<1>10. /\ y \in ProcessType /\ y.pc = proc[p].pc /\ y.request = proc[p].request
       /\ y.id = proc[p].id /\ y.ranges = proc[p].ranges /\ y.next = proc[p].next
       /\ y.result = proc[p].result /\ y.reply = r[2]
  BY <1>6, <1>9 DEF ProcessType
<1>11. proc' = [proc EXCEPT ![p] = y]
  BY <1>4
<1> HIDE DEF y
<1>12. proc'[p] = y /\ (\A q \in Proc : q # p => proc'[q] = proc[q])
       /\ proc' \in [Proc -> ProcessType]
  BY <1>0, <1>2, <1>10, <1>11, OneProcessMoves
<1>13. held' \in SUBSET Proc
  BY <1>0, <1>2, <1>4 DEF Typed
<1>14. dv' \in DvType /\ DOMAIN dv'.clients \subseteq 1 .. dv'.conncount
       /\ Handled(proc[p].request, dv', proc'[p].reply)
  BY <1>4, <1>9, <1>10, <1>12
<1>15. proc[p].pc \in {"waiting", "ended"} /\ p = Head(backlog[o])
  BY <1>3, <1>5, <1>6 DEF p
<1>16. ServeEffect(o, p)
  BY <1>1, <1>5, <1>10, <1>12, <1>13, <1>14, <1>15 DEF ServeEffect
<1>17. QED  BY <1>2, <1>16 DEF p

LEMMA Finishes ==
    ASSUME Base, Finish
    PROVE  FinishEffect
<1>0. Typed
  BY DEF Base
<1> DEFINE open == held \cup Range(backlog["simulator"]) \cup Range(backlog["client"])
<1>1. /\ ready = {} /\ ready' = ready /\ dv.listening /\ UNCHANGED passive_mode
      /\ dv' = [dv EXCEPT !.listening = FALSE]
      /\ proc' = [p \in Proc |-> IF p \in open THEN [proc[p] EXCEPT !.reply = Closed] ELSE proc[p]]
      /\ backlog' = [o \in Origin |-> <<>>] /\ held' = {}
  BY DEF Finish
<1> HIDE DEF open
<1>2. /\ dv' \in DvType /\ dv'.conncount = dv.conncount /\ dv'.clients = dv.clients
      /\ dv'.simulation_jobs = dv.simulation_jobs /\ ~dv'.listening
  BY <1>0, <1>1, DvFields DEF DvType
<1>3. ASSUME NEW p \in Proc
      PROVE  /\ proc'[p] \in ProcessType
             /\ proc'[p].pc = proc[p].pc /\ proc'[p].request = proc[p].request
             /\ proc'[p].id = proc[p].id /\ proc'[p].ranges = proc[p].ranges
             /\ proc'[p].next = proc[p].next /\ proc'[p].result = proc[p].result
             /\ proc'[p].reply \in {proc[p].reply, Closed}
  <2> DEFINE y == [proc[p] EXCEPT !.reply = Closed]
  <2>1. proc[p] \in ProcessType
    BY <1>0, ProcessFields
  <2>2. /\ y \in ProcessType /\ y.pc = proc[p].pc /\ y.request = proc[p].request
        /\ y.id = proc[p].id /\ y.ranges = proc[p].ranges /\ y.next = proc[p].next
        /\ y.result = proc[p].result /\ y.reply = Closed
    BY <2>1, ConstantsTyped DEF ProcessType
  <2>3. proc'[p] = y \/ proc'[p] = proc[p]
    BY <1>1
  <2> HIDE DEF y
  <2>4. QED  BY <2>1, <2>2, <2>3
<1>4. proc' \in [Proc -> ProcessType]
  <2>1. proc' = [p \in Proc |-> proc'[p]]
    BY <1>1
  <2>2. QED  BY <1>3, <2>1
<1>5. QED  BY <1>1, <1>2, <1>3, <1>4 DEF FinishEffect

-----------------------------------------------------------------------------
\* Types, backlogs and requests.

LEMMA OriginValues == Origin = {"simulator", "client"}
BY DEF Origin

LEMMA InitBase == Init => Base
<1> SUFFICES ASSUME Init PROVE Base
  OBVIOUS
<1>1. dv \in DvType /\ DOMAIN dv.clients = {} /\ dv.listening
  <2>1. <<>> \in Table(Nat, Seq(Ranges)) /\ <<>> \in Table(Key, Value) /\ DOMAIN <<>> = {}
    <3>1. <<>> \in [{} -> Seq(Ranges)] /\ <<>> \in [{} -> Value]
      OBVIOUS
    <3>2. QED  BY <3>1 DEF Table
  <2> DEFINE none == <<>>
  <2>2. none \in Table(Nat, Seq(Ranges)) /\ none \in Table(Key, Value) /\ DOMAIN none = {}
    BY <2>1
  <2>3. dv = [conncount |-> 0, simulation_jobs |-> {}, clients |-> none, info |-> none,
              quit_requested |-> FALSE, listening |-> TRUE]
    BY DEF Init
  <2> HIDE DEF none
  <2>4. QED  BY <2>2, <2>3 DEF DvType
<1> DEFINE x == [pc |-> "off", request |-> NoRequest, reply |-> Pending, id |-> Unknown,
                 ranges |-> <<>>, next |-> 1, result |-> 0, calls |-> 0]
<1>2. proc = [p \in Proc |-> x]
  BY DEF Init
<1>3. /\ x \in ProcessType /\ x.pc = "off" /\ x.request = NoRequest /\ x.id = Unknown
      /\ x.ranges = <<>> /\ x.next = 1
  BY ConstantsTyped DEF ProcessType, Unknown
<1> HIDE DEF x
<1>4. backlog \in [Origin -> Seq(Proc)] /\ \A o \in Origin : backlog[o] = <<>>
  BY DEF Init
<1>5. passive_mode \in BOOLEAN /\ ready = {} /\ held = {}
  BY SessionAssumption DEF Init
<1>6. Typed
  BY <1>1, <1>2, <1>3, <1>4, <1>5 DEF Typed
<1>7. BacklogInv
  <2>1. IsInjective(<<>>) /\ Range(<<>>) = {}
    BY DEF IsInjective, Range
  <2>2. QED  BY <1>4, <1>5, <2>1, OriginValues DEF BacklogInv
<1>8. ASSUME NEW p \in Proc PROVE RequestInv(p)
  BY <1>2, <1>3, ConstantsTyped DEF RequestInv
<1>9. QED  BY <1>6, <1>7, <1>8 DEF Base

(* A process that is not in a backlog goes there, or changes.              *)
LEMMA ProcessKeepsBacklog ==
    ASSUME Base, NEW p \in Proc, ProcessEffect(p)
    PROVE  BacklogInv'
<1>0. /\ Typed /\ BacklogInv /\ RequestInv(p) /\ \A q \in Proc : q # p => proc'[q] = proc[q]
      /\ backlog \in [Origin -> Seq(Proc)] /\ \A o \in Origin : backlog[o] \in Seq(Proc)
  BY DEF Base, ProcessEffect, Typed
<1>1. CASE backlog' = backlog /\ ready' = ready /\ dv' = dv /\
           (\/ \A o \in Origin : p \notin Range(backlog[o])
            \/ proc'[p].pc \notin {"off", "idle"} /\ proc'[p].reply = proc[p].reply)
  <2>1. ASSUME NEW o \in Origin, NEW q \in Range(backlog[o])
        PROVE  proc'[q].pc \notin {"off", "idle"} /\ proc'[q].reply = Pending
    <3>1. proc[q].pc \notin {"off", "idle"} /\ proc[q].reply = Pending
      BY <1>0, <2>1 DEF BacklogInv
    <3>2. q \in Proc
      BY <1>0, <2>1 DEF Range
    <3>3. CASE q = p
      BY <1>1, <2>1, <3>1, <3>3
    <3>4. QED  BY <1>0, <3>1, <3>2, <3>3
  <2>2. QED  BY <1>0, <1>1, <2>1 DEF BacklogInv
<1>2. ASSUME proc[p].pc \in {"off", "idle"} \/ proc[p].reply # Pending
      PROVE  \A o \in Origin : p \notin Range(backlog[o])
  BY <1>0, <1>2 DEF BacklogInv
<1>3. CASE StaysEffect(p)
  <2>1. backlog' = backlog /\ ready' = ready /\ dv' = dv /\ proc'[p].reply = proc[p].reply
    BY <1>3 DEF StaysEffect
  <2>2. proc'[p].pc \notin {"off", "idle"}
    BY <1>3 DEF StaysEffect, Written
  <2>3. QED  BY <1>1, <2>1, <2>2
<1>4. CASE ReceiveEffect(p)
  BY <1>1, <1>2, <1>4 DEF ReceiveEffect
<1>5. CASE AskEffect(p)
  <2>1. PICK r \in RequestType, ranges \in Seq(Ranges), next \in Nat :
           Asks(p, r, ranges, next) /\ proc[p].pc \in {"off", "idle"}
    BY <1>5 DEF AskEffect
  <2>2. \A o \in Origin : p \notin Range(backlog[o])
    BY <1>2, <2>1
  <2>3. ready' = ready /\ dv' = dv
    BY <2>1 DEF Asks
  <2>4. CASE backlog' = backlog
    BY <1>1, <2>2, <2>3, <2>4
  <2>5. CASE backlog' # backlog
    <3>1. PICK a \in Origin : backlog' = [backlog EXCEPT ![a] = Append(backlog[a], p)]
      BY <2>1, <2>5 DEF Asks
    <3>2. /\ dv.listening /\ proc'[p].pc \notin {"off", "idle"} /\ proc'[p].reply = Pending
      BY <2>1, <2>5 DEF Asks
    <3>3. /\ backlog'[a] = Append(backlog[a], p)
          /\ \A o \in Origin : o # a => backlog'[o] = backlog[o]
      BY <1>0, <3>1
    <3>4. /\ \A y : y \in Range(backlog'[a]) <=> y \in Range(backlog[a]) \/ y = p
          /\ IsInjective(backlog'[a])
      <4>1. IsInjective(backlog[a]) /\ p \notin Range(backlog[a]) /\ backlog[a] \in Seq(Proc)
        BY <1>0, <2>2 DEF BacklogInv
      <4>2. QED  BY <3>3, <4>1, Appended
    <3>5. \A o \in Origin : IsInjective(backlog'[o])
      BY <1>0, <3>3, <3>4 DEF BacklogInv
    <3>6. ASSUME NEW o \in Origin, NEW q \in Range(backlog'[o])
          PROVE  q = p \/ q \in Range(backlog[o])
      BY <3>3, <3>4
    <3>7. Range(backlog'["simulator"]) \cap Range(backlog'["client"]) = {}
      <4>1. Range(backlog["simulator"]) \cap Range(backlog["client"]) = {}
        BY <1>0 DEF BacklogInv
      <4>2. "simulator" \in Origin /\ "client" \in Origin /\ a \in {"simulator", "client"}
        BY DEF Origin
      <4>3. CASE a = "simulator"
        <5>1. backlog'["client"] = backlog["client"] /\ p \notin Range(backlog["client"])
          BY <2>2, <3>3, <4>2, <4>3
        <5>2. QED  BY <3>4, <4>1, <4>3, <5>1
      <4>4. CASE a = "client"
        <5>1. backlog'["simulator"] = backlog["simulator"] /\ p \notin Range(backlog["simulator"])
          BY <2>2, <3>3, <4>2, <4>4
        <5>2. QED  BY <3>4, <4>1, <4>4, <5>1
      <4>5. QED  BY <4>2, <4>3, <4>4
    <3>8. ASSUME NEW o \in Origin, NEW q \in Range(backlog'[o])
          PROVE  proc'[q].pc \notin {"off", "idle"} /\ proc'[q].reply = Pending
      <4>1. CASE q = p
        BY <3>2, <4>1
      <4>2. CASE q # p
        <5>1. q \in Range(backlog[o])
          BY <3>6, <3>8, <4>2
        <5>2. proc[q].pc \notin {"off", "idle"} /\ proc[q].reply = Pending
          BY <1>0, <5>1 DEF BacklogInv
        <5>3. q \in Proc
          BY <1>0, <5>1 DEF Range
        <5>4. QED  BY <1>0, <4>2, <5>2, <5>3
      <4>3. QED  BY <4>1, <4>2
    <3>9. \A o \in ready' : backlog'[o] # <<>>
      <4>1. ASSUME NEW o \in ready PROVE backlog'[o] # <<>>
        <5>1. o \in Origin /\ backlog[o] # <<>>
          BY <1>0 DEF Typed, BacklogInv
        <5>2. Append(backlog[a], p) # <<>>
          BY <1>0
        <5>3. QED  BY <3>3, <5>1, <5>2
      <4>2. QED  BY <2>3, <4>1
    <3>10. ready' # {} => dv'.listening
      BY <2>3, <3>2
    <3>11. QED  BY <3>5, <3>7, <3>8, <3>9, <3>10 DEF BacklogInv
  <2>6. QED  BY <2>4, <2>5
<1>6. CASE FailEffect(p)
  BY <1>1, <1>2, <1>6 DEF FailEffect
<1>7. QED  BY <1>3, <1>4, <1>5, <1>6 DEF ProcessEffect

LEMMA ProcessKeepsTyped ==
    ASSUME Base, NEW p \in Proc, ProcessEffect(p)
    PROVE  Typed' /\ dv' = dv /\ passive_mode' = passive_mode
<1>0. Typed /\ proc' \in [Proc -> ProcessType]
  BY DEF Base, ProcessEffect
<1>1. UNCHANGED <<passive_mode, dv, ready, held>>
  BY DEF ProcessEffect, AskEffect, Asks, StaysEffect, ReceiveEffect, FailEffect
<1>2. backlog' \in [Origin -> Seq(Proc)]
  <2>1. CASE backlog' = backlog
    BY <1>0, <2>1 DEF Typed
  <2>2. CASE backlog' # backlog
    <3>1. PICK a \in Origin : backlog' = [backlog EXCEPT ![a] = Append(backlog[a], p)]
      BY <2>2 DEF ProcessEffect, AskEffect, Asks, StaysEffect, ReceiveEffect, FailEffect
    <3>2. backlog \in [Origin -> Seq(Proc)] /\ backlog[a] \in Seq(Proc)
      BY <1>0 DEF Typed
    <3>3. Append(backlog[a], p) \in Seq(Proc)
      BY <3>2
    <3>4. QED  BY <3>1, <3>2, <3>3
  <2>3. QED  BY <2>1, <2>2
<1>3. QED  BY <1>0, <1>1, <1>2 DEF Typed

LEMMA ProcessKeepsRequests ==
    ASSUME Base, NEW p \in Proc, ProcessEffect(p)
    PROVE  RequestInv(p)'
<1>0. /\ Typed /\ RequestInv(p) /\ proc[p].next \in Nat /\ Len(proc[p].ranges) \in Nat
      /\ dv' = dv /\ proc[p].ranges \in Seq(Ranges)
  BY ProcessKeepsTyped, ProcessFields DEF Base
<1>1. p \in Job => p \notin Slow /\ p \notin Client
  BY SessionAssumption
<1>2. CASE AskEffect(p)
  <2>1. PICK r \in RequestType, ranges \in Seq(Ranges), next \in Nat :
           /\ Asks(p, r, ranges, next)
           /\ \/ /\ proc[p].pc = "off"
                 /\ r.type = "HELLO" /\ r.id = HelloId(p)
                 /\ p \in Job /\ ~passive_mode => p \in dv.simulation_jobs
                 /\ ranges = proc[p].ranges /\ next = proc[p].next
              \/ /\ proc[p].pc = "idle"
                 /\ r.type \notin {"HELLO", "REQUEST_RANGE"}
                 /\ r.type = "FINALIZE" => p \in Job /\ r.id = p
                 /\ r.type \in {"SET_INFO", "GET_INFO"} => r.arg \in [key : Key, value : Value]
                 /\ ranges = proc[p].ranges /\ next = proc[p].next
              \/ /\ proc[p].pc = "idle" /\ p \in Client
                 /\ r.type = "REQUEST_RANGE" /\ r.id = proc[p].id
                 /\ next \in 1 .. Len(ranges)
                 /\ r.arg.first = (next = 1) /\ r.arg.range = ranges[next]
                 /\ next = 1 \/ (ranges = proc[p].ranges /\ next = proc[p].next)
    BY <1>2 DEF AskEffect
  <2>2. CASE ~dv.listening
    <3>1. proc'[p].pc = "ended" /\ proc'[p].request = NoRequest
          /\ proc'[p].ranges = proc[p].ranges /\ proc'[p].next = proc[p].next
      BY <1>0, <2>1, <2>2 DEF Asks, RequestInv
    <3>2. QED  BY <1>0, <3>1, ConstantsTyped DEF RequestInv
  <2>3. CASE dv.listening
    <3>1. /\ proc'[p].id = proc[p].id
          /\ proc'[p].pc \in {"connected", "waiting", "ended"}
          /\ proc'[p].pc = "ended" => r.type \in OneWay
          /\ p \notin Slow /\ r.type \in OneWay => proc'[p].pc = "ended"
          /\ proc'[p].request = r /\ proc'[p].reply = Pending
          /\ proc'[p].ranges = ranges /\ proc'[p].next = next
      BY <2>1, <2>3 DEF Asks
    <3>2. CASE proc[p].pc = "off"
      <4>1. proc[p].id = Unknown /\ proc[p].ranges = <<>> /\ r.type = "HELLO"
            /\ r.id = HelloId(p) /\ ranges = proc[p].ranges /\ next = proc[p].next
        BY <1>0, <2>1, <3>2 DEF RequestInv
      <4>2. proc'[p].pc \in {"connected", "waiting"}
        BY <3>1, <4>1 DEF OneWay
      <4>3. Pending.value \in Int /\ Pending # Closed
        BY ConstantsTyped
      <4>4. QED  BY <1>0, <3>1, <4>1, <4>2, <4>3 DEF RequestInv
    <3>3. CASE proc[p].pc = "idle" /\ r.type # "REQUEST_RANGE"
      BY <1>0, <1>1, <2>1, <3>1, <3>3 DEF RequestInv, OneWay
    <3>4. CASE proc[p].pc = "idle" /\ r.type = "REQUEST_RANGE"
      <4>1. /\ p \in Client /\ r.id = proc[p].id
            /\ next \in 1 .. Len(ranges)
            /\ r.arg.first = (next = 1) /\ r.arg.range = ranges[next]
        BY <2>1, <3>4
      <4>2. proc'[p].pc \in {"connected", "waiting"}
        BY <3>1, <3>4 DEF OneWay
      <4>3. next \in 1 .. Len(ranges) + 1 /\ Pending.value = 0
        BY <4>1, ConstantsTyped
      <4>4. QED  BY <3>1, <3>4, <4>1, <4>2, <4>3 DEF RequestInv
    <3>5. QED  BY <2>1, <3>2, <3>3, <3>4
  <2>4. QED  BY <2>2, <2>3
<1>3. CASE StaysEffect(p)
  <2>1. /\ proc'[p].id = proc[p].id /\ proc'[p].reply = proc[p].reply
        /\ proc'[p].ranges = proc[p].ranges /\ proc'[p].next = proc[p].next
    BY <1>3 DEF StaysEffect
  <2>2. CASE proc[p].pc = "connected" /\ proc'[p].request = proc[p].request
             /\ proc'[p].pc = Written(proc[p].request)
    <3>1. proc'[p].pc \in {"waiting", "ended"}
          /\ (proc[p].request.type \in {"HELLO", "REQUEST_RANGE"} => proc'[p].pc = "waiting")
          /\ (proc[p].request.type = "FINALIZE" => proc'[p].pc = "ended")
      BY <2>2 DEF Written, OneWay
    <3>2. QED  BY <1>0, <2>1, <2>2, <3>1 DEF RequestInv
  <2>3. CASE proc'[p].pc = "ended" /\ proc'[p].request = NoRequest
    BY <1>0, <2>1, <2>3, ConstantsTyped DEF RequestInv
  <2>4. CASE proc'[p].pc = "ended" /\ proc[p].pc = "idle" /\ proc'[p].request = proc[p].request
    <3>1. proc'[p].request = NoRequest
      BY <1>0, <2>4 DEF RequestInv
    <3>2. QED  BY <2>3, <2>4, <3>1
  <2>5. QED  BY <1>3, <2>2, <2>3, <2>4 DEF StaysEffect
<1>4. CASE ReceiveEffect(p)
  <2>1. /\ proc'[p].request = NoRequest /\ proc'[p].pc \in {"idle", "ended"}
        /\ proc'[p].ranges = proc[p].ranges
    BY <1>4 DEF ReceiveEffect
  <2>2. proc'[p].next \in 1 .. Len(proc[p].ranges) + 1
    <3>1. proc[p].next \in 1 .. Len(proc[p].ranges) + 1
      BY <1>0 DEF RequestInv
    <3>2. CASE proc[p].request.type = "REQUEST_RANGE"
      <4>1. proc[p].next \in 1 .. Len(proc[p].ranges)
        BY <1>0, <3>2 DEF RequestInv
      <4>2. proc'[p].next \in {proc[p].next + 1, Len(proc[p].ranges) + 1}
        BY <1>4, <3>2 DEF ReceiveEffect
      <4>3. QED  BY <1>0, <4>1, <4>2
    <3>3. CASE proc[p].request.type # "REQUEST_RANGE"
      BY <1>4, <3>1, <3>3 DEF ReceiveEffect
    <3>4. QED  BY <3>2, <3>3
  <2>3. QED  BY <1>0, <2>1, <2>2, ConstantsTyped DEF RequestInv
<1>5. CASE FailEffect(p)
  <2>1. proc'[p] \in ProcessType
    BY DEF ProcessEffect
  <2>2. Len(proc'[p].ranges) \in Nat
    BY <2>1 DEF ProcessType
  <2>3. /\ p \in Client /\ proc'[p].pc = "idle" /\ proc'[p].request = NoRequest
        /\ proc'[p].next \in 1 .. Len(proc'[p].ranges) + 1
    BY <1>0, <1>5, <2>2 DEF FailEffect, RequestInv
  <2>4. QED  BY <2>3, ConstantsTyped DEF RequestInv
<1>6. QED  BY <1>2, <1>3, <1>4, <1>5 DEF ProcessEffect

LEMMA ProcessKeepsBase ==
    ASSUME Base, NEW p \in Proc, ProcessEffect(p)
    PROVE  Base'
<1>1. Typed' /\ BacklogInv' /\ RequestInv(p)' /\ dv' = dv
  BY ProcessKeepsTyped, ProcessKeepsBacklog, ProcessKeepsRequests
<1>2. ASSUME NEW q \in Proc, q # p PROVE RequestInv(q)'
  <2>1. RequestInv(q) /\ proc'[q] = proc[q]
    BY <1>2 DEF Base, ProcessEffect
  <2>2. QED  BY <1>1, <2>1 DEF RequestInv
<1>3. QED  BY <1>1, <1>2 DEF Base

LEMMA ServeKeepsBase ==
    ASSUME Base, NEW o \in Origin, NEW p \in Proc, ServeEffect(o, p)
    PROVE  Base'
<1>0. /\ Typed /\ BacklogInv /\ RequestInv(p) /\ \A q \in Proc : q # p => proc'[q] = proc[q]
      /\ backlog \in [Origin -> Seq(Proc)] /\ ready \in SUBSET Origin
      /\ o \in ready /\ backlog[o] # <<>> /\ p = Head(backlog[o])
      /\ IsInjective(backlog[o]) /\ backlog[o] \in Seq(Proc)
  BY DEF Base, Typed, BacklogInv, ServeEffect
<1>1. /\ Handled(proc[p].request, dv', proc'[p].reply)
      /\ dv' \in DvType /\ DOMAIN dv'.clients \subseteq 1 .. dv'.conncount
      /\ backlog' = [backlog EXCEPT ![o] = Tail(backlog[o])] /\ ready' = ready \ {o}
      /\ held' \in SUBSET Proc /\ passive_mode' = passive_mode
      /\ proc' \in [Proc -> ProcessType]
  BY DEF ServeEffect
<1>2. /\ Tail(backlog[o]) \in Seq(Proc) /\ IsInjective(Tail(backlog[o]))
      /\ \A y : y \in Range(Tail(backlog[o])) => y \in Range(backlog[o]) /\ y # p
      /\ p \in Range(backlog[o])
  BY <1>0, Dequeued
<1>3. /\ backlog'[o] = Tail(backlog[o]) /\ \A a \in Origin : a # o => backlog'[a] = backlog[a]
      /\ backlog' \in [Origin -> Seq(Proc)]
  BY <1>0, <1>1, <1>2
<1>4. dv'.listening = dv.listening
  BY <1>1 DEF Handled
<1>5. Typed'
  BY <1>0, <1>1, <1>3 DEF Typed
<1>6. \A a \in Origin : a # o => p \notin Range(backlog[a])
  <2>1. Range(backlog["simulator"]) \cap Range(backlog["client"]) = {}
    BY <1>0 DEF BacklogInv
  <2>2. QED  BY <1>2, <2>1 DEF Origin
<1>7. ASSUME NEW a \in Origin, NEW q \in Range(backlog'[a])
      PROVE  q \in Range(backlog[a]) /\ q # p
  BY <1>2, <1>3, <1>6, <1>7
<1>8. BacklogInv'
  <2>1. \A a \in Origin : IsInjective(backlog'[a])
    BY <1>0, <1>2, <1>3 DEF BacklogInv
  <2>2. Range(backlog'["simulator"]) \cap Range(backlog'["client"]) = {}
    <3>1. Range(backlog["simulator"]) \cap Range(backlog["client"]) = {}
      BY <1>0 DEF BacklogInv
    <3>2. "simulator" \in Origin /\ "client" \in Origin
      BY DEF Origin
    <3>3. QED  BY <1>7, <3>1, <3>2
  <2>3. ASSUME NEW a \in Origin, NEW q \in Range(backlog'[a])
        PROVE  proc'[q].pc \notin {"off", "idle"} /\ proc'[q].reply = Pending
    <3>1. q \in Range(backlog[a]) /\ q # p
      BY <1>7, <2>3
    <3>2. proc[q].pc \notin {"off", "idle"} /\ proc[q].reply = Pending
      BY <1>0, <3>1 DEF BacklogInv
    <3>3. q \in Proc
      BY <1>0, <3>1 DEF Range
    <3>4. QED  BY <1>0, <3>1, <3>2, <3>3
  <2>4. ready' # {} => dv'.listening
    BY <1>0, <1>1, <1>4 DEF BacklogInv
  <2>5. \A a \in ready' : backlog'[a] # <<>>
    BY <1>0, <1>1, <1>3 DEF BacklogInv
  <2>6. QED  BY <2>1, <2>2, <2>3, <2>4, <2>5 DEF BacklogInv
<1>9. RequestInv(p)'
  <2>1. /\ proc'[p].pc = proc[p].pc /\ proc'[p].request = proc[p].request
        /\ proc'[p].id = proc[p].id /\ proc'[p].ranges = proc[p].ranges
        /\ proc'[p].next = proc[p].next
    BY DEF ServeEffect
  <2>2. dv.conncount \in Nat
    BY <1>0, DvFields
  <2>3. proc[p].request.type = "HELLO" =>
           proc'[p].reply.value \in Int /\ proc'[p].reply # Closed
    <3>1. HAVE proc[p].request.type = "HELLO"
    <3>2. proc'[p].reply \in {Sent(NoRank), Sent(dv.conncount + 1)}
      BY <1>1, <3>1 DEF Handled
    <3>3. NoRank \in Int /\ dv.conncount + 1 \in Int
      BY <2>2 DEF NoRank
    <3>4. QED  BY <3>2, <3>3, ConstantsTyped
  <2>4. proc[p].request.type = "REQUEST_RANGE" => proc'[p].reply.value \in {0, -1}
    <3>1. HAVE proc[p].request.type = "REQUEST_RANGE"
    <3>2. proc'[p].reply \in {Sent(0), Sent(-1)}
      BY <1>1, <3>1 DEF Handled
    <3>3. QED  BY <3>2, ConstantsTyped
  <2>5. QED  BY <1>0, <2>1, <2>3, <2>4 DEF RequestInv
<1>10. ASSUME NEW q \in Proc, q # p PROVE RequestInv(q)'
  <2>1. RequestInv(q) /\ proc'[q] = proc[q]
    BY <1>0, <1>10 DEF Base
  <2>2. QED  BY <1>4, <2>1 DEF RequestInv
<1>11. QED  BY <1>5, <1>8, <1>9, <1>10 DEF Base

LEMMA FinishKeepsBase ==
    ASSUME Base, FinishEffect
    PROVE  Base'
<1>1. Typed'
  <2>1. dv'.conncount = dv.conncount /\ dv'.clients = dv.clients
        /\ DOMAIN dv.clients \subseteq 1 .. dv.conncount
    BY DEF Base, Typed, FinishEffect
  <2>2. QED  BY <2>1 DEF Base, Typed, FinishEffect
<1>2. BacklogInv'
  <2>1. ready' = {} /\ \A o \in Origin : backlog'[o] = <<>>
    BY DEF FinishEffect
  <2>2. IsInjective(<<>>) /\ Range(<<>>) = {}
    BY DEF IsInjective, Range
  <2>3. QED  BY <2>1, <2>2, OriginValues DEF BacklogInv
<1>3. ASSUME NEW p \in Proc PROVE RequestInv(p)'
  <2>1. RequestInv(p) /\ ~dv'.listening
    BY DEF Base, FinishEffect
  <2>2. /\ proc'[p].pc = proc[p].pc /\ proc'[p].request = proc[p].request
        /\ proc'[p].id = proc[p].id /\ proc'[p].ranges = proc[p].ranges
        /\ proc'[p].next = proc[p].next
        /\ proc'[p].reply \in {proc[p].reply, Closed}
    BY DEF FinishEffect
  <2>3. Closed.value = 0
    BY ConstantsTyped
  <2>4. QED  BY <2>1, <2>2, <2>3 DEF RequestInv
<1>4. QED  BY <1>1, <1>2, <1>3 DEF Base

LEMMA SelectKeepsBase ==
    ASSUME Base, Select
    PROVE  Base'
<1>1. Typed'
  BY DEF Base, Typed, Select
<1>2. BacklogInv'
  BY DEF Base, BacklogInv, Select
<1>3. ASSUME NEW p \in Proc PROVE RequestInv(p)'
  <2>1. RequestInv(p) /\ proc' = proc /\ dv' = dv
    BY DEF Base, Select
  <2>2. QED  BY <2>1 DEF RequestInv
<1>4. QED  BY <1>1, <1>2, <1>3 DEF Base

LEMMA VarsKeepBase ==
    ASSUME Base, UNCHANGED vars
    PROVE  Base'
<1>1. Typed'
  BY DEF Base, Typed, vars
<1>2. BacklogInv'
  BY DEF Base, BacklogInv, vars
<1>3. ASSUME NEW p \in Proc PROVE RequestInv(p)'
  <2>1. RequestInv(p) /\ proc' = proc /\ dv' = dv
    BY DEF Base, vars
  <2>2. QED  BY <2>1 DEF RequestInv
<1>4. QED  BY <1>1, <1>2, <1>3 DEF Base

LEMMA NextBase == Base /\ [Next]_vars => Base'
<1> SUFFICES ASSUME Base, [Next]_vars PROVE Base'
  OBVIOUS
<1>1. CASE Select
  BY <1>1, SelectKeepsBase
<1>2. ASSUME NEW o \in Origin, Accept(o) PROVE Base'
  <2>1. PICK p \in Proc : p = Head(backlog[o])
    BY <1>2, Serves
  <2>2. ServeEffect(o, p)
    BY <1>2, <2>1, Serves
  <2>3. QED  BY <2>2, ServeKeepsBase
<1>3. CASE Finish
  BY <1>3, Finishes, FinishKeepsBase
<1>4. ASSUME NEW p \in Proc, Process(p) PROVE Base'
  BY <1>4, Proceeds, ProcessKeepsBase
<1>5. CASE UNCHANGED vars
  BY <1>5, VarsKeepBase
<1>6. QED  BY <1>1, <1>2, <1>3, <1>4, <1>5 DEF Next, Server

LEMMA Structure == Spec => []Base
BY InitBase, NextBase, PTL DEF Spec

-----------------------------------------------------------------------------
\* Ids.

LEMMA RankTyped ==
    ASSUME Base, NEW p \in Proc
    PROVE  /\ RankOf(p) \in Int
           /\ proc[p].id >= 0 => RankOf(p) = proc[p].id
           /\ proc[p].request.type = "HELLO" => proc[p].id < 0
<1>1. RequestInv(p) /\ proc[p].id \in Int
  BY ProcessFields DEF Base
<1>2. Unknown < 0
  BY DEF Unknown
<1>3. proc[p].request.type = "HELLO" => proc[p].reply.value \in Int /\ proc[p].id = Unknown
  BY <1>1 DEF RequestInv
<1>4. QED  BY <1>1, <1>2, <1>3 DEF RankOf

LEMMA NextRankTyped ==
    ASSUME Base', NEW p \in Proc
    PROVE  RankOf(p)' \in Int
<1>1. RequestInv(p)' /\ proc'[p] \in ProcessType
  BY DEF Base, Typed
<1>2. proc'[p].id \in Int
  BY <1>1 DEF ProcessType
<1>3. proc'[p].request.type = "HELLO" => proc'[p].reply.value \in Int
  BY <1>1 DEF RequestInv
<1>4. QED  BY <1>2, <1>3 DEF RankOf

(* Ranks stay where they are or are lost, and no client is forgotten.      *)
LEMMA RanksKept ==
    ASSUME RanksInv, DOMAIN dv.clients \subseteq DOMAIN dv'.clients,
           \A p \in Client \cup Tool : RankOf(p)' \in Int,
           \A p \in Client \cup Tool : RankOf(p)' = RankOf(p) \/ RankOf(p)' < 0
    PROVE  RanksInv'
<1>1. ASSUME NEW p \in Client \cup Tool, RankOf(p)' >= 0
      PROVE  /\ RankOf(p)' \in DOMAIN dv'.clients
             /\ \A q \in (Client \cup Tool) \ {p} : RankOf(q)' # RankOf(p)'
  <2>1. RankOf(p)' = RankOf(p) /\ RankOf(p) >= 0 /\ RankOf(p)' \in Int
    BY <1>1
  <2>2. RankOf(p) \in DOMAIN dv.clients
        /\ \A q \in (Client \cup Tool) \ {p} : RankOf(q) # RankOf(p)
    BY <2>1 DEF RanksInv
  <2>3. ASSUME NEW q \in (Client \cup Tool) \ {p} PROVE RankOf(q)' # RankOf(p)'
    <3>1. CASE RankOf(q)' = RankOf(q)
      BY <2>1, <2>2, <3>1
    <3>2. CASE RankOf(q)' < 0
      BY <1>1, <2>1, <3>2
    <3>3. QED  BY <3>1, <3>2
  <2>4. QED  BY <2>1, <2>2, <2>3
<1>2. QED  BY <1>1 DEF RanksInv

LEMMA ProcessKeepsRank ==
    ASSUME Base, Base', NEW p \in Proc, ProcessEffect(p), p \notin Job
    PROVE  RankOf(p)' = RankOf(p) \/ RankOf(p)' < 0
<1>0. /\ Typed /\ RequestInv(p) /\ RequestInv(p)' /\ proc[p].id \in Int
      /\ Pending.is = "pending" /\ NoRequest.type = "none" /\ Unknown < 0 /\ NoRank < 0
  BY ProcessFields, ConstantsTyped DEF Base, Unknown, NoRank
<1>1. CASE AskEffect(p)
  <2>1. proc[p].request = NoRequest /\ proc'[p].id = proc[p].id
    BY <1>0, <1>1 DEF AskEffect, Asks, RequestInv
  <2>2. proc'[p].request = NoRequest \/ proc'[p].reply = Pending
    BY <1>1, <2>1 DEF AskEffect, Asks
  <2>3. QED  BY <1>0, <2>1, <2>2 DEF RankOf
<1>2. CASE StaysEffect(p)
  <2>1. proc'[p].id = proc[p].id /\ proc'[p].reply = proc[p].reply
        /\ (proc'[p].request = proc[p].request \/ proc'[p].request = NoRequest)
    BY <1>2 DEF StaysEffect
  <2>2. proc[p].request.type = "HELLO" => proc[p].id = Unknown
    BY <1>0 DEF RequestInv
  <2>3. QED  BY <1>0, <2>1, <2>2 DEF RankOf
<1>3. CASE ReceiveEffect(p)
  <2>1. proc'[p].request = NoRequest
    BY <1>3 DEF ReceiveEffect
  <2>2. CASE proc[p].request.type = "HELLO"
    <3>1. proc[p].id = Unknown
      BY <1>0, <2>2 DEF RequestInv
    <3>2. \/ proc[p].reply.is = "sent" /\ proc'[p].id = proc[p].reply.value
          \/ proc[p].reply.is # "sent" /\ proc'[p].id \in {NoRank, proc[p].id}
      BY <1>3, <2>2 DEF ReceiveEffect
    <3>3. QED  BY <1>0, <2>1, <2>2, <3>1, <3>2 DEF RankOf
  <2>3. CASE proc[p].request.type # "HELLO"
    <3>1. proc'[p].id = proc[p].id
      BY <1>3, <2>3 DEF ReceiveEffect
    <3>2. QED  BY <1>0, <2>1, <2>3, <3>1 DEF RankOf
  <2>4. QED  BY <2>2, <2>3
<1>4. CASE FailEffect(p)
  BY <1>4 DEF FailEffect, RankOf
<1>5. QED  BY <1>1, <1>2, <1>3, <1>4 DEF ProcessEffect

LEMMA ProcessKeepsIds ==
    ASSUME Base, Base', IdsInv, NEW p \in Proc, ProcessEffect(p)
    PROVE  IdsInv'
<1>0. /\ Typed /\ RequestInv(p) /\ dv' = dv /\ passive_mode' = passive_mode
      /\ \A q \in Proc : q # p => proc'[q] = proc[q]
      /\ proc[p].pc \in {"off", "connected", "waiting", "idle", "ended"}
      /\ proc[p].reply \in ReplyType
  BY ProcessKeepsTyped, ProcessFields DEF Base, ProcessEffect
<1>1. RanksInv'
  <2>1. ASSUME NEW q \in Client \cup Tool
        PROVE  RankOf(q)' \in Int /\ (RankOf(q)' = RankOf(q) \/ RankOf(q)' < 0)
    <3>1. q \in Proc /\ q \notin Job
      BY SessionAssumption DEF Proc
    <3>2. \A x \in Proc : RankOf(x)' \in Int
      BY NextRankTyped
    <3>3. CASE q = p
      BY <3>1, <3>2, <3>3, ProcessKeepsRank
    <3>4. CASE q # p
      <4>1. proc'[q] = proc[q]
        BY <1>0, <3>1, <3>4
      <4>2. RankOf(q)' = RankOf(q)
        BY <4>1 DEF RankOf
      <4>3. QED  BY <3>1, <3>2, <4>2
    <3>5. QED  BY <3>3, <3>4
  <2>2. DOMAIN dv.clients \subseteq DOMAIN dv'.clients /\ RanksInv
    BY <1>0 DEF IdsInv
  <2>3. QED  BY <2>1, <2>2, RanksKept
<1>2. JobIdsInv'
  <2>1. CASE passive_mode
    BY <1>0, <2>1 DEF IdsInv, JobIdsInv
  <2>2. CASE ~passive_mode
    <3>1. /\ dv.simulation_jobs \subseteq 1 .. dv.conncount
          /\ dv.simulation_jobs \cap DOMAIN dv.clients = {}
          /\ \A j \in Job : proc[j].pc # "off" => j <= dv.conncount /\ j \notin DOMAIN dv.clients
      BY <2>2 DEF IdsInv, JobIdsInv
    <3>2. ASSUME NEW j \in Job, proc'[j].pc # "off"
          PROVE  j <= dv.conncount /\ j \notin DOMAIN dv.clients
      <4>1. CASE proc[j].pc # "off"
        BY <3>1, <4>1
      <4>2. CASE proc[j].pc = "off"
        <5>1. j = p
          BY <1>0, <3>2, <4>2 DEF Proc
        <5>2. j \in dv.simulation_jobs
          BY <2>2, <3>2, <4>2, <5>1 DEF ProcessEffect, AskEffect, StaysEffect, ReceiveEffect,
                                             FailEffect
        <5>3. dv.conncount \in Nat
          BY <1>0, DvFields
        <5>4. QED  BY <3>1, <5>2, <5>3
      <4>3. QED  BY <4>1, <4>2
    <3>3. QED  BY <1>0, <2>2, <3>1, <3>2 DEF JobIdsInv
  <2>3. QED  BY <2>1, <2>2
<1>3. IndexInv'
  <2>1. ASSUME NEW j \in Job, dv.listening, proc'[j].pc # "ended",
               \/ proc'[j].id = j
               \/ proc'[j].request.type = "HELLO" /\ (~passive_mode \/ proc'[j].reply.is = "sent")
        PROVE  j \in dv.simulation_jobs
    <3>0. j \in Proc /\ IndexInv /\ j # Unknown
      BY DEF IdsInv, Proc, Unknown, Job
    <3>1. CASE j # p
      <4>1. proc'[j] = proc[j]
        BY <1>0, <3>0, <3>1
      <4>2. QED  BY <2>1, <3>0, <4>1 DEF IndexInv
    <3>2. CASE j = p /\ AskEffect(p)
      <4>1. proc'[p].id = proc[p].id
        BY <3>2 DEF AskEffect, Asks
      <4>2. CASE proc[p].pc = "off"
        <5>1. proc[p].id = Unknown
          BY <1>0, <4>2 DEF RequestInv
        <5>2. proc'[p].request.type = "HELLO" /\ (~passive_mode \/ proc'[p].reply.is = "sent")
          BY <2>1, <3>0, <3>2, <4>1, <5>1
        <5>3. proc'[p].reply = Pending /\ (~passive_mode => p \in dv.simulation_jobs)
          BY <2>1, <3>2, <4>2 DEF AskEffect, Asks
        <5>4. QED  BY <3>2, <5>2, <5>3, ConstantsTyped
      <4>3. CASE proc[p].pc # "off"
        <5>1. proc[p].pc = "idle" /\ proc'[p].request.type # "HELLO"
          BY <2>1, <3>2, <4>3 DEF AskEffect, Asks
        <5>2. proc[p].id = j
          BY <2>1, <3>2, <4>1, <5>1
        <5>3. QED  BY <2>1, <3>0, <3>2, <5>1, <5>2 DEF IndexInv
      <4>4. QED  BY <4>2, <4>3
    <3>3. CASE j = p /\ StaysEffect(p)
      <4>1. /\ proc'[p].id = proc[p].id /\ proc'[p].reply = proc[p].reply
            /\ proc[p].pc = "connected" /\ proc'[p].request = proc[p].request
        BY <2>1, <3>3 DEF StaysEffect
      <4>2. QED  BY <2>1, <3>0, <3>3, <4>1 DEF IndexInv
    <3>4. CASE j = p /\ ReceiveEffect(p)
      <4>1. /\ proc[p].pc = "waiting" /\ proc[p].reply # Pending
            /\ proc'[p].request.type = "none"
        BY <3>4, ConstantsTyped DEF ReceiveEffect
      <4>2. CASE proc[p].request.type = "HELLO"
        <5>1. proc[p].reply # Closed
          BY <1>0, <2>1, <4>2 DEF RequestInv
        <5>2. proc[p].reply.is = "sent"
          BY <1>0, <4>1, <5>1 DEF ReplyType
        <5>3. QED  BY <2>1, <3>0, <3>4, <4>1, <4>2, <5>2 DEF IndexInv
      <4>3. CASE proc[p].request.type # "HELLO"
        <5>1. proc[p].id = j
          BY <2>1, <3>4, <4>1, <4>3 DEF ReceiveEffect
        <5>2. QED  BY <2>1, <3>0, <3>4, <4>1, <5>1 DEF IndexInv
      <4>4. QED  BY <4>2, <4>3
    <3>5. CASE j = p /\ FailEffect(p)
      BY <3>5, SessionAssumption DEF FailEffect
    <3>6. QED  BY <3>1, <3>2, <3>3, <3>4, <3>5 DEF ProcessEffect
  <2>2. QED  BY <1>0, <2>1 DEF IndexInv
<1>4. QED  BY <1>1, <1>2, <1>3 DEF IdsInv

LEMMA ServeKeepsIds ==
    ASSUME Base, Base', IdsInv, NEW o \in Origin, NEW p \in Proc, ServeEffect(o, p)
    PROVE  IdsInv'
<1> DEFINE m == proc[p].request
           reply == proc'[p].reply
           n == dv.conncount + 1
<1>0. /\ Typed /\ RequestInv(p) /\ passive_mode' = passive_mode /\ dv.listening
      /\ \A q \in Proc : q # p => proc'[q] = proc[q]
      /\ RanksInv /\ JobIdsInv /\ IndexInv
      /\ dv.conncount \in Nat /\ DOMAIN dv.clients \subseteq 1 .. dv.conncount
  BY DvFields DEF Base, BacklogInv, ServeEffect, IdsInv
<1>1. /\ proc'[p].pc = proc[p].pc /\ proc'[p].request = m /\ proc'[p].id = proc[p].id
      /\ Handled(m, dv', reply)
  BY DEF ServeEffect
<1>2. dv'.listening = dv.listening
  BY <1>1 DEF Handled
<1>3. /\ \A j \in Job : j \in Proc /\ j \in Int
      /\ \A q \in Client \cup Tool : q \in Proc /\ q \notin Job
      /\ Unknown < 0 /\ NoRank < 0 /\ NoRank \in Int
  BY SessionAssumption DEF Proc, Job, Unknown, NoRank
<1>4. \A q \in Proc : proc'[q].pc = proc[q].pc
  BY <1>0, <1>1
<1>5. \A q \in Client \cup Tool : RankOf(q)' \in Int /\ RankOf(q) \in Int
  BY <1>3, RankTyped, NextRankTyped
<1>6. \A q \in Proc : q # p \/ m.type # "HELLO" => RankOf(q)' = RankOf(q)
  BY <1>0, <1>1 DEF RankOf
\* The counter, the clients and the jobs it leaves where they are, but for
\* what the answer to HELLO does to the rank of p and what FINALIZE does.
<1>7. ASSUME dv'.conncount = dv.conncount, DOMAIN dv'.clients = DOMAIN dv.clients,
             dv'.simulation_jobs \subseteq dv.simulation_jobs \/ passive_mode,
             m.type = "HELLO" => reply = Sent(NoRank),
             \A j \in Job : proc[j].pc # "ended" /\ j \in dv.simulation_jobs =>
                               j \in dv'.simulation_jobs,
             m.type = "HELLO" /\ p \in Job /\ passive_mode => p \in dv'.simulation_jobs
      PROVE  IdsInv'
  <2>1. RanksInv'
    <3>1. \A q \in Client \cup Tool : RankOf(q)' = RankOf(q) \/ RankOf(q)' < 0
      <4>1. m.type = "HELLO" => RankOf(p)' = NoRank
        <5>1. HAVE m.type = "HELLO"
        <5>2. reply.is = "sent" /\ reply.value = NoRank
          BY <1>7, <5>1, ConstantsTyped
        <5>3. QED  BY <1>1, <5>1, <5>2 DEF RankOf
      <4>2. QED  BY <1>3, <1>6, <4>1
    <3>2. QED  BY <1>0, <1>5, <1>7, <3>1, RanksKept
  <2>2. JobIdsInv'
    BY <1>0, <1>3, <1>4, <1>7 DEF JobIdsInv
  <2>3. ASSUME NEW j \in Job, proc'[j].pc # "ended",
               \/ proc'[j].id = j
               \/ proc'[j].request.type = "HELLO" /\ (~passive_mode \/ proc'[j].reply.is = "sent")
        PROVE  j \in dv'.simulation_jobs
    <3>1. CASE proc'[j].id = j \/ ~passive_mode \/ j # p
      <4>1. proc'[j].id = proc[j].id /\ proc'[j].request = proc[j].request /\ proc[j].pc # "ended"
            /\ (j # p => proc'[j] = proc[j])
        BY <1>0, <1>1, <1>3, <2>3
      <4>2. j \in dv.simulation_jobs
        BY <1>0, <2>3, <3>1, <4>1 DEF IndexInv
      <4>3. QED  BY <1>7, <4>1, <4>2
    <3>2. CASE proc'[j].id # j /\ passive_mode /\ j = p
      BY <1>1, <1>7, <2>3, <3>2
    <3>3. QED  BY <3>1, <3>2
  <2>4. IndexInv'
    BY <1>0, <1>2, <2>3 DEF IndexInv
  <2>5. QED  BY <2>1, <2>2, <2>4 DEF IdsInv
<1>8. CASE m.type = "HELLO" /\ (m.id \in dv.simulation_jobs \/ passive_mode)
  <2>1. /\ reply = Sent(NoRank)
        /\ dv'.conncount = dv.conncount /\ dv'.clients = dv.clients
        /\ dv'.simulation_jobs = IF passive_mode THEN dv.simulation_jobs \cup {m.id}
                                 ELSE dv.simulation_jobs
    BY <1>1, <1>8 DEF Handled
  <2>2. p \in Job => m.id = p
    BY <1>0, <1>8 DEF RequestInv, HelloId
  <2>3. QED  BY <1>7, <2>1, <2>2
<1>9. CASE m.type = "HELLO" /\ ~(m.id \in dv.simulation_jobs \/ passive_mode)
  <2>1. /\ reply = Sent(n) /\ dv'.conncount = n
        /\ dv'.clients = assigned(dv.clients, n, <<>>)
        /\ dv'.simulation_jobs = dv.simulation_jobs
    BY <1>1, <1>9 DEF Handled
  <2>2. DOMAIN dv'.clients = DOMAIN dv.clients \cup {n}
    <3>1. DOMAIN assigned(dv.clients, n, <<>>) = DOMAIN dv.clients \cup {n}
      BY DEF assigned
    <3>2. QED  BY <2>1, <3>1
  <2>3. p \notin Job
    <3>1. SUFFICES ASSUME p \in Job PROVE FALSE
      OBVIOUS
    <3>2. proc[p].pc # "ended" /\ m.id = p
      BY <1>0, <1>9, <3>1 DEF RequestInv, HelloId
    <3>3. p \in dv.simulation_jobs
      BY <1>0, <1>9, <3>1, <3>2 DEF IndexInv
    <3>4. QED  BY <1>9, <3>2, <3>3
  <2>4. n \notin DOMAIN dv.clients /\ n \notin 1 .. dv.conncount /\ n \in Nat
    BY <1>0
  <2>5. RankOf(p)' = n
    <3>1. reply.is = "sent" /\ reply.value = n
      BY <2>1, ConstantsTyped
    <3>2. QED  BY <1>1, <1>9, <3>1 DEF RankOf
  <2> HIDE DEF m, reply, n
  <2>6. RanksInv'
    <3>1. ASSUME NEW q \in Client \cup Tool, RankOf(q)' >= 0
          PROVE  /\ RankOf(q)' \in DOMAIN dv'.clients
                 /\ \A x \in (Client \cup Tool) \ {q} : RankOf(x)' # RankOf(q)'
      <4>1. \A x \in Client \cup Tool : x # p =>
               RankOf(x)' = RankOf(x) /\ (RankOf(x) >= 0 => RankOf(x) \in DOMAIN dv.clients)
        BY <1>0, <1>3, <1>6 DEF RanksInv
      <4>2. \A x \in Client \cup Tool : x # p => RankOf(x)' # n
        BY <2>4, <4>1
      <4>3. CASE q = p
        BY <2>2, <2>5, <4>2, <4>3
      <4>4. CASE q # p
        <5>1. RankOf(q)' = RankOf(q) /\ RankOf(q) \in DOMAIN dv.clients
          BY <3>1, <4>1, <4>4
        <5>2. \A x \in (Client \cup Tool) \ {q} : RankOf(x) # RankOf(q)
          BY <1>0, <3>1, <5>1 DEF RanksInv
        <5>3. ASSUME NEW x \in (Client \cup Tool) \ {q} PROVE RankOf(x)' # RankOf(q)'
          <6>1. CASE x = p
            BY <2>5, <4>2, <4>4, <6>1
          <6>2. CASE x # p
            BY <4>1, <5>1, <5>2, <6>2
          <6>3. QED  BY <6>1, <6>2
        <5>4. QED  BY <2>2, <5>1, <5>3
      <4>5. QED  BY <4>3, <4>4
    <3>2. QED  BY <3>1 DEF RanksInv
  <2>7. JobIdsInv'
    <3>1. /\ dv.simulation_jobs \subseteq 1 .. dv.conncount
          /\ dv.simulation_jobs \cap DOMAIN dv.clients = {}
          /\ \A j \in Job : proc[j].pc # "off" => j <= dv.conncount /\ j \notin DOMAIN dv.clients
      BY <1>0, <1>9 DEF JobIdsInv
    <3>2. dv.simulation_jobs \subseteq 1 .. n /\ n > dv.conncount
      BY <1>0, <3>1 DEF n
    <3>3. dv.simulation_jobs \cap (DOMAIN dv.clients \cup {n}) = {}
      BY <2>4, <3>1
    <3>4. \A j \in Job : proc[j].pc # "off" => j <= n /\ j \notin DOMAIN dv.clients \cup {n}
      BY <1>0, <1>3, <2>4, <3>1, <3>2
    <3>5. ~passive_mode
      BY <1>9
    <3>6. \A j \in Job : proc'[j].pc = proc[j].pc
      BY <1>3, <1>4
    <3>7. QED  BY <1>0, <2>1, <2>2, <3>2, <3>3, <3>4, <3>5, <3>6 DEF JobIdsInv
  <2>8. IndexInv'
    <3>1. \A j \in Job : proc'[j] = proc[j]
      BY <1>0, <1>3, <2>3
    <3>2. QED  BY <1>0, <1>2, <2>1, <3>1 DEF IndexInv
  <2>9. QED  BY <2>6, <2>7, <2>8 DEF IdsInv
<1>10. CASE m.type = "FOPEN" /\ m.id \in DOMAIN dv.clients /\
            /\ dv'.conncount = n /\ dv'.clients = dv.clients
            /\ dv'.simulation_jobs = dv.simulation_jobs \cup {n}
  <2>1. ~passive_mode
    BY <1>0, <1>10 DEF JobIdsInv
  <2>2. RanksInv'
    <3>1. \A q \in Client \cup Tool : RankOf(q)' = RankOf(q)
      BY <1>3, <1>6, <1>10
    <3>2. QED  BY <1>0, <1>5, <1>10, <3>1, RanksKept
  <2>3. JobIdsInv'
    <3>1. /\ dv.simulation_jobs \subseteq 1 .. dv.conncount
          /\ dv.simulation_jobs \cap DOMAIN dv.clients = {}
          /\ \A j \in Job : proc[j].pc # "off" => j <= dv.conncount /\ j \notin DOMAIN dv.clients
      BY <1>0, <2>1 DEF JobIdsInv
    <3>2. n \in Int /\ n > dv.conncount /\ n \notin DOMAIN dv.clients /\ n \in 1 .. n
      BY <1>0
    <3> HIDE DEF m, reply
    <3>3. dv.simulation_jobs \cup {n} \subseteq 1 .. n
      BY <1>0, <3>1, <3>2
    <3> HIDE DEF n
    <3>4. (dv.simulation_jobs \cup {n}) \cap DOMAIN dv.clients = {}
      BY <3>1, <3>2
    <3>5. \A j \in Job : proc'[j].pc # "off" => j <= n /\ j \notin DOMAIN dv.clients
      BY <1>0, <1>3, <1>4, <3>1, <3>2
    <3>6. QED  BY <1>0, <1>10, <2>1, <3>3, <3>4, <3>5 DEF JobIdsInv
  <2>4. IndexInv'
    <3>1. \A j \in Job : /\ proc'[j].id = proc[j].id /\ proc'[j].request = proc[j].request
                         /\ proc'[j].pc = proc[j].pc
                         /\ (j # p => proc'[j] = proc[j])
      BY <1>0, <1>1, <1>3, <1>4
    <3>2. \A j \in Job : j \in dv.simulation_jobs => j \in dv'.simulation_jobs
      BY <1>10
    <3>3. m.type # "HELLO"
      BY <1>10
    <3>4. QED  BY <1>0, <1>1, <1>2, <3>1, <3>2, <3>3 DEF IndexInv
  <2>5. QED  BY <2>2, <2>3, <2>4 DEF IdsInv
<1>11. CASE m.type = "FINALIZE"
  <2>1. /\ dv'.conncount = dv.conncount /\ dv'.clients = dv.clients
        /\ dv'.simulation_jobs = dv.simulation_jobs \ {m.id}
    BY <1>1, <1>11 DEF Handled
  <2>2. p \in Job /\ m.id = p /\ proc[p].pc = "ended"
    BY <1>0, <1>11 DEF RequestInv
  <2>3. QED  BY <1>7, <1>11, <2>1, <2>2
<1>12. CASE m.type = "REQUEST_RANGE"
  <2>1. /\ dv'.conncount = dv.conncount /\ dv'.simulation_jobs = dv.simulation_jobs
        /\ DOMAIN dv'.clients = DOMAIN dv.clients
    BY <1>1, <1>12 DEF Handled
  <2>2. QED  BY <1>7, <1>12, <2>1
<1>13. CASE /\ m.type \notin {"HELLO", "FINALIZE", "REQUEST_RANGE"}
            /\ dv'.conncount = dv.conncount /\ dv'.clients = dv.clients
            /\ dv'.simulation_jobs = dv.simulation_jobs
  BY <1>7, <1>13
<1>14. QED
  BY <1>1, <1>8, <1>9, <1>10, <1>11, <1>12, <1>13 DEF Handled

LEMMA FinishKeepsIds ==
    ASSUME Base, Base', IdsInv, FinishEffect
    PROVE  IdsInv'
<1>1. /\ dv'.conncount = dv.conncount /\ dv'.clients = dv.clients
      /\ dv'.simulation_jobs = dv.simulation_jobs /\ ~dv'.listening
      /\ passive_mode' = passive_mode
  BY DEF FinishEffect
<1>2. RanksInv'
  <2>1. ASSUME NEW p \in Client \cup Tool
        PROVE  RankOf(p)' \in Int /\ (RankOf(p)' = RankOf(p) \/ RankOf(p)' < 0)
    <3>1. p \in Proc
      BY DEF Proc
    <3>2. /\ proc'[p].request = proc[p].request /\ proc'[p].id = proc[p].id
          /\ proc'[p].reply \in {proc[p].reply, Closed}
      BY <3>1 DEF FinishEffect
    <3>3. RankOf(p)' \in {RankOf(p), proc[p].id}
      BY <3>2, ConstantsTyped DEF RankOf
    <3>4. RankOf(p)' # RankOf(p) => proc[p].request.type = "HELLO"
      BY <3>2 DEF RankOf
    <3>5. QED  BY <3>1, <3>3, <3>4, RankTyped, NextRankTyped
  <2>2. QED  BY <1>1, <2>1, RanksKept DEF IdsInv
<1>3. JobIdsInv'
  <2>1. \A j \in Job : proc'[j].pc = proc[j].pc
    BY DEF FinishEffect, Proc
  <2>2. JobIdsInv
    BY DEF IdsInv
  <2>3. QED  BY <1>1, <2>1, <2>2 DEF JobIdsInv
<1>4. IndexInv'
  BY <1>1 DEF IndexInv
<1>5. QED  BY <1>2, <1>3, <1>4 DEF IdsInv

LEMMA SameProcessesKeepIds ==
    ASSUME IdsInv, UNCHANGED <<passive_mode, dv, proc>>
    PROVE  IdsInv'
<1>1. RanksInv'
  <2>1. \A p \in Client \cup Tool : RankOf(p)' = RankOf(p)
    BY DEF RankOf
  <2>2. QED  BY <2>1 DEF IdsInv, RanksInv
<1>2. JobIdsInv' /\ IndexInv'
  BY DEF IdsInv, JobIdsInv, IndexInv
<1>3. QED  BY <1>1, <1>2 DEF IdsInv

LEMMA InitIds == Init => IdsInv
<1> SUFFICES ASSUME Init PROVE IdsInv
  OBVIOUS
<1>1. /\ dv.simulation_jobs = {} /\ dv.clients = <<>> /\ dv.conncount = 0
      /\ \A p \in Proc : proc[p].pc = "off" /\ proc[p].id = Unknown
                         /\ proc[p].request = NoRequest
  BY DEF Init
<1>2. DOMAIN dv.clients = {}
  BY <1>1
<1>3. \A p \in Client \cup Tool : RankOf(p) = Unknown
  BY <1>1, ConstantsTyped DEF RankOf, Proc
<1>4. RanksInv
  BY <1>3 DEF RanksInv, Unknown
<1>5. JobIdsInv
  <2>1. \A j \in Job : proc[j].pc = "off"
    BY <1>1 DEF Proc
  <2>2. QED  BY <1>1, <1>2, <2>1 DEF JobIdsInv
<1>6. IndexInv
  <2>1. \A j \in Job : proc[j].id # j /\ proc[j].request.type # "HELLO"
    BY <1>1, ConstantsTyped DEF Proc, Job, Unknown
  <2>2. QED  BY <2>1 DEF IndexInv
<1>7. QED  BY <1>4, <1>5, <1>6 DEF IdsInv

LEMMA NextIds == Base /\ Base' /\ IdsInv /\ [Next]_vars => IdsInv'
<1> SUFFICES ASSUME Base, Base', IdsInv, [Next]_vars PROVE IdsInv'
  OBVIOUS
<1>1. CASE Select
  BY <1>1, SameProcessesKeepIds DEF Select
<1>2. ASSUME NEW o \in Origin, Accept(o) PROVE IdsInv'
  <2>1. PICK p \in Proc : p = Head(backlog[o])
    BY <1>2, Serves
  <2>2. ServeEffect(o, p)
    BY <1>2, <2>1, Serves
  <2>3. QED  BY <2>2, ServeKeepsIds
<1>3. CASE Finish
  BY <1>3, Finishes, FinishKeepsIds
<1>4. ASSUME NEW p \in Proc, Process(p) PROVE IdsInv'
  BY <1>4, Proceeds, ProcessKeepsIds
<1>5. CASE UNCHANGED vars
  BY <1>5, SameProcessesKeepIds DEF vars
<1>6. QED  BY <1>1, <1>2, <1>3, <1>4, <1>5 DEF Next, Server

LEMMA IdsStay == Spec => []IdsInv
BY Structure, InitIds, NextIds, PTL DEF Spec

LEMMA IdsSuffice == Base /\ IdsInv => IdsIdentify
<1> SUFFICES ASSUME Base, IdsInv PROVE IdsIdentify
  OBVIOUS
<1>0. Client \cup Tool \subseteq Proc
  BY DEF Proc
<1>1. ASSUME NEW p \in Client \cup Tool, proc[p].id >= 0
      PROVE  /\ proc[p].id \in DOMAIN dv.clients
             /\ proc[p].id \notin dv.simulation_jobs
             /\ \A j \in Job : proc[j].pc # "off" => j # proc[p].id
             /\ \A q \in (Client \cup Tool) \ {p} : proc[q].id # proc[p].id
  <2>1. RankOf(p) = proc[p].id
    BY <1>0, <1>1, RankTyped
  <2>2. /\ proc[p].id \in DOMAIN dv.clients
        /\ \A q \in (Client \cup Tool) \ {p} : RankOf(q) # proc[p].id
    BY <1>1, <2>1 DEF IdsInv, RanksInv
  <2>3. \A q \in (Client \cup Tool) \ {p} : proc[q].id # proc[p].id
    <3>1. \A q \in Client \cup Tool : proc[q].id >= 0 => RankOf(q) = proc[q].id
      BY <1>0, RankTyped
    <3>2. QED  BY <1>1, <2>2, <3>1
  <2>4. proc[p].id \notin dv.simulation_jobs
        /\ \A j \in Job : proc[j].pc # "off" => j # proc[p].id
    BY <2>2 DEF IdsInv, JobIdsInv
  <2>5. QED  BY <2>2, <2>3, <2>4
<1>2. ASSUME NEW j \in Job, dv.listening /\ proc[j].id = j /\ proc[j].pc # "ended"
      PROVE  j \in dv.simulation_jobs
  BY <1>2 DEF IdsInv, IndexInv
<1>3. QED  BY <1>1, <1>2 DEF IdsIdentify

(* For any processes, in both modes and any order of requests: a rank that *)
(* a process holds is registered, is held by no other and is the id of no  *)
(* simulation, and a simulator that has said hello is indexed until its    *)
(* FINALIZE is served.                                                     *)
THEOREM IdsAlwaysIdentify == Spec => []IdsIdentify
BY Structure, IdsStay, IdsSuffice, PTL

-----------------------------------------------------------------------------
\* Ranges.

LEMMA SentReply ==
    /\ \A r \in ReplyType : r.is = "sent" => r = Sent(r.value)
    /\ Pending # Sent(0) /\ Closed # Sent(0) /\ Pending # Closed
    /\ Sent(-1) # Sent(0) /\ Sent(0) # Pending /\ Sent(-1) # Pending
<1>1. ASSUME NEW r \in ReplyType, r.is = "sent" PROVE r = Sent(r.value)
  <2>1. r \in [is : {"sent"}, value : Int \cup Value]
    BY <1>1, ConstantsTyped DEF ReplyType
  <2>2. QED  BY <2>1 DEF Sent
<1>2. \A v, w : Sent(v) = Sent(w) => v = w
  BY ConstantsTyped
<1>3. \A v : Sent(v) # Pending /\ Sent(v) # Closed
  BY ConstantsTyped
<1>4. Pending # Closed /\ Sent(-1) # Sent(0)
  BY <1>2, ConstantsTyped
<1>5. QED  BY <1>1, <1>3, <1>4

(* The list of a call grows by the range the process asks for.             *)
LEMMA NextRange ==
    ASSUME NEW s \in Seq(Ranges), NEW n \in 1 .. Len(s), NEW l, NEW arg,
           arg.first = (n = 1), arg.range = s[n],
           n # 1 => l = SubSeq(s, 1, n - 1)
    PROVE  handleRangeRequest(l, arg) = SubSeq(s, 1, n)
<1> DEFINE t == SubSeq(s, 1, n - 1)
           u == SubSeq(s, 1, n)
<1>1. /\ t \in Seq(Ranges) /\ Len(t) = n - 1 /\ (\A i \in 1 .. n - 1 : t[i] = s[i])
      /\ u \in Seq(Ranges) /\ Len(u) = n /\ (\A i \in 1 .. n : u[i] = s[i])
  OBVIOUS
<1>2. handleRangeRequest(l, arg) = Append(IF n = 1 THEN <<>> ELSE t, s[n])
  BY DEF handleRangeRequest
<1>3. n = 1 => t = <<>>
  BY <1>1
<1>4. handleRangeRequest(l, arg) = Append(t, s[n])
  BY <1>2, <1>3
<1> HIDE DEF t, u
<1>5. s[n] \in Ranges
  OBVIOUS
<1>6. Append(t, s[n]) = u
  <2> DEFINE a == Append(t, s[n])
  <2>1. a \in Seq(Ranges) /\ Len(a) = n /\ \A i \in 1 .. n : a[i] = u[i]
    BY <1>1, <1>5
  <2> HIDE DEF a
  <2>2. a = u
    BY <1>1, <2>1
  <2>3. QED  BY <2>2 DEF a
<1>7. QED  BY <1>4, <1>6 DEF u

(* While the DV's list and the process stay, what is stored stays.         *)
LEMMA RangesKept ==
    ASSUME NEW p \in Client, RangesInv(p),
           proc'[p].id = proc[p].id, proc'[p].ranges = proc[p].ranges,
           proc'[p].next = proc[p].next, proc'[p].result = proc[p].result,
           proc[p].id \in DOMAIN dv.clients =>
              /\ proc[p].id \in DOMAIN dv'.clients
              /\ dv'.clients[proc[p].id] = dv.clients[proc[p].id],
           Asked(p)' /\ proc'[p].reply = Sent(0) => Asked(p) /\ proc[p].reply = Sent(0),
           proc'[p].pc # "ended" /\ (Asked(p)' => proc'[p].reply = Pending) =>
              proc[p].pc # "ended" /\ (Asked(p) => proc[p].reply = Pending)
    PROVE  RangesInv(p)'
<1>1. ASSUME NEW n, proc[p].id \in DOMAIN dv.clients,
             dv.clients[proc[p].id] = SubSeq(proc[p].ranges, 1, n)
      PROVE  /\ proc'[p].id \in DOMAIN dv'.clients
             /\ dv'.clients[proc'[p].id] = SubSeq(proc'[p].ranges, 1, n)
  BY <1>1
<1> DEFINE Kept(n) == /\ proc'[p].id \in DOMAIN dv'.clients
                      /\ dv'.clients[proc'[p].id] = SubSeq(proc'[p].ranges, 1, n)
<1>2. ASSUME proc'[p].request.type = "REQUEST_RANGE", proc'[p].reply = Sent(0)
      PROVE  Kept(proc'[p].next)
  <2>1. Stored(p, proc[p].next)
    BY <1>2 DEF RangesInv, Asked
  <2>2. QED  BY <1>1, <2>1 DEF Stored
<1>3. ASSUME proc'[p].next \in 2 .. Len(proc'[p].ranges), proc'[p].pc # "ended",
             Asked(p)' => proc'[p].reply = Pending
      PROVE  Kept(proc'[p].next - 1)
  <2>1. /\ proc[p].next \in 2 .. Len(proc[p].ranges) /\ proc[p].pc # "ended"
        /\ Asked(p) => proc[p].reply = Pending
    BY <1>3
  <2>2. Stored(p, proc[p].next - 1)
    BY <2>1 DEF RangesInv, Asked
  <2>3. QED  BY <1>1, <2>2 DEF Stored
<1>4. ASSUME proc'[p].ranges # <<>>, proc'[p].next > Len(proc'[p].ranges), proc'[p].result = 0
      PROVE  Kept(Len(proc'[p].ranges))
  <2>1. proc[p].ranges # <<>> /\ proc[p].next > Len(proc[p].ranges) /\ proc[p].result = 0
    BY <1>4
  <2>2. Stored(p, Len(proc[p].ranges))
    BY <2>1 DEF RangesInv, Asked
  <2>3. QED  BY <1>1, <2>2 DEF Stored
<1>5. QED  BY <1>2, <1>3, <1>4 DEF RangesInv, Asked, Stored

\* A process keeps the ranges of a client.
LEMMA ProcessKeepsRanges ==
    ASSUME Base, \A q \in Client : RangesInv(q),
           NEW p \in Proc, ProcessEffect(p), NEW q \in Client
    PROVE  RangesInv(q)'
<1>0. /\ Typed /\ dv' = dv /\ q \in Proc /\ RangesInv(q) /\ RequestInv(q)
      /\ proc[q].next \in Nat /\ proc[q].ranges \in Seq(Ranges) /\ Len(proc[q].ranges) \in Nat
      /\ proc[q].reply \in ReplyType
  BY ProcessKeepsTyped, ProcessFields DEF Base, Proc
<1>1. CASE q # p
  <2>1. proc'[q] = proc[q]
    BY <1>0, <1>1 DEF ProcessEffect
  <2>2. QED  BY <1>0, <2>1, RangesKept DEF Asked
<1>2. CASE q = p /\ AskEffect(p)
  <2>1. PICK r \in RequestType, ranges \in Seq(Ranges), next \in Nat :
           /\ Asks(q, r, ranges, next)
           /\ \/ /\ proc[q].pc = "off"
                 /\ r.type = "HELLO"
                 /\ ranges = proc[q].ranges /\ next = proc[q].next
              \/ /\ proc[q].pc = "idle"
                 /\ r.type \notin {"HELLO", "REQUEST_RANGE"}
                 /\ ranges = proc[q].ranges /\ next = proc[q].next
              \/ /\ proc[q].pc = "idle"
                 /\ r.type = "REQUEST_RANGE"
                 /\ next \in 1 .. Len(ranges)
                 /\ next = 1 \/ (ranges = proc[q].ranges /\ next = proc[q].next)
    BY <1>2 DEF AskEffect
  <2>2. proc[q].request = NoRequest /\ NoRequest.type = "none" /\ proc[q].pc # "ended"
    BY <1>0, <2>1, ConstantsTyped DEF RequestInv
  <2>3. proc'[q].id = proc[q].id /\ proc'[q].result = proc[q].result
    BY <2>1 DEF Asks
  <2>4. CASE ~dv.listening
    <3>1. /\ proc'[q].pc = "ended" /\ proc'[q].request = NoRequest
          /\ proc'[q].ranges = proc[q].ranges /\ proc'[q].next = proc[q].next
      BY <2>1, <2>2, <2>4 DEF Asks
    <3>2. QED  BY <1>0, <2>2, <2>3, <3>1, RangesKept DEF Asked
  <2>5. CASE dv.listening
    <3>1. /\ proc'[q].request = r /\ proc'[q].reply = Pending
          /\ proc'[q].ranges = ranges /\ proc'[q].next = next
      BY <2>1, <2>5 DEF Asks
    <3>2. CASE ranges = proc[q].ranges /\ next = proc[q].next
      <4>1. proc'[q].reply # Sent(0)
        BY <3>1, SentReply
      <4>2. QED  BY <1>0, <2>2, <2>3, <3>1, <3>2, <4>1, RangesKept DEF Asked
    <3>3. CASE ~(ranges = proc[q].ranges /\ next = proc[q].next)
      <4>1. next = 1 /\ 1 \in 1 .. Len(ranges) /\ Len(ranges) \in Nat
        BY <2>1, <3>3
      <4>2. proc'[q].reply # Sent(0)
        BY <3>1, SentReply
      <4>3. proc'[q].next \notin 2 .. Len(proc'[q].ranges)
            /\ ~(proc'[q].next > Len(proc'[q].ranges))
        BY <3>1, <4>1
      <4>4. QED  BY <4>2, <4>3 DEF RangesInv, Asked
    <3>4. QED  BY <3>2, <3>3
  <2>6. QED  BY <2>4, <2>5
<1>3. CASE q = p /\ StaysEffect(p)
  <2>1. /\ proc'[q].id = proc[q].id /\ proc'[q].reply = proc[q].reply
        /\ proc'[q].ranges = proc[q].ranges /\ proc'[q].next = proc[q].next
        /\ proc'[q].result = proc[q].result
        /\ proc[q].pc \in {"connected", "idle"}
        /\ \/ proc'[q].request = proc[q].request
           \/ proc'[q].request = NoRequest /\ proc'[q].pc = "ended"
    BY <1>3 DEF StaysEffect
  <2>2. NoRequest.type = "none"
    BY ConstantsTyped
  <2>3. QED  BY <1>0, <2>1, <2>2, RangesKept DEF Asked
<1>4. CASE q = p /\ ReceiveEffect(p)
  <2>1. /\ proc[q].pc = "waiting" /\ proc[q].reply # Pending
        /\ proc'[q].request.type = "none" /\ proc'[q].reply = Pending
        /\ proc'[q].ranges = proc[q].ranges
    BY <1>4, ConstantsTyped DEF ReceiveEffect
  <2>2. CASE proc[q].request.type = "HELLO"
    <3>1. proc'[q].ranges = <<>> /\ proc'[q].next = proc[q].next
      BY <1>0, <1>4, <2>1, <2>2 DEF RequestInv, ReceiveEffect
    <3>2. Len(proc'[q].ranges) = 0
      BY <3>1
    <3>3. proc'[q].next \notin 2 .. Len(proc'[q].ranges)
      BY <1>0, <3>1, <3>2
    <3>4. QED  BY <2>1, <3>1, <3>3 DEF RangesInv, Asked
  <2>3. CASE proc[q].request.type = "REQUEST_RANGE" /\ proc[q].reply.is = "sent"
             /\ proc[q].reply.value = 0 /\ proc'[q].id = proc[q].id
             /\ proc'[q].next = proc[q].next + 1
    <3>1. proc[q].reply = Sent(0)
      BY <1>0, <2>3, SentReply
    <3>2. Stored(q, proc[q].next) /\ proc[q].next \in 1 .. Len(proc[q].ranges)
      BY <1>0, <2>3, <3>1 DEF RangesInv, Asked, RequestInv
    <3>3. /\ proc'[q].id \in DOMAIN dv'.clients
          /\ dv'.clients[proc'[q].id] = SubSeq(proc'[q].ranges, 1, proc[q].next)
      BY <1>0, <2>1, <2>3, <3>2 DEF Stored
    <3>4. proc'[q].next - 1 = proc[q].next
          /\ (proc'[q].next > Len(proc'[q].ranges) => proc[q].next = Len(proc'[q].ranges))
      BY <1>0, <2>1, <2>3, <3>2
    <3>5. QED  BY <2>1, <3>3, <3>4 DEF RangesInv, Asked, Stored
  <2>4. CASE proc[q].request.type = "REQUEST_RANGE" /\ proc'[q].result = -1
             /\ proc'[q].next = Len(proc[q].ranges) + 1
    <3>1. proc'[q].next \notin 2 .. Len(proc'[q].ranges) /\ proc'[q].result # 0
      BY <1>0, <2>1, <2>4
    <3>2. QED  BY <2>1, <3>1 DEF RangesInv, Asked
  <2>5. CASE proc[q].request.type \notin {"HELLO", "REQUEST_RANGE"}
    <3>1. proc'[q].id = proc[q].id /\ proc'[q].next = proc[q].next
          /\ proc'[q].result = proc[q].result
      BY <1>4, <2>5 DEF ReceiveEffect
    <3>2. QED  BY <1>0, <2>1, <2>5, <3>1, RangesKept DEF Asked
  <2>6. QED  BY <1>4, <2>2, <2>3, <2>4, <2>5 DEF ReceiveEffect
<1>5. CASE q = p /\ FailEffect(p)
  <2>1. proc'[q] \in ProcessType
    BY <1>0, <1>5 DEF ProcessEffect
  <2>2. Len(proc'[q].ranges) \in Nat
    BY <2>1 DEF ProcessType
  <2>3. /\ proc'[q].next \notin 2 .. Len(proc'[q].ranges) /\ proc'[q].result # 0
        /\ proc'[q].request = NoRequest
    BY <1>0, <1>5, <2>2 DEF FailEffect, RequestInv
  <2>4. QED  BY <2>3, ConstantsTyped DEF RangesInv, Asked
<1>6. QED  BY <1>1, <1>2, <1>3, <1>4, <1>5 DEF ProcessEffect

LEMMA ServeKeepsRanges ==
    ASSUME Base, IdsInv, \A q \in Client : RangesInv(q),
           NEW o \in Origin, NEW p \in Proc, ServeEffect(o, p), NEW q \in Client
    PROVE  RangesInv(q)'
<1> DEFINE m == proc[p].request
           reply == proc'[p].reply
           n == dv.conncount + 1
<1>0. /\ Typed /\ q \in Proc /\ RangesInv(q) /\ RequestInv(p) /\ RequestInv(q) /\ RanksInv
      /\ proc[q].next \in Nat /\ proc[q].ranges \in Seq(Ranges) /\ Len(proc[q].ranges) \in Nat
      /\ proc[q].reply \in ReplyType /\ proc[q].id \in Int
      /\ dv.conncount \in Nat /\ DOMAIN dv.clients \subseteq 1 .. dv.conncount
  BY ProcessFields, DvFields DEF Base, Proc, IdsInv
<1>1. /\ \A x \in Proc : x # p => proc'[x] = proc[x]
      /\ proc'[p].pc = proc[p].pc /\ proc'[p].request = m /\ proc'[p].id = proc[p].id
      /\ proc'[p].ranges = proc[p].ranges /\ proc'[p].next = proc[p].next
      /\ proc'[p].result = proc[p].result
      /\ Handled(m, dv', reply)
  BY DEF ServeEffect
<1>2. proc[p].reply = Pending
  <2>1. /\ backlog[o] \in Seq(Proc) /\ backlog[o] # <<>> /\ IsInjective(backlog[o])
        /\ p = Head(backlog[o]) /\ BacklogInv
    BY <1>0 DEF Base, Typed, BacklogInv, ServeEffect
  <2>2. p \in Range(backlog[o])
    BY <2>1, Dequeued
  <2>3. QED  BY <2>1, <2>2 DEF BacklogInv
<1>3. /\ proc'[q].pc = proc[q].pc /\ proc'[q].request = proc[q].request
      /\ proc'[q].id = proc[q].id /\ proc'[q].ranges = proc[q].ranges
      /\ proc'[q].next = proc[q].next /\ proc'[q].result = proc[q].result
      /\ q # p => proc'[q].reply = proc[q].reply
  BY <1>0, <1>1
<1>4. Asked(q)' = Asked(q)
  BY <1>3 DEF Asked
\* A list that is not the one of q's id, or not changed, serves q as before.
<1>5. ASSUME q # p \/ ~Asked(q),
             proc[q].id \in DOMAIN dv.clients =>
                /\ proc[q].id \in DOMAIN dv'.clients
                /\ dv'.clients[proc[q].id] = dv.clients[proc[q].id]
      PROVE  RangesInv(q)'
  BY <1>0, <1>3, <1>4, <1>5, RangesKept
<1>6. CASE m.type = "HELLO" /\ ~(m.id \in dv.simulation_jobs \/ passive_mode)
  <2>1. dv'.clients = assigned(dv.clients, n, <<>>)
    BY <1>1, <1>6 DEF Handled
  <2>2. n \notin DOMAIN dv.clients
    BY <1>0
  <2>3. ASSUME NEW x \in DOMAIN dv.clients
        PROVE  x \in DOMAIN dv'.clients /\ dv'.clients[x] = dv.clients[x]
    <3> HIDE DEF n, m, reply
    <3>1. x # n
      BY <2>2
    <3>2. QED  BY <2>1, <3>1 DEF assigned
  <2>4. q # p \/ ~Asked(q)
    BY <1>6 DEF Asked
  <2>5. QED  BY <1>5, <2>3, <2>4
<1>7. CASE m.type # "REQUEST_RANGE" /\ dv'.clients = dv.clients
  BY <1>5, <1>7 DEF Asked
<1>8. CASE m.type = "REQUEST_RANGE" /\ reply = Sent(-1) /\ dv' = dv
  <2>1. reply = Sent(-1) /\ dv' = dv
    BY <1>8
  <2>2. CASE q # p
    BY <1>5, <2>1, <2>2
  <2>3. CASE q = p
    <3>1. proc'[q].reply # Sent(0) /\ proc'[q].reply # Pending /\ Asked(q)
      BY <1>8, <2>1, <2>3, SentReply DEF Asked
    <3>2. proc[q].next <= Len(proc[q].ranges)
      BY <1>0, <1>8, <2>3 DEF RequestInv
    <3>3. ~(proc'[q].next > Len(proc'[q].ranges))
      BY <1>0, <1>3, <3>2
    <3>4. QED  BY <1>4, <3>1, <3>3 DEF RangesInv
  <2>4. QED  BY <2>2, <2>3
<1>9. CASE /\ m.type = "REQUEST_RANGE" /\ m.id \in DOMAIN dv.clients /\ reply = Sent(0)
           /\ dv'.clients = [dv.clients EXCEPT ![m.id] = handleRangeRequest(dv.clients[m.id], m.arg)]
  <2>1. /\ reply = Sent(0)
        /\ dv'.clients = [dv.clients EXCEPT ![m.id] = handleRangeRequest(dv.clients[m.id], m.arg)]
    BY <1>9
  <2>2. /\ p \in Client /\ m.id = proc[p].id /\ proc[p].next \in 1 .. Len(proc[p].ranges)
        /\ m.arg.first = (proc[p].next = 1) /\ m.arg.range = proc[p].ranges[proc[p].next]
        /\ proc[p].pc \in {"connected", "waiting"}
    BY <1>0, <1>9 DEF RequestInv
  <2>3. proc[p].id >= 0 /\ RankOf(p) = proc[p].id
    BY <1>0, <1>9, <2>2, RankTyped
  <2>4. CASE q # p
    <3>1. RankOf(q) # RankOf(p)
      BY <1>0, <2>2, <2>3, <2>4 DEF RanksInv
    <3>2. proc[q].id >= 0 => proc[q].id # m.id
      BY <1>0, <2>2, <2>3, <3>1, RankTyped
    <3>3. proc[q].id \in DOMAIN dv.clients => proc[q].id >= 0
      BY <1>0
    <3> HIDE DEF m, reply, n
    <3>4. proc[q].id \in DOMAIN dv.clients =>
             /\ proc[q].id \in DOMAIN dv'.clients
             /\ dv'.clients[proc[q].id] = dv.clients[proc[q].id]
      BY <2>1, <3>2, <3>3
    <3>5. QED  BY <1>5, <2>4, <3>4
  <2>5. CASE q = p
    <3>1. Asked(q) /\ proc[q].reply = Pending /\ proc[q].pc # "ended" /\ m.id = proc[q].id
      BY <1>2, <1>9, <2>2, <2>5 DEF Asked
    <3>2. proc[q].next # 1 => dv.clients[m.id] = SubSeq(proc[q].ranges, 1, proc[q].next - 1)
      <4>1. HAVE proc[q].next # 1
      <4>2. proc[q].next \in 2 .. Len(proc[q].ranges)
        BY <1>0, <2>2, <2>5, <4>1
      <4>3. Stored(q, proc[q].next - 1)
        BY <1>0, <3>1, <4>2 DEF RangesInv
      <4>4. QED  BY <3>1, <4>3 DEF Stored
    <3>3. handleRangeRequest(dv.clients[m.id], m.arg) = SubSeq(proc[q].ranges, 1, proc[q].next)
      <4> DEFINE s == proc[q].ranges
                 k == proc[q].next
                 l == dv.clients[m.id]
                 arg == m.arg
      <4>1. s \in Seq(Ranges) /\ k \in 1 .. Len(s) /\ arg.first = (k = 1) /\ arg.range = s[k]
            /\ (k # 1 => l = SubSeq(s, 1, k - 1))
        BY <1>0, <2>2, <2>5, <3>2
      <4> HIDE DEF s, k, l, arg
      <4>2. handleRangeRequest(l, arg) = SubSeq(s, 1, k)
        BY <4>1, NextRange
      <4>3. QED  BY <4>2 DEF s, k, l, arg
    <3>4. m.id \in DOMAIN dv'.clients
          /\ dv'.clients[m.id] = SubSeq(proc[q].ranges, 1, proc[q].next)
      <4> HIDE DEF m
      <4>1. QED  BY <1>9, <2>1, <3>3
    <3>5. /\ proc'[q].id \in DOMAIN dv'.clients
          /\ dv'.clients[proc'[q].id] = SubSeq(proc'[q].ranges, 1, proc'[q].next)
      BY <1>3, <3>1, <3>4
    <3>6. proc'[q].reply = Sent(0) /\ proc'[q].reply # Pending /\ Asked(q)'
      BY <1>4, <2>1, <2>5, <3>1, SentReply
    <3>7. ~(proc'[q].next > Len(proc'[q].ranges))
      BY <1>0, <1>3, <2>2, <2>5
    <3>8. QED  BY <3>5, <3>6, <3>7 DEF RangesInv, Stored
  <2>6. QED  BY <2>4, <2>5
<1>10. QED
  BY <1>1, <1>6, <1>7, <1>8, <1>9 DEF Handled

LEMMA FinishKeepsRanges ==
    ASSUME Base, NEW p \in Client, RangesInv(p), FinishEffect
    PROVE  RangesInv(p)'
<1>1. p \in Proc
  BY DEF Proc
<1>2. /\ proc'[p].pc = proc[p].pc /\ proc'[p].request = proc[p].request
      /\ proc'[p].id = proc[p].id /\ proc'[p].ranges = proc[p].ranges
      /\ proc'[p].next = proc[p].next /\ proc'[p].result = proc[p].result
      /\ proc'[p].reply \in {proc[p].reply, Closed} /\ dv'.clients = dv.clients
  BY <1>1 DEF FinishEffect
<1>3. Asked(p)' = Asked(p)
  BY <1>2 DEF Asked
<1>4. /\ proc'[p].reply = Sent(0) => proc[p].reply = Sent(0)
      /\ proc'[p].reply = Pending => proc[p].reply = Pending
  BY <1>2, SentReply
<1>5. QED  BY <1>2, <1>3, <1>4, RangesKept

LEMMA SameProcessesKeepRanges ==
    ASSUME NEW p \in Client, RangesInv(p), UNCHANGED <<dv, proc>>
    PROVE  RangesInv(p)'
BY DEF RangesInv, Stored, Asked

AllRanges == \A p \in Client : RangesInv(p)

LEMMA InitRanges == Init => AllRanges
<1> SUFFICES ASSUME Init, NEW p \in Client PROVE RangesInv(p)
  BY DEF AllRanges
<1>1. proc[p].ranges = <<>> /\ proc[p].request = NoRequest
  BY DEF Init, Proc
<1>2. Len(proc[p].ranges) = 0 /\ ~Asked(p)
  BY <1>1, ConstantsTyped DEF Asked
<1>3. \A k : k \notin 2 .. 0
  OBVIOUS
<1>4. QED  BY <1>1, <1>2, <1>3 DEF RangesInv

LEMMA NextRanges == Base /\ IdsInv /\ AllRanges /\ [Next]_vars => AllRanges'
<1> SUFFICES ASSUME Base, IdsInv, AllRanges, [Next]_vars, NEW q \in Client PROVE RangesInv(q)'
  BY DEF AllRanges
<1>0. \A x \in Client : RangesInv(x)
  BY DEF AllRanges
<1>1. CASE Select
  BY <1>0, <1>1, SameProcessesKeepRanges DEF Select
<1>2. ASSUME NEW o \in Origin, Accept(o) PROVE RangesInv(q)'
  <2>1. PICK p \in Proc : p = Head(backlog[o])
    BY <1>2, Serves
  <2>2. ServeEffect(o, p)
    BY <1>2, <2>1, Serves
  <2>3. QED  BY <1>0, <2>2, ServeKeepsRanges
<1>3. CASE Finish
  BY <1>0, <1>3, Finishes, FinishKeepsRanges
<1>4. ASSUME NEW p \in Proc, Process(p) PROVE RangesInv(q)'
  BY <1>0, <1>4, Proceeds, ProcessKeepsRanges
<1>5. CASE UNCHANGED vars
  BY <1>0, <1>5, SameProcessesKeepRanges DEF vars
<1>6. QED  BY <1>1, <1>2, <1>3, <1>4, <1>5 DEF Next, Server

LEMMA RangesSuffice == Base /\ AllRanges => RangesAreComplete
<1> SUFFICES ASSUME Base, AllRanges, NEW p \in Client, proc[p].ranges # <<>>,
                    proc[p].next > Len(proc[p].ranges), proc[p].result = 0
             PROVE  dv.clients[proc[p].id] = proc[p].ranges
  BY DEF RangesAreComplete
<1>1. Stored(p, Len(proc[p].ranges))
  BY DEF AllRanges, RangesInv
<1>2. proc[p].ranges \in Seq(Ranges)
  BY ProcessFields DEF Base, Proc
<1>3. SubSeq(proc[p].ranges, 1, Len(proc[p].ranges)) = proc[p].ranges
  BY <1>2, SubSeqFull
<1>4. QED  BY <1>1, <1>3 DEF Stored

(* For any lists of ranges, clients and order of requests: a call that     *)
(* returned success has left exactly its ranges, in order, with the DV.    *)
THEOREM RangesAlwaysComplete == Spec => []RangesAreComplete
BY Structure, IdsStay, InitRanges, NextRanges, RangesSuffice, PTL DEF Spec

=============================================================================
