-------------------------- MODULE DispatcherProofs --------------------------
(***************************************************************************)
(* Proofs about the dispatcher for every recording: the replay is well    *)
(* typed, and a recording in which every field is present and every       *)
(* string fills its array is replayed identically after every             *)
(* wrap-around and every reset().                                         *)
(***************************************************************************)
EXTENDS Dispatcher, TLAPS

-----------------------------------------------------------------------------
(* The handler table.                                                      *)

(* The fields the handlers read.                                          *)
FieldNames ==
  {"_ref", "addr", "bytes", "cgroup", "cgroup_parent", "client_server",
   "cluster", "cmdline", "code", "comm", "command", "container_name",
   "dest", "diff_bytes", "diff_delivered", "diff_retrans", "dport", "dst",
   "exit_code", "id", "image", "ip_addr", "is_rx", "laddr", "latency_ns",
   "lport", "max_srtt", "name", "ns", "packets", "parent_pid", "pid",
   "raddr", "rport", "sk", "sk_id", "sport", "src", "task_family",
   "task_version", "tgid", "tx_rx", "vpc_id"}

(* A read: the field it takes, how it is converted, and for a copy into  *)
(* an array the prefix before it and the array's size.                   *)
ReadType == [field : FieldNames, kind : {"plain", "ip", "buf"}, pre : Nat, cap : Nat]

(* The three kinds of read are reads.                                     *)
LEMMA ReadKinds ==
  \A f \in FieldNames, p \in Nat, c \in Nat :
     Plain(f) \in ReadType /\ Ip(f) \in ReadType /\ Buf(f, p, c) \in ReadType
BY DEF Plain, Ip, Buf, ReadType

(* Every handler is a finite list of reads.                                *)
LEMMA HandlersType == \A nm \in DOMAIN Handlers : Handlers[nm] \in Seq(ReadType)
<1>1. \A nm \in DOMAIN ProcessHandlers : ProcessHandlers[nm] \in Seq(ReadType)
  <2>1. DOMAIN ProcessHandlers =
         {"pid_info", "pid_close_info", "pid_info_create", "pid_cgroup_move",
          "pid_set_comm", "pid_set_cmdline", "tracked_process_start",
          "tracked_process_end", "set_tgid", "set_cgroup", "set_command",
          "pid_exit"}
    BY DEF ProcessHandlers
  <2>2. ProcessHandlers["pid_info"] \in Seq(ReadType)
    BY ReadKinds DEF ProcessHandlers, FieldNames, Comm, PrefixLen
  <2>3. ProcessHandlers["pid_close_info"] \in Seq(ReadType)
    BY ReadKinds DEF ProcessHandlers, FieldNames, Comm, PrefixLen
  <2>4. ProcessHandlers["pid_info_create"] \in Seq(ReadType)
    BY ReadKinds DEF ProcessHandlers, FieldNames, Comm, PrefixLen
  <2>5. ProcessHandlers["pid_cgroup_move"] \in Seq(ReadType)
    BY ReadKinds DEF ProcessHandlers, FieldNames, Comm, PrefixLen
  <2>6. ProcessHandlers["pid_set_comm"] \in Seq(ReadType)
    BY ReadKinds DEF ProcessHandlers, FieldNames, Comm, PrefixLen
  <2>7. ProcessHandlers["pid_set_cmdline"] \in Seq(ReadType)
    BY ReadKinds DEF ProcessHandlers, FieldNames, Comm, PrefixLen
  <2>8. ProcessHandlers["tracked_process_start"] \in Seq(ReadType)
    BY ReadKinds DEF ProcessHandlers, FieldNames, Comm, PrefixLen
  <2>9. ProcessHandlers["tracked_process_end"] \in Seq(ReadType)
    BY ReadKinds DEF ProcessHandlers, FieldNames, Comm, PrefixLen
  <2>10. ProcessHandlers["set_tgid"] \in Seq(ReadType)
    BY ReadKinds DEF ProcessHandlers, FieldNames, Comm, PrefixLen
  <2>11. ProcessHandlers["set_cgroup"] \in Seq(ReadType)
    BY ReadKinds DEF ProcessHandlers, FieldNames, Comm, PrefixLen
  <2>12. ProcessHandlers["set_command"] \in Seq(ReadType)
    BY ReadKinds DEF ProcessHandlers, FieldNames, Comm, PrefixLen
  <2>13. ProcessHandlers["pid_exit"] \in Seq(ReadType)
    BY ReadKinds DEF ProcessHandlers, FieldNames, Comm, PrefixLen
  <2>14. QED
    BY <2>1, <2>2, <2>3, <2>4, <2>5, <2>6, <2>7, <2>8, <2>9, <2>10, <2>11, <2>12, <2>13
<1>2. \A nm \in DOMAIN CgroupHandlers : CgroupHandlers[nm] \in Seq(ReadType)
  <2>1. DOMAIN CgroupHandlers =
         {"cgroup_create", "cgroup_close", "container_metadata"}
    BY DEF CgroupHandlers
  <2>2. CgroupHandlers["cgroup_create"] \in Seq(ReadType)
    BY ReadKinds DEF CgroupHandlers, FieldNames
  <2>3. CgroupHandlers["cgroup_close"] \in Seq(ReadType)
    BY ReadKinds DEF CgroupHandlers, FieldNames
  <2>4. CgroupHandlers["container_metadata"] \in Seq(ReadType)
    BY ReadKinds DEF CgroupHandlers, FieldNames
  <2>5. QED
    BY <2>1, <2>2, <2>3, <2>4
<1>3. \A nm \in DOMAIN SocketHandlers : SocketHandlers[nm] \in Seq(ReadType)
  <2>1. DOMAIN SocketHandlers =
         {"new_sock_info", "set_state_ipv4", "set_state_ipv6",
          "socket_stats", "nat_remapping", "close_sock_info",
          "http_response", "tcp_reset", "private_ipv4_addr",
          "udp_new_socket", "udp_stats_addr_changed_v4",
          "udp_stats_addr_unchanged"}
    BY DEF SocketHandlers
  <2>2. SocketHandlers["new_sock_info"] \in Seq(ReadType)
    BY ReadKinds DEF SocketHandlers, FieldNames
  <2>3. SocketHandlers["set_state_ipv4"] \in Seq(ReadType)
    BY ReadKinds DEF SocketHandlers, FieldNames
  <2>4. SocketHandlers["set_state_ipv6"] \in Seq(ReadType)
    BY ReadKinds DEF SocketHandlers, FieldNames
  <2>5. SocketHandlers["socket_stats"] \in Seq(ReadType)
    BY ReadKinds DEF SocketHandlers, FieldNames
  <2>6. SocketHandlers["nat_remapping"] \in Seq(ReadType)
    BY ReadKinds DEF SocketHandlers, FieldNames
  <2>7. SocketHandlers["close_sock_info"] \in Seq(ReadType)
    BY ReadKinds DEF SocketHandlers, FieldNames
  <2>8. SocketHandlers["http_response"] \in Seq(ReadType)
    BY ReadKinds DEF SocketHandlers, FieldNames
  <2>9. SocketHandlers["tcp_reset"] \in Seq(ReadType)
    BY ReadKinds DEF SocketHandlers, FieldNames
  <2>10. SocketHandlers["private_ipv4_addr"] \in Seq(ReadType)
    BY ReadKinds DEF SocketHandlers, FieldNames
  <2>11. SocketHandlers["udp_new_socket"] \in Seq(ReadType)
    BY ReadKinds DEF SocketHandlers, FieldNames
  <2>12. SocketHandlers["udp_stats_addr_changed_v4"] \in Seq(ReadType)
    BY ReadKinds DEF SocketHandlers, FieldNames
  <2>13. SocketHandlers["udp_stats_addr_unchanged"] \in Seq(ReadType)
    BY ReadKinds DEF SocketHandlers, FieldNames
  <2>14. QED
    BY <2>1, <2>2, <2>3, <2>4, <2>5, <2>6, <2>7, <2>8, <2>9, <2>10, <2>11, <2>12, <2>13
<1>4. QED
  BY <1>1, <1>2, <1>3 DEF Handlers

-----------------------------------------------------------------------------
(* The ip map after a record.                                              *)

(* The ip map is a map from original addresses to replacements.          *)
IpMapOK(m) == m \in [DOMAIN m -> Repl] /\ DOMAIN m \subseteq Ips

(* How many reads of a handled record succeed.                             *)
Succeeding(rec) ==
  {n \in 0 .. Len(Handlers[rec.name]) :
     \A k \in 1 .. n : Passes(Handlers[rec.name][k], rec.data)}

(* An outcome of a handled record: n reads succeed, make_unique_ip draws  *)
(* f for the new addresses, the handler ends with st, passing args.       *)
LEMMA WriteMessageCases ==
  ASSUME NEW rec, NEW map, rec.name \in DOMAIN Handlers,
         NEW o \in WriteMessage(rec, map)
  PROVE  \E n \in Succeeding(rec) :
           \E f \in [IpsRead(Handlers[rec.name], rec.data, n) \ DOMAIN map -> Repl] :
             /\ o.map = WithDraws(map, f)
             /\ o.st \in Ends(Handlers[rec.name], rec.data, n)
             /\ o.args \in Choices(Handlers[rec.name], rec.data, WithDraws(map, f), n)
<1> DEFINE reads == Handlers[rec.name]
           data == rec.data
           Out(n, f, s) ==
             {[map |-> WithDraws(map, f), st |-> s, args |-> a] :
                a \in Choices(reads, data, WithDraws(map, f), n)}
           ByEnd(n, f) == UNION {Out(n, f, s) : s \in Ends(reads, data, n)}
           ByDraw(n) == UNION {ByEnd(n, f) : f \in [IpsRead(reads, data, n) \ DOMAIN map -> Repl]}
<1>1. o \in UNION {ByDraw(n) : n \in Succeeding(rec)}
  BY DEF WriteMessage, Succeeding
<1>2. PICK n \in Succeeding(rec) : o \in ByDraw(n)
  BY <1>1, Zenon
<1>3. PICK f \in [IpsRead(reads, data, n) \ DOMAIN map -> Repl] : o \in ByEnd(n, f)
  BY <1>2, Zenon
<1>4. PICK s \in Ends(reads, data, n) : o \in Out(n, f, s)
  BY <1>3, Zenon
<1>5. PICK a \in Choices(reads, data, WithDraws(map, f), n) :
        o = [map |-> WithDraws(map, f), st |-> s, args |-> a]
  BY <1>4, Zenon
<1>6. QED
  BY <1>2, <1>3, <1>4, <1>5

(* write_message only ever adds draws from Repl for addresses of the     *)
(* recording to the ip map.                                                *)
LEMMA OutcomeMap ==
  ASSUME NEW i \in 1 .. Len(Rec), NEW map, IpMapOK(map),
         NEW o \in WriteMessage(Rec[i], map)
  PROVE  IpMapOK(o.map)
<1> DEFINE rec == Rec[i]
           reads == Handlers[rec.name]
           data == rec.data
<1>1. CASE rec.name \notin DOMAIN Handlers
  BY <1>1 DEF WriteMessage
<1>2. CASE rec.name \in DOMAIN Handlers
  <2>1. PICK n \in Succeeding(rec) :
          \E f \in [IpsRead(reads, data, n) \ DOMAIN map -> Repl] :
            /\ o.map = WithDraws(map, f)
            /\ o.st \in Ends(reads, data, n)
            /\ o.args \in Choices(reads, data, WithDraws(map, f), n)
    BY <1>2, WriteMessageCases
  <2>2. PICK f \in [IpsRead(reads, data, n) \ DOMAIN map -> Repl] :
          o.map = WithDraws(map, f)
    BY <2>1, Zenon
  <2>3. Len(reads) \in Nat
    BY <1>2, HandlersType
  <2>4. IpsRead(reads, data, n) \subseteq Ips
    <3> SUFFICES ASSUME NEW k \in 1 .. n, reads[k].kind = "ip",
                        reads[k].field \in DOMAIN data
                 PROVE  data[reads[k].field] \in Ips
      BY DEF IpsRead
    <3>1. k \in 1 .. Len(reads) /\ Passes(reads[k], data)
      BY <2>1, <2>3 DEF Succeeding
    <3>2. QED
      BY <1>2, <3>1, IpsAssumption DEF Passes
  <2>5. QED
    BY <2>2, <2>4 DEF IpMapOK, WithDraws
<1>3. QED
  BY <1>1, <1>2

-----------------------------------------------------------------------------
(* Type correctness.                                                       *)

(* TypeOK, with the fact that the completed cycles form a list.           *)
TInv == TypeOK /\ \E S : cycles \in Seq(S)

LEMMA InitTInv == Init => TInv
BY RecAssumption, BoundAssumption DEF Init, TInv, TypeOK

LEMMA TInvStep == TInv /\ [Next]_vars => TInv'
<1> SUFFICES ASSUME TInv, [Next]_vars PROVE TInv'
  OBVIOUS
<1> USE RecAssumption, BoundAssumption DEF TInv, TypeOK
<1>1. CASE NextRecord
  <2>1. PICK o \in WriteMessage(Rec[cursor], ipmap) :
          IF o.st = "aborted"
            THEN /\ proc' = "crashed"
                 /\ UNCHANGED <<cursor, ipmap, cur, cycles>>
            ELSE LET call == IF o.st = "written"
                               THEN [name |-> Rec[cursor].name, args |-> o.args]
                               ELSE "none"
                 IN /\ ipmap' = o.map
                    /\ IF AtEnd(cursor)
                         THEN /\ cursor' = 1
                              /\ cur' = <<>>
                              /\ cycles' = Append(cycles, Append(cur, call))
                         ELSE /\ cursor' = cursor + 1
                              /\ cur' = Append(cur, call)
                              /\ UNCHANGED cycles
                    /\ UNCHANGED proc
    BY <1>1 DEF NextRecord
  <2>2. CASE o.st = "aborted"
    BY <2>1, <2>2
  <2>3. CASE o.st # "aborted"
    <3>1. IpMapOK(ipmap')
      <4>1. IpMapOK(ipmap)
        BY DEF IpMapOK
      <4>2. QED
        BY <2>1, <2>3, <4>1, OutcomeMap
    <3>2. CASE AtEnd(cursor)
      <4>1. PICK S : cycles \in Seq(S)
        OBVIOUS
      <4> DEFINE last == Append(cur, IF o.st = "written"
                                       THEN [name |-> Rec[cursor].name, args |-> o.args]
                                       ELSE "none")
      <4>2. cursor' = 1 /\ cycles' = Append(cycles, last) /\ proc' = proc
        BY <2>1, <2>3, <3>2
      <4>3. Append(cycles, last) \in Seq(S \cup {last})
        BY <4>1
      <4>4. Len(Append(cycles, last)) <= MaxCycles
        BY <1>1, <4>1 DEF NextRecord
      <4>5. \E T : cycles' \in Seq(T)
        BY <4>2, <4>3
      <4>6. TypeOK'
        BY <3>1, <4>2, <4>4 DEF IpMapOK
      <4>7. QED
        BY <4>5, <4>6
    <3>3. CASE ~AtEnd(cursor)
      BY <1>1, <2>1, <2>3, <3>1, <3>3 DEF NextRecord, AtEnd, IpMapOK
    <3>4. QED
      BY <3>2, <3>3
  <2>4. QED
    BY <2>2, <2>3
<1>2. CASE Reset
  BY <1>2 DEF Reset
<1>3. CASE UNCHANGED vars
  BY <1>3 DEF vars
<1>4. QED
  BY <1>1, <1>2, <1>3 DEF Next

(* Type correctness of the replay (the TypeOK run): the cursor stays on   *)
(* a record of the recording, ip_ip_map_ maps original addresses to       *)
(* replacements, and at most MaxCycles cycles complete.                   *)
THEOREM TypeCorrect == Spec => []TypeOK
<1>1. TInv => TypeOK
  BY DEF TInv
<1>2. QED
  BY InitTInv, TInvStep, <1>1, PTL DEF Spec

-----------------------------------------------------------------------------
(* Replay of a clean recording.                                            *)

(* A clean recording: every field a handler reads is present, and every  *)
(* string copied into an array fills it.  Missing fields are undefined    *)
(* behaviour and short strings leave stack bytes in the array (the        *)
(* uninit_comm run), so neither replays identically.                       *)
CleanRecording ==
  \A i \in 1 .. Len(Rec) : Rec[i].name \in DOMAIN Handlers =>
    \A k \in 1 .. Len(Handlers[Rec[i].name]) :
      LET r == Handlers[Rec[i].name][k]
          data == Rec[i].data
      IN  /\ r.field \in DOMAIN data
          /\ r.kind = "buf" /\ data[r.field] # WrongType => r.pre + data[r.field] >= r.cap

(* The reads of a handled record.                                          *)
Reads(rec) == Handlers[rec.name]

(* The handler returns: every read succeeds.                               *)
Written(rec) ==
  /\ rec.name \in DOMAIN Handlers
  /\ \A k \in 1 .. Len(Reads(rec)) : Passes(Reads(rec)[k], rec.data)

(* What a read of a clean record passes, given the ip map M.               *)
Arg(r, data, M) ==
  IF r.kind = "ip" THEN M[data[r.field]]
  ELSE IF r.kind = "buf" THEN "filled"
  ELSE data[r.field]

ArgsList(rec, M) ==
  [k \in 1 .. Len(Reads(rec)) |-> Arg(Reads(rec)[k], rec.data, M)]

(* The writer call a clean record makes with ip map M.                     *)
CallOf(rec, M) ==
  IF Written(rec) THEN [name |-> rec.name, args |-> ArgsList(rec, M)] ELSE "none"

(* The calls of a whole cycle with ip map M.                               *)
FullCycle(M) == [i \in 1 .. Len(Rec) |-> CallOf(Rec[i], M)]

(* The addresses a written record replaces.                                *)
AddrOf(rec) == IpsRead(Reads(rec), rec.data, Len(Reads(rec)))

(* M has an entry for every address the record replaces.                   *)
Covered(rec, M) == Written(rec) => AddrOf(rec) \subseteq DOMAIN M

(* M2 extends M1: make_unique_ip never changes a stored replacement.       *)
GrowsTo(M1, M2) ==
  DOMAIN M1 \subseteq DOMAIN M2 /\ \A a \in DOMAIN M1 : M2[a] = M1[a]

(* Replaying a record of a clean recording: the handler never aborts, it  *)
(* returns exactly when every read succeeds, the ip map only grows, and   *)
(* the call it makes is the one the map after the record gives, which    *)
(* covers every address the record replaces.                             *)
LEMMA CleanOutcome ==
  ASSUME CleanRecording, NEW i \in 1 .. Len(Rec), NEW map,
         NEW o \in WriteMessage(Rec[i], map)
  PROVE  /\ o.st \in {"written", "skipped"}
         /\ GrowsTo(map, o.map)
         /\ o.st = "written" <=> Written(Rec[i])
         /\ o.st = "written" => /\ o.args = ArgsList(Rec[i], o.map)
                                /\ AddrOf(Rec[i]) \subseteq DOMAIN o.map
<1> DEFINE rec == Rec[i]
           reads == Handlers[rec.name]
           data == rec.data
<1>1. CASE rec.name \notin DOMAIN Handlers
  BY <1>1 DEF WriteMessage, Written, GrowsTo
<1>2. CASE rec.name \in DOMAIN Handlers
  <2>1. PICK n \in Succeeding(rec) :
          \E f \in [IpsRead(reads, data, n) \ DOMAIN map -> Repl] :
            /\ o.map = WithDraws(map, f)
            /\ o.st \in Ends(reads, data, n)
            /\ o.args \in Choices(reads, data, WithDraws(map, f), n)
    BY <1>2, WriteMessageCases
  <2>2. PICK f \in [IpsRead(reads, data, n) \ DOMAIN map -> Repl] :
            /\ o.map = WithDraws(map, f)
            /\ o.st \in Ends(reads, data, n)
            /\ o.args \in Choices(reads, data, WithDraws(map, f), n)
    BY <2>1, Zenon
  <2>3. /\ reads \in Seq(ReadType)
        /\ n \in 0 .. Len(reads)
        /\ \A k \in 1 .. n : Passes(reads[k], data)
    BY <1>2, <2>1, HandlersType DEF Succeeding
  <2>4. \A k \in 1 .. Len(reads) :
          /\ reads[k].field \in DOMAIN data
          /\ reads[k].kind = "buf" /\ data[reads[k].field] # WrongType
               => reads[k].pre + data[reads[k].field] >= reads[k].cap
    BY <1>2 DEF CleanRecording
  <2>5. GrowsTo(map, o.map)
    BY <2>2 DEF GrowsTo, WithDraws
  <2>6. CASE n = Len(reads)
    <3>1. o.st = "written"
      BY <2>2, <2>6 DEF Ends
    <3>2. Written(rec)
      BY <1>2, <2>3, <2>6 DEF Written, Reads
    <3>3. o.args = ArgsList(rec, o.map)
      <4> DEFINE M == WithDraws(map, f)
      <4>1. /\ o.args \in [1 .. Len(reads) -> UNION {ArgsOf(reads[k], data, M) : k \in 1 .. Len(reads)}]
             /\ \A k \in 1 .. Len(reads) : o.args[k] \in ArgsOf(reads[k], data, M)
        BY <2>2, <2>6 DEF Choices
      <4>2. \A k \in 1 .. Len(reads) : ArgsOf(reads[k], data, M) = {Arg(reads[k], data, M)}
        <5> SUFFICES ASSUME NEW k \in 1 .. Len(reads)
                     PROVE  ArgsOf(reads[k], data, M) = {Arg(reads[k], data, M)}
          OBVIOUS
        <5>1. reads[k] \in ReadType /\ Passes(reads[k], data)
          BY <2>3, <2>6
        <5>2. QED
          BY <2>4, <5>1 DEF ArgsOf, Arg, CopyToArray, ReadType, Passes
      <4>3. QED
        BY <2>2, <4>1, <4>2 DEF ArgsList, Reads
    <3>4. AddrOf(rec) \subseteq DOMAIN o.map
      BY <2>2, <2>6 DEF AddrOf, Reads, WithDraws
    <3>5. QED
      BY <2>5, <3>1, <3>2, <3>3, <3>4
  <2>7. CASE n # Len(reads)
    <3>1. n + 1 \in 1 .. Len(reads)
      BY <2>3, <2>7
    <3>2. o.st = "skipped" /\ ~Passes(reads[n + 1], data)
      BY <2>2, <2>4, <2>7, <3>1 DEF Ends, Fails, Passes
    <3>3. ~Written(rec)
      BY <3>1, <3>2 DEF Written, Reads
    <3>4. QED
      BY <2>5, <3>2, <3>3
  <2>8. QED
    BY <2>6, <2>7
<1>3. QED
  BY <1>1, <1>2

(* The inductive invariant: the calls of the cycle in progress, and of    *)
(* every completed cycle, are those the current ip map gives, and the map *)
(* covers every record replayed so far, so that later draws, which only  *)
(* add entries, change none of them.                                       *)
DInv ==
  /\ TInv
  /\ proc = "running"
  /\ cur = [i \in 1 .. cursor - 1 |-> CallOf(Rec[i], ipmap)]
  /\ \A i \in 1 .. cursor - 1 : Covered(Rec[i], ipmap)
  /\ \A c \in DOMAIN cycles : cycles[c] = FullCycle(ipmap)
  /\ cycles # <<>> => \A i \in 1 .. Len(Rec) : Covered(Rec[i], ipmap)

(* A call whose addresses are all in the map stays the same as the map   *)
(* grows.                                                                  *)
LEMMA CallStable ==
  ASSUME CleanRecording, NEW i \in 1 .. Len(Rec), NEW M1, NEW M2,
         GrowsTo(M1, M2), Covered(Rec[i], M1)
  PROVE  CallOf(Rec[i], M1) = CallOf(Rec[i], M2) /\ Covered(Rec[i], M2)
<1> DEFINE rec == Rec[i]
           reads == Handlers[rec.name]
           data == rec.data
<1>1. CASE Written(rec)
  <2>1. reads \in Seq(ReadType)
    BY <1>1, HandlersType DEF Written
  <2>2. \A k \in 1 .. Len(reads) : reads[k].field \in DOMAIN data
    BY <1>1 DEF CleanRecording, Written
  <2>3. \A k \in 1 .. Len(reads) :
          reads[k].kind = "ip" => data[reads[k].field] \in DOMAIN M1
    BY <1>1, <2>1, <2>2 DEF Covered, AddrOf, IpsRead, Reads
  <2>4. ArgsList(rec, M1) = ArgsList(rec, M2)
    BY <2>1, <2>3 DEF ArgsList, Arg, Reads, GrowsTo
  <2>5. QED
    BY <1>1, <2>4 DEF CallOf, Covered, GrowsTo
<1>2. CASE ~Written(rec)
  BY <1>2 DEF CallOf, Covered
<1>3. QED
  BY <1>1, <1>2

(* A whole cycle whose addresses are all in the map stays the same as   *)
(* the map grows.                                                          *)
LEMMA CycleStable ==
  ASSUME CleanRecording, NEW M1, NEW M2, GrowsTo(M1, M2),
         \A i \in 1 .. Len(Rec) : Covered(Rec[i], M1)
  PROVE  FullCycle(M1) = FullCycle(M2)
BY CallStable DEF FullCycle

LEMMA InitDInv == CleanRecording /\ Init => DInv
<1> SUFFICES ASSUME CleanRecording, Init PROVE DInv
  OBVIOUS
<1>1. TInv
  BY InitTInv
<1>2. cur = [i \in 1 .. cursor - 1 |-> CallOf(Rec[i], ipmap)]
  BY DEF Init
<1>3. QED
  BY <1>1, <1>2 DEF Init, DInv

LEMMA DInvStep == CleanRecording /\ DInv /\ [Next]_vars => DInv'
<1> SUFFICES ASSUME CleanRecording, DInv, [Next]_vars PROVE DInv'
  OBVIOUS
<1>0. TInv' /\ cursor \in 1 .. Len(Rec) /\ Len(Rec) \in Nat
  BY TInvStep, RecAssumption DEF DInv, TInv, TypeOK
<1>1. CASE NextRecord
  <2>1. PICK o \in WriteMessage(Rec[cursor], ipmap) :
          IF o.st = "aborted"
            THEN /\ proc' = "crashed"
                 /\ UNCHANGED <<cursor, ipmap, cur, cycles>>
            ELSE LET call == IF o.st = "written"
                               THEN [name |-> Rec[cursor].name, args |-> o.args]
                               ELSE "none"
                 IN /\ ipmap' = o.map
                    /\ IF AtEnd(cursor)
                         THEN /\ cursor' = 1
                              /\ cur' = <<>>
                              /\ cycles' = Append(cycles, Append(cur, call))
                         ELSE /\ cursor' = cursor + 1
                              /\ cur' = Append(cur, call)
                              /\ UNCHANGED cycles
                    /\ UNCHANGED proc
    BY <1>1 DEF NextRecord
  <2>2. /\ o.st \in {"written", "skipped"}
        /\ GrowsTo(ipmap, o.map)
        /\ o.st = "written" <=> Written(Rec[cursor])
        /\ o.st = "written" => /\ o.args = ArgsList(Rec[cursor], o.map)
                               /\ AddrOf(Rec[cursor]) \subseteq DOMAIN o.map
    BY <1>0, CleanOutcome
  <2> DEFINE call == IF o.st = "written"
                       THEN [name |-> Rec[cursor].name, args |-> o.args]
                       ELSE "none"
  <2>3. /\ ipmap' = o.map
        /\ proc' = proc
        /\ IF AtEnd(cursor)
             THEN /\ cursor' = 1
                  /\ cur' = <<>>
                  /\ cycles' = Append(cycles, Append(cur, call))
             ELSE /\ cursor' = cursor + 1
                  /\ cur' = Append(cur, call)
                  /\ UNCHANGED cycles
    BY <2>1, <2>2
  <2>4. call = CallOf(Rec[cursor], ipmap') /\ Covered(Rec[cursor], ipmap')
    BY <2>2, <2>3 DEF CallOf, Covered
  <2>5. \A i \in 1 .. cursor - 1 :
          CallOf(Rec[i], ipmap) = CallOf(Rec[i], ipmap') /\ Covered(Rec[i], ipmap')
    BY <1>0, <2>2, <2>3, CallStable DEF DInv
  <2>6. Append(cur, call) = [i \in 1 .. cursor |-> CallOf(Rec[i], ipmap')]
    BY <1>0, <2>4, <2>5 DEF DInv
  <2>7. \A i \in 1 .. cursor : Covered(Rec[i], ipmap')
    BY <1>0, <2>4, <2>5
  <2>8. cycles # <<>> => FullCycle(ipmap) = FullCycle(ipmap')
    BY <2>2, <2>3, CycleStable DEF DInv
  <2>9. CASE AtEnd(cursor)
    <3>1. cursor = Len(Rec)
      BY <1>0, <2>9 DEF AtEnd
    <3>2. Append(cur, call) = FullCycle(ipmap')
      BY <2>6, <3>1 DEF FullCycle
    <3>3. \A c \in DOMAIN cycles' : cycles'[c] = FullCycle(ipmap')
      <4>1. PICK S : cycles \in Seq(S)
        BY DEF DInv, TInv
      <4>2. cycles' = Append(cycles, FullCycle(ipmap'))
        BY <2>3, <2>9, <3>2
      <4> SUFFICES ASSUME NEW c \in DOMAIN cycles' PROVE cycles'[c] = FullCycle(ipmap')
        OBVIOUS
      <4>3. CASE c \in 1 .. Len(cycles)
        <5>1. cycles # <<>> /\ cycles'[c] = cycles[c]
          BY <4>1, <4>2, <4>3
        <5>2. c \in DOMAIN cycles
          BY <4>1, <4>3
        <5>3. QED
          BY <2>8, <5>1, <5>2 DEF DInv
      <4>4. CASE c \notin 1 .. Len(cycles)
        BY <4>1, <4>2, <4>4
      <4>5. QED
        BY <4>3, <4>4
    <3>4. cur' = [i \in 1 .. cursor' - 1 |-> CallOf(Rec[i], ipmap')]
      BY <2>3, <2>9
    <3>5. \A i \in 1 .. Len(Rec) : Covered(Rec[i], ipmap')
      BY <2>7, <3>1
    <3>6. QED
      BY <1>0, <2>3, <2>9, <3>3, <3>4, <3>5 DEF DInv
  <2>10. CASE ~AtEnd(cursor)
    <3>1. \A c \in DOMAIN cycles' : cycles'[c] = FullCycle(ipmap')
      BY <2>3, <2>8, <2>10 DEF DInv
    <3>2. cycles' # <<>> => \A i \in 1 .. Len(Rec) : Covered(Rec[i], ipmap')
      <4> SUFFICES ASSUME cycles' # <<>>, NEW i \in 1 .. Len(Rec)
                   PROVE  Covered(Rec[i], ipmap')
        OBVIOUS
      <4>1. Covered(Rec[i], ipmap)
        BY <2>3, <2>10 DEF DInv
      <4>2. QED
        BY <2>2, <2>3, <4>1, CallStable
    <3>3. cursor' = cursor + 1 /\ cur' = Append(cur, call)
      BY <2>3, <2>10
    <3>4. cur' = [i \in 1 .. cursor' - 1 |-> CallOf(Rec[i], ipmap')]
      <4>1. cursor' - 1 = cursor
        BY <1>0, <3>3
      <4>2. QED
        BY <2>6, <3>3, <4>1
    <3>5. \A i \in 1 .. cursor' - 1 : Covered(Rec[i], ipmap')
      BY <1>0, <2>7, <3>3
    <3>6. QED
      BY <1>0, <2>3, <3>1, <3>2, <3>4, <3>5 DEF DInv
  <2>11. QED
    BY <2>9, <2>10
<1>2. CASE Reset
  BY <1>0, <1>2 DEF Reset, DInv
<1>3. CASE UNCHANGED vars
  BY <1>0, <1>3 DEF vars, DInv
<1>4. QED
  BY <1>1, <1>2, <1>3 DEF Next

(* Replay of a clean recording is idempotent (the IdempotentRestart     *)
(* property of the dispatch run): next() wrapping around and reset()     *)
(* restarting a cycle make every completed cycle issue exactly the writer *)
(* calls of the first, because make_unique_ip keeps each replacement it  *)
(* drew.                                                                   *)
THEOREM IdempotentRestartInvariant ==
  ASSUME CleanRecording
  PROVE  Spec => []IdempotentRestart
<1>1. Init => DInv
  BY InitDInv
<1>2. DInv /\ [Next]_vars => DInv'
  BY DInvStep
<1>3. DInv => IdempotentRestart
  BY DEF DInv, IdempotentRestart
<1>4. QED
  BY <1>1, <1>2, <1>3, PTL DEF Spec
====
