----------------------------- MODULE Dispatcher -----------------------------
(***************************************************************************)
(* IngestJsonReader::write_message and the anonymizer it consults          *)
(* (src/tools/kernel-collector-simulator/ingest_json_reader.cc), driven    *)
(* by next() through whole replay cycles and by reset().                   *)
(*                                                                         *)
(* A handler reads the fields of its record one after another and then     *)
(* makes one writer call.  Each read either succeeds, or throws a          *)
(* type_error (the field has the wrong type: next() catches it and the     *)
(* record is skipped), or, for a missing key, is undefined behaviour (a    *)
(* const json's operator[]).  Reads that change state or carry bytes that  *)
(* are not the record's own are modelled: make_unique_ip, and the memcpy   *)
(* of a string into a fixed array (comm prefixed with unique_prefix_, the  *)
(* cgroup name, IPv6 addresses, the vpc id).  Every other read is a plain  *)
(* conversion and passes the recorded value on.                            *)
(***************************************************************************)
EXTENDS Naturals, Sequences, TLC

CONSTANTS
  Rec,        \* the recording: Rec[i].name and Rec[i].data (field -> value)
  Ips,        \* original IPv4 addresses appearing in the recording
  Repl,       \* values rand() may return for a replacement address
  Garbage,    \* contents an uninitialised stack buffer may have
  WrongType,  \* a field value of the wrong JSON type
  MaxCycles   \* how many full replay cycles are explored

(* The constructor rejects a recording of fewer than two messages.       *)
ASSUME RecAssumption ==
  /\ Len(Rec) \in Nat \ {0, 1}
  /\ \A i \in 1 .. Len(Rec) : DOMAIN Rec[i] = {"name", "data"}

ASSUME BoundAssumption == MaxCycles \in Nat \ {0}

VARIABLES
  cursor,  \* IngestJsonReader::current_, 1-based
  ipmap,   \* IngestJsonReader::ip_ip_map_
  cur,     \* what each record of the current cycle wrote ("none": no call)
  cycles,  \* the writer calls of every completed cycle, in order
  proc     \* "running" or "crashed"

vars == <<cursor, ipmap, cur, cycles, proc>>

-----------------------------------------------------------------------------
(* The handlers: for each message name, its reads in order.                *)

Plain(f) == [field |-> f, kind |-> "plain", pre |-> 0, cap |-> 0]
Ip(f) == [field |-> f, kind |-> "ip", pre |-> 0, cap |-> 0]
Buf(f, pre, cap) == [field |-> f, kind |-> "buf", pre |-> pre, cap |-> cap]

(* The constructor's unique_prefix_: six hex digits.                       *)
PrefixLen == 6

(* comm: unique_prefix_ + data["comm"] copied into uint8_t comm[16].       *)
Comm == Buf("comm", PrefixLen, 16)

(* Process and task messages.                                              *)
ProcessHandlers ==
  [pid_info |-> <<Plain("pid"), Comm>>,
   pid_close_info |-> <<Plain("pid"), Comm>>,
   pid_info_create |->
     <<Plain("pid"), Comm, Plain("cgroup"), Plain("parent_pid"), Plain("cmdline")>>,
   pid_cgroup_move |-> <<Plain("pid"), Plain("cgroup")>>,
   pid_set_comm |-> <<Plain("pid"), Comm>>,
   pid_set_cmdline |-> <<Plain("pid"), Plain("cmdline")>>,
   tracked_process_start |-> <<Plain("_ref")>>,
   tracked_process_end |-> <<Plain("_ref")>>,
   set_tgid |-> <<Plain("_ref"), Plain("tgid")>>,
   set_cgroup |-> <<Plain("_ref"), Plain("cgroup")>>,
   set_command |-> <<Plain("_ref"), Plain("command")>>,
   pid_exit |-> <<Plain("_ref"), Plain("tgid"), Plain("pid"), Plain("exit_code")>>]

(* cgroup and container messages; the cgroup name, after the pod and      *)
(* container ids in it are replaced, is copied into uint8_t name[256].    *)
CgroupHandlers ==
  [cgroup_create |-> <<Plain("cgroup"), Plain("cgroup_parent"), Buf("name", 0, 256)>>,
   cgroup_close |-> <<Plain("cgroup")>>,
   container_metadata |->
     <<Plain("cgroup"), Plain("id"), Plain("name"), Plain("image"), Plain("ip_addr"),
       Plain("cluster"), Plain("container_name"), Plain("task_family"),
       Plain("task_version"), Plain("ns")>>]

(* Socket, NAT, HTTP and UDP messages.                                     *)
SocketHandlers ==
  [new_sock_info |-> <<Plain("pid"), Plain("sk")>>,
   set_state_ipv4 |->
     <<Ip("dest"), Ip("src"), Plain("dport"), Plain("sport"), Plain("sk"), Plain("tx_rx")>>,
   set_state_ipv6 |->
     <<Buf("dest", 0, 16), Buf("src", 0, 16), Plain("dport"), Plain("sport"),
       Plain("sk"), Plain("tx_rx")>>,
   socket_stats |->
     <<Plain("sk"), Plain("diff_bytes"), Plain("diff_delivered"), Plain("diff_retrans"),
       Plain("max_srtt"), Plain("is_rx")>>,
   nat_remapping |->
     <<Plain("sk"), Ip("src"), Ip("dst"), Plain("sport"), Plain("dport")>>,
   close_sock_info |-> <<Plain("sk")>>,
   http_response |->
     <<Plain("sk"), Plain("pid"), Plain("code"), Plain("latency_ns"), Plain("client_server")>>,
   tcp_reset |-> <<Plain("sk"), Plain("is_rx")>>,
   private_ipv4_addr |-> <<Plain("addr"), Buf("vpc_id", 0, 22)>>,
   udp_new_socket |->
     <<Plain("pid"), Plain("sk_id"), Buf("laddr", 0, 16), Plain("lport")>>,
   udp_stats_addr_changed_v4 |->
     <<Plain("sk_id"), Plain("is_rx"), Plain("packets"), Plain("bytes"),
       Plain("raddr"), Plain("rport")>>,
   udp_stats_addr_unchanged |->
     <<Plain("sk_id"), Plain("is_rx"), Plain("packets"), Plain("bytes")>>]

Handlers ==
  [nm \in DOMAIN ProcessHandlers \cup DOMAIN CgroupHandlers \cup DOMAIN SocketHandlers |->
     IF nm \in DOMAIN ProcessHandlers THEN ProcessHandlers[nm]
     ELSE IF nm \in DOMAIN CgroupHandlers THEN CgroupHandlers[nm]
     ELSE SocketHandlers[nm]]

(* Ips holds the original addresses: every address field of the recording *)
(* that has the right type.                                                *)
ASSUME IpsAssumption ==
  \A i \in 1 .. Len(Rec) : Rec[i].name \in DOMAIN Handlers =>
    \A k \in 1 .. Len(Handlers[Rec[i].name]) :
      LET r == Handlers[Rec[i].name][k]
          data == Rec[i].data
      IN  r.kind = "ip" /\ r.field \in DOMAIN data /\ data[r.field] # WrongType
            => data[r.field] \in Ips

-----------------------------------------------------------------------------
(* The reads of one record.  An outcome is [map, st, args]: the ip map    *)
(* after the record, "written", "skipped" or "aborted", and what each      *)
(* successful read passes to the writer call, in read order.              *)

(* memcpy(buf, s.data(), min(s.size(), sizeof(buf))) with s of length     *)
(* pre + len: the array is filled, or its tail keeps whatever the stack   *)
(* held, and the writer call sends all of it.                             *)
CopyToArray(r, len) == IF r.pre + len >= r.cap THEN {"filled"} ELSE Garbage

(* Mutation: make_unique_ip draws a new replacement on every call.         *)
ArgsOfNoLookup(r, data, m) ==
  IF r.field \notin DOMAIN data THEN Garbage
  ELSE IF r.kind = "ip" THEN Repl
  ELSE IF r.kind = "buf" THEN CopyToArray(r, data[r.field])
  ELSE {data[r.field]}

(* What a successful data[f] read passes on, given the ip map m after the *)
(* record: a missing key is undefined behaviour and yields some bytes; an *)
(* address is replaced by its entry in the map (make_unique_ip); a string *)
(* is copied into its array; any other value is converted as recorded.    *)
ArgsOf(r, data, m) ==
  IF r.field \notin DOMAIN data THEN Garbage
  ELSE IF r.kind = "ip" THEN {m[data[r.field]]}
  ELSE IF r.kind = "buf" THEN CopyToArray(r, data[r.field])
  ELSE {data[r.field]}

(* A read can succeed unless its field has the wrong type.                 *)
Passes(r, data) == r.field \in DOMAIN data => data[r.field] # WrongType

(* How a read can end the handler: a type_error skips the record, a       *)
(* missing key may also abort the process.                                 *)
Fails(r, data) ==
  IF r.field \notin DOMAIN data THEN {"skipped", "aborted"}
  ELSE IF data[r.field] = WrongType THEN {"skipped"} ELSE {}

(* The handler stops after read n: it returns, or read n + 1 throws.      *)
Ends(reads, data, n) ==
  IF n = Len(reads) THEN {"written"} ELSE Fails(reads[n + 1], data)

(* The addresses make_unique_ip is called on by the first n reads.        *)
IpsRead(reads, data, n) ==
  {data[reads[k].field] :
     k \in {k \in 1 .. n : reads[k].kind = "ip" /\ reads[k].field \in DOMAIN data}}

(* ip_ip_map_ after make_unique_ip has inserted the draws f for the        *)
(* addresses it had not met before.                                        *)
WithDraws(map, f) ==
  [ip \in DOMAIN map \cup DOMAIN f |-> IF ip \in DOMAIN map THEN map[ip] ELSE f[ip]]

(* The arguments the first n reads can pass with ip map m.                 *)
Choices(reads, data, m, n) ==
  {a \in [1 .. n -> UNION {ArgsOf(reads[k], data, m) : k \in 1 .. n}] :
     \A k \in 1 .. n : a[k] \in ArgsOf(reads[k], data, m)}

(* write_message on a record, given the ip map.  A name without a handler *)
(* is logged and skipped.  Otherwise the first n reads succeed and the    *)
(* handler returns or read n + 1 throws.  make_unique_ip draws a          *)
(* replacement f[ip] the first time it meets an address and returns the   *)
(* stored one afterwards, so the map after the record is the map before   *)
(* plus one draw per new address, and every address read is replaced by  *)
(* its entry in that map.                                                  *)
WriteMessage(rec, map) ==
  IF rec.name \notin DOMAIN Handlers
    THEN {[map |-> map, st |-> "skipped", args |-> <<>>]}
    ELSE LET reads == Handlers[rec.name]
             data == rec.data
         IN UNION {UNION {UNION {{[map |-> WithDraws(map, f), st |-> s, args |-> a] :
                                    a \in Choices(reads, data, WithDraws(map, f), n)} :
                                  s \in Ends(reads, data, n)} :
                           f \in [IpsRead(reads, data, n) \ DOMAIN map -> Repl]} :
                    n \in {n \in 0 .. Len(reads) : \A k \in 1 .. n : Passes(reads[k], data)}}

-----------------------------------------------------------------------------

Init ==
  /\ cursor = 1
  /\ ipmap = <<>>
  /\ cur = <<>>
  /\ cycles = <<>>
  /\ proc = "running"

(* Mutation: the end() check made on current_ instead of current_ + 1.    *)
AtEndLate(c) == c > Len(Rec)

(* next == ingest_json_.end(): the current record is the last one.         *)
AtEnd(c) == c + 1 > Len(Rec)

(* next(): write_message inside the try block, then the cursor moves on;  *)
(* after the last record it returns to begin() and a cycle is complete.   *)
NextRecord ==
  /\ proc = "running"
  /\ Len(cycles) < MaxCycles
  /\ \E o \in WriteMessage(Rec[cursor], ipmap) :
       IF o.st = "aborted"
         THEN /\ proc' = "crashed"
              /\ UNCHANGED <<cursor, ipmap, cur, cycles>>
         ELSE LET call == IF o.st = "written" THEN [name |-> Rec[cursor].name, args |-> o.args]
                                               ELSE "none"
              IN /\ ipmap' = o.map
                 /\ IF AtEnd(cursor)
                      THEN /\ cursor' = 1
                           /\ cur' = <<>>
                           /\ cycles' = Append(cycles, Append(cur, call))
                      ELSE /\ cursor' = cursor + 1
                           /\ cur' = Append(cur, call)
                           /\ UNCHANGED cycles
                 /\ UNCHANGED proc

(* reset(), from on_error: the cursor returns to begin() and the cycle in *)
(* progress is abandoned.                                                  *)
Reset ==
  /\ proc = "running"
  /\ cursor # 1
  /\ cursor' = 1
  /\ cur' = <<>>
  /\ UNCHANGED <<ipmap, cycles, proc>>

Next == NextRecord \/ Reset

Spec == Init /\ [][Next]_vars

-----------------------------------------------------------------------------
(* Properties.                                                             *)

TypeOK ==
  /\ cursor \in 1 .. Len(Rec)
  /\ ipmap \in [DOMAIN ipmap -> Repl]
  /\ DOMAIN ipmap \subseteq Ips
  /\ Len(cycles) <= MaxCycles
  /\ proc \in {"running", "crashed"}

(* Replaying the recording again, after a wrap-around or a reset(),       *)
(* produces exactly the writer calls of the first full cycle (spec        *)
(* section 8): replacements come from the map, filled arrays from the     *)
(* record and the session prefix.                                          *)
IdempotentRestart ==
  \A c \in DOMAIN cycles : cycles[c] = cycles[1]

=============================================================================
