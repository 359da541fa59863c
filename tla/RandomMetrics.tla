---------------------------- MODULE RandomMetrics ----------------------------
(***************************************************************************)
(* The value draws of the synthetic metrics generator                      *)
(* (src/tools/simulator/random.cc).  Every value is drawn by               *)
(* random_number(min, max), which asserts max > min and returns            *)
(* rand() % (max - min) + min.  Some draws take their bounds from earlier  *)
(* draws of the same metric: a DNS metric's responses and timeouts depend  *)
(* on its request counts, and the total time of a DNS or HTTP metric on    *)
(* its processing time.  The operators below are the sets of outcomes of  *)
(* those chains.                                                           *)
(***************************************************************************)
EXTENDS Integers

CONSTANTS
  TimeLo,  \* the lower bound of the processing-time draws (1'000'00 ns)
  TimeHi   \* the upper bound of the time draws (100'000'000 ns)

ASSUME TimeBoundsAssumption ==
  /\ TimeLo \in Nat
  /\ TimeHi \in Nat
  /\ TimeLo < TimeHi

(* The unsigned subtraction requests_a + requests_aaaa - responses; it   *)
(* would wrap around below zero, which DnsCountsConsistent rules out.     *)
USub(x, y) == x - y

(* The outcome of a draw whose precondition fails: the assertion aborts   *)
(* the process (with max = min and assertions compiled out, rand() % 0 is *)
(* a division by zero).                                                    *)
Fault == -1

(* random_number(min, max): every value of min .. max - 1 is reachable,   *)
(* because RAND_MAX exceeds every range the generator uses.               *)
RandomNumber(min, max) == IF max > min THEN min .. (max - 1) ELSE {Fault}

(* Mutation: responses drawn up to and including the number of requests. *)
DnsCountsRespInclusive ==
  UNION { UNION { UNION {
    { [requests_a |-> a, requests_aaaa |-> q, responses |-> r, timeouts |-> t] :
        t \in RandomNumber(0, USub(a + q, r)) } :
        r \in RandomNumber(0, a + q + 1) } :
        q \in RandomNumber(1, 10) } :
        a \in RandomNumber(1, 10) }

(* random_dns_metrics, the counters: A and AAAA requests, then responses  *)
(* below their sum, then timeouts below what the responses left.          *)
DnsCounts ==
  UNION { UNION { UNION {
    { [requests_a |-> a, requests_aaaa |-> q, responses |-> r, timeouts |-> t] :
        t \in RandomNumber(0, USub(a + q, r)) } :
        r \in RandomNumber(0, a + q) } :
        q \in RandomNumber(1, 10) } :
        a \in RandomNumber(1, 10) }

(* random_dns_metrics, the times: the processing time, then a total time  *)
(* no shorter than it.                                                     *)
DnsTimes ==
  UNION { { [processing |-> p, total |-> t] : t \in RandomNumber(p, TimeHi) } :
            p \in RandomNumber(TimeLo, TimeHi) }

(* random_http_metrics draws its times the same way.                       *)
HttpTimes ==
  UNION { { [processing |-> p, total |-> t] : t \in RandomNumber(p, TimeHi) } :
            p \in RandomNumber(TimeLo, TimeHi) }

-----------------------------------------------------------------------------
(* The loop of generate_random_metrics over one flow: it writes a DNS    *)
(* metric, then an HTTP metric, and so on (the tcp and udp metrics, and  *)
(* the HTTP status-code counts, are independent draws with fixed bounds   *)
(* and are left out).                                                      *)

VARIABLE last  \* the last DNS or HTTP metric passed to write_metrics

(* random_dns_metrics: its counters and its times.                        *)
DnsMetrics == {[kind |-> "dns", counts |-> c, times |-> t] : c \in DnsCounts, t \in DnsTimes}

(* random_http_metrics: its times.                                         *)
HttpMetrics == {[kind |-> "http", times |-> t] : t \in HttpTimes}

(* The first metric written for the flow is a DNS metric (after the tcp   *)
(* and udp ones).                                                          *)
MInit == last \in DnsMetrics

WriteHttp ==
  /\ last.kind = "dns"
  /\ last' \in HttpMetrics

(* The next flow, or the next tick: a DNS metric again.                    *)
WriteDns ==
  /\ last.kind = "http"
  /\ last' \in DnsMetrics

MNext == WriteDns \/ WriteHttp

MSpec == MInit /\ [][MNext]_last

-----------------------------------------------------------------------------
(* Properties of the draws.                                                *)

(* Every DNS metric random_dns_metrics can produce is drawn without a    *)
(* failed random_number precondition, and its responses and timeouts     *)
(* together never exceed its requests: the chained bounds leave the       *)
(* timeout draw a non-empty range.                                        *)
DnsCountsConsistent ==
  \A m \in DnsCounts :
    /\ m.timeouts # Fault
    /\ m.responses <= m.requests_a + m.requests_aaaa
    /\ m.responses + m.timeouts <= m.requests_a + m.requests_aaaa

(* Every DNS and HTTP metric is drawn without a failed precondition, and  *)
(* its total time is at least its processing time.                        *)
DurationsConsistent ==
  \A m \in DnsTimes \cup HttpTimes :
    /\ m.total # Fault
    /\ m.processing <= m.total

(* Every metric the generator writes was drawn without a failed          *)
(* random_number precondition and is internally consistent: a DNS metric's *)
(* responses and timeouts together stay within its requests, and a DNS or  *)
(* HTTP metric's total time is at least its processing time.              *)
MetricsConsistent ==
  /\ last.kind = "dns" =>
       /\ last.counts.timeouts # Fault
       /\ last.counts.responses + last.counts.timeouts
            <= last.counts.requests_a + last.counts.requests_aaaa
  /\ last.times.total # Fault
  /\ last.times.processing <= last.times.total

=============================================================================
