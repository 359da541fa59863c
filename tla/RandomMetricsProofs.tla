------------------------- MODULE RandomMetricsProofs -------------------------
(***************************************************************************)
(* The metric draws of random.cc are well formed for every choice of the   *)
(* time bounds, not only for the scaled ones TLC enumerates.               *)
(***************************************************************************)
EXTENDS RandomMetrics, TLAPS

(* A draw with a non-empty range yields a value of the range.             *)
LEMMA DrawRange ==
  ASSUME NEW min \in Int, NEW max \in Int, max > min,
         NEW x \in RandomNumber(min, max)
  PROVE  x \in min .. (max - 1)
  BY DEF RandomNumber

(* DNS counters: the timeout draw always has a non-empty range, and what *)
(* the responses and timeouts count stays within the requests.            *)
THEOREM DnsCountsTheorem == DnsCountsConsistent
<1> SUFFICES ASSUME NEW m \in DnsCounts
             PROVE  /\ m.timeouts # Fault
                    /\ m.responses <= m.requests_a + m.requests_aaaa
                    /\ m.responses + m.timeouts <= m.requests_a + m.requests_aaaa
  BY DEF DnsCountsConsistent
<1>1. PICK a \in RandomNumber(1, 10) :
        \E q \in RandomNumber(1, 10) : \E r \in RandomNumber(0, a + q) :
          \E t \in RandomNumber(0, USub(a + q, r)) :
            m = [requests_a |-> a, requests_aaaa |-> q, responses |-> r, timeouts |-> t]
  BY DEF DnsCounts
<1>2. a \in 1 .. 9
  BY <1>1, DrawRange
<1>3. PICK q \in RandomNumber(1, 10) : \E r \in RandomNumber(0, a + q) :
          \E t \in RandomNumber(0, USub(a + q, r)) :
            m = [requests_a |-> a, requests_aaaa |-> q, responses |-> r, timeouts |-> t]
  BY <1>1
<1>4. q \in 1 .. 9
  BY <1>3, DrawRange
<1>5. PICK r \in RandomNumber(0, a + q) :
          \E t \in RandomNumber(0, USub(a + q, r)) :
            m = [requests_a |-> a, requests_aaaa |-> q, responses |-> r, timeouts |-> t]
  BY <1>3
<1>6. r \in 0 .. (a + q - 1)
  BY <1>2, <1>4, <1>5, DrawRange
<1>7. PICK t \in RandomNumber(0, USub(a + q, r)) :
            m = [requests_a |-> a, requests_aaaa |-> q, responses |-> r, timeouts |-> t]
  BY <1>5
<1>8. t \in 0 .. (a + q - r - 1)
  BY <1>2, <1>4, <1>6, <1>7, DrawRange DEF USub
<1>9. QED
  BY <1>2, <1>4, <1>6, <1>7, <1>8 DEF Fault

(* DNS and HTTP times: the total-time draw always has a non-empty range  *)
(* and the total is never below the processing time.                      *)
THEOREM DurationsTheorem == DurationsConsistent
<1> SUFFICES ASSUME NEW m \in DnsTimes \cup HttpTimes
             PROVE  m.total # Fault /\ m.processing <= m.total
  BY DEF DurationsConsistent
<1>1. PICK p \in RandomNumber(TimeLo, TimeHi) :
        \E t \in RandomNumber(p, TimeHi) : m = [processing |-> p, total |-> t]
  BY DEF DnsTimes, HttpTimes
<1>2. p \in TimeLo .. (TimeHi - 1)
  BY <1>1, DrawRange, TimeBoundsAssumption
<1>3. PICK t \in RandomNumber(p, TimeHi) : m = [processing |-> p, total |-> t]
  BY <1>1
<1>4. t \in p .. (TimeHi - 1)
  BY <1>2, <1>3, DrawRange, TimeBoundsAssumption
<1>5. QED
  BY <1>2, <1>3, <1>4, TimeBoundsAssumption DEF Fault
-----------------------------------------------------------------------------
(* Every metric the generator's loop writes comes from random_dns_metrics *)
(* or random_http_metrics.                                                 *)
MInv == last \in DnsMetrics \cup HttpMetrics

LEMMA MInvStep == MInv /\ [MNext]_last => MInv'
<1> SUFFICES ASSUME MInv, [MNext]_last PROVE MInv'
  OBVIOUS
<1>1. CASE WriteHttp
  BY <1>1 DEF WriteHttp, MInv
<1>2. CASE WriteDns
  BY <1>2 DEF WriteDns, MInv
<1>3. CASE UNCHANGED last
  BY <1>3 DEF MInv
<1>4. QED
  BY <1>1, <1>2, <1>3 DEF MNext

(* A metric drawn by random_dns_metrics or random_http_metrics is         *)
(* consistent: the two theorems above applied to its parts.               *)
LEMMA MInvConsistent == MInv => MetricsConsistent
<1> SUFFICES ASSUME MInv PROVE MetricsConsistent
  OBVIOUS
<1>1. CASE last \in DnsMetrics
  <2>1. PICK c \in DnsCounts, t \in DnsTimes :
          last = [kind |-> "dns", counts |-> c, times |-> t]
    BY <1>1 DEF DnsMetrics
  <2>2. c.timeouts # Fault /\ c.responses + c.timeouts <= c.requests_a + c.requests_aaaa
    BY <2>1, DnsCountsTheorem DEF DnsCountsConsistent
  <2>3. t.total # Fault /\ t.processing <= t.total
    BY <2>1, DurationsTheorem DEF DurationsConsistent
  <2>4. QED
    BY <2>1, <2>2, <2>3 DEF MetricsConsistent
<1>2. CASE last \in HttpMetrics
  <2>1. PICK t \in HttpTimes : last = [kind |-> "http", times |-> t]
    BY <1>2 DEF HttpMetrics
  <2>2. t.total # Fault /\ t.processing <= t.total
    BY <2>1, DurationsTheorem DEF DurationsConsistent
  <2>3. QED
    BY <2>1, <2>2 DEF MetricsConsistent
<1>3. QED
  BY <1>1, <1>2 DEF MInv

(* Every DNS and HTTP metric generate_random_metrics writes, in any run  *)
(* and for all time bounds, has responses and timeouts within its         *)
(* requests and a total time no shorter than its processing time.         *)
THEOREM MetricsInvariant == MSpec => []MetricsConsistent
<1>1. MInit => MInv
  BY DEF MInit, MInv
<1>2. MInv /\ [MNext]_last => MInv'
  BY MInvStep
<1>3. MInv => MetricsConsistent
  BY MInvConsistent
<1>4. QED
  BY <1>1, <1>2, <1>3, PTL DEF MSpec
=============================================================================
