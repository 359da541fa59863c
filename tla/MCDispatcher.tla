---------------------------- MODULE MCDispatcher ----------------------------
(* Recordings for the dispatcher: three original addresses, two possible  *)
(* rand() replacements and two possible stack contents.                   *)
EXTENDS Dispatcher

CONSTANTS a1, a2, a3, x1, x2, g1, g2, wrong, z  \* z: a recorded plain value

MCIps == {a1, a2, a3}

MCRepl == {x1, x2}

MCGarbage == {g1, g2}

(* set_state_ipv4 maps two addresses; a NAT remapping maps a third and    *)
(* then fails on its destination's type; pid_info's comm fills comm[16];  *)
(* an unknown message; a NAT remapping whose addresses are all mapped.    *)
MCRecAnon ==
  << [name |-> "set_state_ipv4",
      data |-> [dest |-> a1, src |-> a2, dport |-> z, sport |-> z, sk |-> z, tx_rx |-> z]],
     [name |-> "nat_remapping",
      data |-> [sk |-> z, src |-> a3, dst |-> wrong, sport |-> z, dport |-> z]],
     [name |-> "pid_info", data |-> [pid |-> z, comm |-> 12]],
     [name |-> "bogus_event", data |-> [pid |-> z]],
     [name |-> "nat_remapping",
      data |-> [sk |-> z, src |-> a3, dst |-> a1, sport |-> z, dport |-> z]] >>

(* The same recording with a process name of three characters.            *)
MCRecShortComm ==
  [MCRecAnon EXCEPT ![3] = [name |-> "pid_info", data |-> [pid |-> z, comm |-> 3]]]

=============================================================================
