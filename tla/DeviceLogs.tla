----------------------------- MODULE DeviceLogs ----------------------------
(***************************************************************************)
(* What the replicated journal promises: every device owns one growing     *)
(* log, and each device knows a prefix of each log, all of its own.  The   *)
(* version vector of a replica is the length of the prefixes it knows.     *)
(***************************************************************************)
EXTENDS Naturals, Sequences

CONSTANT Device

VARIABLES
  log,     \* log[x]: the items device x has appended, in order
  known    \* known[d][x]: how many items of log[x] device d holds

logVars == <<log, known>>

LogInit ==
  /\ log = [x \in Device |-> << >>]
  /\ known = [d \in Device |-> [x \in Device |-> 0]]

\* A device appends one item, whatever it is, to its own log.
AppendOwn(d) ==
  /\ log'[d] # << >>
  /\ log' = [log EXCEPT ![d] = Append(@, log'[d][Len(log'[d])])]
  /\ known' = [known EXCEPT ![d][d] = @ + 1]

\* A device learns the next item of another device's log.
Learn(d, x) ==
  /\ known[d][x] < Len(log[x])
  /\ known' = [known EXCEPT ![d][x] = @ + 1]
  /\ UNCHANGED log

LogNext == \E d \in Device : AppendOwn(d) \/ \E x \in Device : Learn(d, x)

LogSpec == LogInit /\ [][LogNext]_logVars
=============================================================================
