------------------------------ MODULE StatsLog ------------------------------
(***************************************************************************)
(* What the stats writer promises of its file: a log to which the records  *)
(* are added in the order they are made.  A write that failed or was cut   *)
(* off may repeat records, and when the list has been full some are left   *)
(* out; nothing else is ever lost, repeated or out of order.  stop() that  *)
(* comes back well has what was made before it in the log, and nothing new *)
(* is written afterwards.                                                  *)
(***************************************************************************)
EXTENDS Naturals, SequencesExt

VARIABLES made, file,
          stop, early,   \* whether stop() was called, and what had been made then
          full, broken   \* the list was full; a write failed or was cut off

Init ==
  made = 0 /\ file = <<>> /\ stop = "no" /\ early = 0 /\ full = FALSE /\ broken = FALSE

Record == made' = made + 1 /\ UNCHANGED <<file, stop, early, full, broken>>

Write ==
  \E r \in 1..made :
    /\ file' = Append(file, r)
    /\ ~broken => stop # "done" /\ \A i \in DOMAIN file : file[i] < r
    /\ ~full => 1..(r - 1) \subseteq ToSet(file) /\ (stop = "done" => r \in ToSet(file))
    /\ UNCHANGED <<made, stop, early, full, broken>>

Overflow == full' = TRUE /\ UNCHANGED <<made, file, stop, early, broken>>

Disturb == broken' = TRUE /\ UNCHANGED <<made, file, stop, early, full>>

Stop ==
  /\ stop = "no"
  /\ stop' = "called" /\ early' = made
  /\ UNCHANGED <<made, file, full, broken>>

Stopped ==
  /\ stop = "called"
  /\ \/ stop' = "done" /\ (full \/ 1..early \subseteq ToSet(file)) /\ UNCHANGED broken
     \/ stop' = "failed" /\ broken' = TRUE
  /\ UNCHANGED <<made, file, early, full>>

Next == Record \/ Write \/ Overflow \/ Disturb \/ Stop \/ Stopped

Spec == Init /\ [][Next]_<<made, file, stop, early, full, broken>>
=============================================================================
