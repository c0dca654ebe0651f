-------------------------- MODULE SnapshotRegister --------------------------
(***************************************************************************)
(* What the host may rely on when it hands snapshots to the device worker: *)
(* a register that is written on one side and shown on the other.  The     *)
(* display skips snapshots and repeats them, but never goes back and never *)
(* makes one up; it forgets everything when it restarts, and it says that  *)
(* it is connected only to a host that has given it something to show.     *)
(***************************************************************************)
EXTENDS Integers

CONSTANT Sample   \* what the display shows on a command's behalf

VARIABLES
  given,   \* snapshots written so far; each is its number
  shows,   \* on the display: a snapshot, Sample, or 0 for nothing
  newest,  \* the newest snapshot shown since the last restart, 0 for none
  link     \* the state of the connection, as displayed

registerVars == <<given, shows, newest, link>>

Init ==
  /\ given = 0
  /\ shows = 0
  /\ newest = 0
  /\ link = "connecting"

Give ==
  /\ given' = given + 1
  /\ UNCHANGED <<shows, newest, link>>

Show(n) ==
  /\ n > 0
  /\ shows' = n
  /\ newest' = n
  /\ link' = "connected"
  /\ UNCHANGED given

ShowSample ==
  /\ shows' = Sample
  /\ link' = "connected"
  /\ UNCHANGED <<given, newest>>

HearOf ==
  /\ shows # 0
  /\ link' = "connected"
  /\ UNCHANGED <<given, shows, newest>>

Silence ==
  /\ link = "connected"
  /\ link' = "disconnected"
  /\ UNCHANGED <<given, shows, newest>>

Restart ==
  /\ shows' = 0
  /\ newest' = 0
  /\ link' = "connecting"
  /\ UNCHANGED given

Next ==
  \/ Give
  \/ \E n \in newest..given : Show(n)
  \/ ShowSample \/ HearOf \/ Silence \/ Restart

Spec == Init /\ [][Next]_registerVars
=============================================================================
