--------------------------- MODULE BuildContract ---------------------------
(***************************************************************************)
(* What the package infrastructure promises a package, whatever the user   *)
(* asks for and wherever he interrupts it: when commands of the package    *)
(* run, the packages of its _DEPENDENCIES are in place, and they stay so   *)
(* until the package is left.  No steps, stamps, goals or directories.     *)
(***************************************************************************)
CONSTANTS Pkg, Deps

VARIABLES
  ready,  \* the packages whose files are all where they are installed
  busy    \* the packages make works on, their dependencies being settled

Needed == UNION {Deps[q] : q \in busy}

Init == busy = {}

Enter(p) ==
  /\ Deps[p] \subseteq ready
  /\ busy' = busy \cup {p}
  /\ UNCHANGED ready

\* Only what make works on comes or goes, and nothing a busy package needs goes.
Change(p) ==
  /\ p \in busy
  /\ ready' \in {ready \cup {p}} \cup (IF p \in Needed THEN {} ELSE {ready \ {p}})
  /\ busy' \in {busy, busy \ {p}}

\* The run ends; its files stay as they are.
Leave ==
  /\ busy' = {}
  /\ UNCHANGED ready

Next == (\E p \in Pkg : Enter(p) \/ Change(p)) \/ Leave

Spec == Init /\ [][Next]_<<ready, busy>>
=============================================================================
