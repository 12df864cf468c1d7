-------------------------- MODULE SingletonRegistry --------------------------
(***************************************************************************)
(* What Container promises about services of lifetime "singleton": for     *)
(* each key one instance is chosen, at the first resolution, and every     *)
(* resolution gives that instance.                                         *)
(***************************************************************************)
CONSTANTS Keys, Values, Empty

VARIABLES
  inst,    \* the instance chosen for each key, or Empty
  handed   \* the instances callers and other services have received

vars == <<inst, handed>>

Init ==
  /\ inst = [k \in Keys |-> Empty]
  /\ handed = [k \in Keys |-> {}]

\* The first resolution chooses an instance and hands it out.
Choose(k) ==
  /\ inst[k] = Empty
  /\ inst'[k] \in Values
  /\ inst' = [inst EXCEPT ![k] = inst'[k]]
  /\ handed' = [handed EXCEPT ![k] = {inst'[k]}]

\* Later resolutions hand out the chosen instance.
HandOut(k) ==
  /\ inst[k] # Empty
  /\ handed' = [handed EXCEPT ![k] = @ \cup {inst[k]}]
  /\ inst' = inst

Next == \E k \in Keys : Choose(k) \/ HandOut(k)

Spec == Init /\ [][Next]_vars

\* Nobody ever receives anything but the chosen instance.
OneInstance == \A k \in Keys : handed[k] \subseteq {inst[k]} \ {Empty}
=============================================================================
