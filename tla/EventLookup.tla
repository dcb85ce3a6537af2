----------------------------- MODULE EventLookup -----------------------------
(***************************************************************************)
(* What a caller may count on when it looks events up by name: the first       *)
(* definite answer about a name is the answer for the rest of the program.      *)
(* EventResolver.tla implements this with a map that also caches failures.     *)
(***************************************************************************)
CONSTANT Names

VARIABLES known,    \* known[n] : "unknown", or the answer settled for n
          reply     \* the last reply given, or NoReply

lvars == <<known, reply>>

Replies == [name : Names, answer : {"yes", "no", "error"}]
NoReply == [name |-> "nobody", answer |-> "none"]

LInit ==
  /\ known \in [Names -> {"unknown"}]
  /\ reply = NoReply

\* Some names are settled before anyone asks.
Preset(n, a) ==
  /\ known[n] = "unknown" /\ reply = NoReply
  /\ known' = [known EXCEPT ![n] = a]
  /\ UNCHANGED reply

\* A question settles its name, unless it ends in an error; a settled name is
\* answered from memory.
Ask(n, a) ==
  /\ known[n] \in {"unknown", a}
  /\ known' = [known EXCEPT ![n] = a]
  /\ reply' = [name |-> n, answer |-> a]

Fail(n) ==
  /\ known[n] = "unknown"
  /\ reply' = [name |-> n, answer |-> "error"]
  /\ UNCHANGED known

LNext ==
  \E n \in Names :
    \/ \E a \in {"yes", "no"} : Preset(n, a) \/ Ask(n, a)
    \/ Fail(n)

LSpec == LInit /\ [][LNext]_lvars
=============================================================================
