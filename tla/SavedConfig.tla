---------------------------- MODULE SavedConfig ----------------------------
(***************************************************************************)
(* What saving the configuration promises, whatever queue and events do    *)
(* it: a change of the PIN or the name stays owed to flash until a save    *)
(* begins after it; a save is one erase and one program of what is in use  *)
(* at that moment, and begins only when the one before has ended; a        *)
(* restart finds what the page holds, puts right what it does not accept   *)
(* and then saves it.  The page may be programmed a second time before the *)
(* save ends: what changed since the first is then the mixture of both.    *)
(***************************************************************************)
CONSTANTS Values, OutOfRange, Default, Torn, Blank

Fields == {"pin", "name", "key"}
Configs == [Fields -> Values \cup OutOfRange \cup {Default, Torn}]
Defaults == [f \in Fields |-> Default]

VARIABLES
  memory,  \* the configuration in use, Blank while there is none
  page,    \* what flash holds of it
  owed,    \* the PIN or the name may differ and no save has begun since
  due      \* what is to come of the save: "erase", "program", "again" or
           \* "nothing"

vars == <<memory, page, owed, due>>

Running == memory # Blank

Init ==
  /\ memory = Blank
  /\ page = Blank
  /\ owed = FALSE
  /\ due = "nothing"

Crash ==
  /\ memory' = Blank
  /\ owed' = FALSE
  /\ due' = "nothing"
  /\ page' = page

Accepted(key) ==
  IF key \in OutOfRange THEN {Default}
  ELSE IF key = Torn THEN {Torn, Default} ELSE {key}

Loaded ==
  IF page = Blank THEN {Defaults}
  ELSE {[page EXCEPT !["key"] = k] : k \in Accepted(page["key"])}

Load ==
  /\ ~Running
  /\ memory' \in Loaded
  /\ due' = IF memory' = page THEN "nothing" ELSE "erase"
  /\ UNCHANGED <<page, owed>>

\* A request, or the buttons, write a field; a smart key is owed to nobody.
Write(f, v) ==
  /\ Running
  /\ memory' = [memory EXCEPT ![f] = v]
  /\ owed' = (owed \/ f # "key")
  /\ UNCHANGED <<page, due>>

Begin ==
  /\ Running /\ owed /\ due = "nothing"
  /\ owed' = FALSE
  /\ due' = "erase"
  /\ UNCHANGED <<memory, page>>

Erase ==
  /\ due = "erase"
  /\ page' = Blank
  /\ due' = "program"
  /\ UNCHANGED <<memory, owed>>

Program ==
  /\ due = "program"
  /\ page' = memory
  /\ due' \in {"nothing", "again"}
  /\ UNCHANGED <<memory, owed>>

\* The store just performed is performed once more, or is not.
Again ==
  /\ due = "again"
  /\ page' \in {page, [f \in Fields |-> IF page[f] = memory[f] THEN memory[f] ELSE Torn]}
  /\ due' = "nothing"
  /\ UNCHANGED <<memory, owed>>

Next ==
  \/ \E f \in Fields, v \in Values \cup OutOfRange \cup {Default, Torn} : Write(f, v)
  \/ Begin \/ Erase \/ Program \/ Again \/ Crash \/ Load

Spec == Init /\ [][Next]_vars

-----------------------------------------------------------------------------
\* With nothing owed and no save under way, a restart finds the PIN and the
\* name in use.
Agrees ==
  (Running /\ ~owed /\ due \in {"nothing", "again"}) =>
    /\ page # Blank
    /\ page["pin"] = memory["pin"]
    /\ page["name"] = memory["name"]
=============================================================================
