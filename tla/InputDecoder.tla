---------------------------- MODULE InputDecoder ----------------------------
(***************************************************************************)
(* What inputDecoder of internal/display/input.go makes of the terminal's  *)
(* reports.  A report is complete, not a change: it names every key that   *)
(* is down, or the pointer with all its buttons; the decoder compares it   *)
(* with the one before.  A key is known by its USB HID usage.              *)
(***************************************************************************)
EXTENDS Integers, Sequences, FiniteSets

\* modifierHID: the modifier keys, in the order of their bits.
ModifierHIDs == \hE0..\hE7

NoKeys == [keys |-> {}, modifiers |-> {}]

\* At most six ordinary keys fit in a report.
Reports(keys, modifiers) ==
    {r \in [keys : SUBSET keys, modifiers : SUBSET modifiers] : Cardinality(r.keys) <= 6}

Down(report) == report.keys \cup report.modifiers

KeyInput(hid, pressed, modifiers) ==
    [hid |-> hid, pressed |-> pressed, modifiers |-> modifiers]

\* The loops over the table of keys: from the lowest usage to the highest.
Ascending(hids) ==
    CHOOSE s \in [1..Cardinality(hids) -> hids] : \A i, j \in DOMAIN s : i < j => s[i] < s[j]

\* The events of a set of keys in the order of their numbers.
KeyEvents(hids, pressed, modifiers) ==
    [i \in 1..Cardinality(hids) |-> KeyInput(Ascending(hids)[i], pressed, modifiers)]

\* Presses before releases, keys before modifiers.
KeyboardPressesFirst(old, new) ==
    KeyEvents(new.keys \ old.keys, TRUE, new.modifiers)
        \o KeyEvents(new.modifiers \ old.modifiers, TRUE, new.modifiers)
        \o KeyEvents(old.keys \ new.keys, FALSE, new.modifiers)
        \o KeyEvents(old.modifiers \ new.modifiers, FALSE, new.modifiers)

\* inputDecoder.keyboard: ordinary keys are released before modifiers and
\* pressed after them.
Keyboard(old, new) ==
    KeyEvents(old.keys \ new.keys, FALSE, new.modifiers)
        \o KeyEvents(old.modifiers \ new.modifiers, FALSE, new.modifiers)
        \o KeyEvents(new.modifiers \ old.modifiers, TRUE, new.modifiers)
        \o KeyEvents(new.keys \ old.keys, TRUE, new.modifiers)
=============================================================================
