------------------------------ MODULE Keysyms ------------------------------
(***************************************************************************)
(* keysymForHID and the table hidKeysyms of internal/vnc/keysym.go: the    *)
(* X11 key symbol of a USB HID usage, 0 for a key that has none.           *)
(***************************************************************************)
EXTENDS Integers

\* Keys whose symbols follow each other as their usages do: letters, digits
\* but the zero, F1 to F12, keypad digits but the zero.
Runs == {[first |-> \h04, last |-> \h1D, keysym |-> \h61],
         [first |-> \h1E, last |-> \h26, keysym |-> \h31],
         [first |-> \h3A, last |-> \h45, keysym |-> \hFFBE],
         [first |-> \h59, last |-> \h61, keysym |-> \hFFB1]}

\* Every other key of the table, a usage and its symbol: zero, Return to Tab,
\* punctuation, Caps Lock to Pause, Insert to Num Lock, the keypad, modifiers.
Table == {
    <<\h27, \h30>>,
    <<\h28, \hFF0D>>, <<\h29, \hFF1B>>, <<\h2A, \hFF08>>, <<\h2B, \hFF09>>,
    <<\h2C, \h20>>, <<\h2D, \h2D>>, <<\h2E, \h3D>>, <<\h2F, \h5B>>, <<\h30, \h5D>>,
    <<\h31, \h5C>>, <<\h32, \h23>>, <<\h33, \h3B>>, <<\h34, \h27>>, <<\h35, \h60>>,
    <<\h36, \h2C>>, <<\h37, \h2E>>, <<\h38, \h2F>>,
    <<\h39, \hFFE5>>, <<\h46, \hFF61>>, <<\h47, \hFF14>>, <<\h48, \hFF13>>,
    <<\h49, \hFF63>>, <<\h4A, \hFF50>>, <<\h4B, \hFF55>>, <<\h4C, \hFFFF>>,
    <<\h4D, \hFF57>>, <<\h4E, \hFF56>>, <<\h4F, \hFF53>>, <<\h50, \hFF51>>,
    <<\h51, \hFF54>>, <<\h52, \hFF52>>, <<\h53, \hFF7F>>,
    <<\h54, \hFFAF>>, <<\h55, \hFFAA>>, <<\h56, \hFFAD>>, <<\h57, \hFFAB>>,
    <<\h58, \hFF8D>>, <<\h62, \hFFB0>>, <<\h63, \hFFAE>>,
    <<\hE0, \hFFE3>>, <<\hE1, \hFFE1>>, <<\hE2, \hFFE9>>, <<\hE3, \hFFEB>>,
    <<\hE4, \hFFE4>>, <<\hE5, \hFFE2>>, <<\hE6, \hFFEA>>, <<\hE7, \hFFEC>>}

KeysymForHID(hid) ==
    LET run   == {r.keysym + hid - r.first : r \in {r \in Runs : hid \in r.first..r.last}}
        entry == {e[2] : e \in {e \in Table : e[1] = hid}}
    IN  IF run \cup entry = {} THEN 0 ELSE CHOOSE k \in run \cup entry : TRUE

HasKeysym(hid) == KeysymForHID(hid) # 0
=============================================================================
