--------------------------- MODULE MCFramePipeline ---------------------------
(***************************************************************************)
(* Instances of FramePipeline for TLC: rows of one or two cells, and a     *)
(* queue limit of one or three instead of 127 updates.                     *)
(***************************************************************************)
EXTENDS FramePipeline

\* A plain session with two colours, and any other with one.
MCPalette == [plain \in BOOLEAN |-> IF plain THEN {"red", "blue"} ELSE {"red"}]

\* Two colours and copies.
MCCopied == [plain \in {FALSE} |-> {"red", "blue"}]

=============================================================================
