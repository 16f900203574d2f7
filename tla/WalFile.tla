------------------------------- MODULE WalFile -------------------------------
(***************************************************************************)
(* The WAL file of src/recovery.cpp, in pieces.  A piece is a whole line   *)
(* ("full"), or what a crash left of the last one: at most the checksum    *)
(* ("short"), the checksum and a part of the document ("long"), or         *)
(* everything but the newline ("whole").  A piece written after such a     *)
(* rest continues its line.  WalBytes says what the pieces are in bytes.   *)
(***************************************************************************)
EXTENDS Selection, SequencesExt

Torn == {"short", "long", "whole"}
Lines(records) == [i \in DOMAIN records |-> [form |-> "full", record |-> records[i]]]

LineStart(f, i) == i = 1 \/ f[i - 1].form = "full"
LineAlone(f, i) == f[i].form = "full" \/ i = Len(f)

\* A line shorter than nine characters, or without the blank at its place
\* because a short rest shifted it, is passed over.
Passed(f, i) == LineStart(f, i) /\ f[i].form = "short"
Valid(f, i) == LineStart(f, i) /\ LineAlone(f, i) /\ f[i].form \in {"full", "whole"}
Corrupt(f, i) == LineStart(f, i) /\ ~Passed(f, i) /\ ~Valid(f, i)

Records(f) == [i \in DOMAIN f |-> f[i].record]

\* replay_commands(): the records up to the first line that fails its checksum.
ReplayCommands(f) ==
    Kept(Records(f), {i \in DOMAIN f : Valid(f, i) /\ \A j \in 1..i : ~Corrupt(f, j)})
=============================================================================
