----------------------------- MODULE JsonlLines -----------------------------
(***************************************************************************)
(* A JSONL file as JsonlAppender writes and reads it: a sequence of lines, *)
(* each the pieces that were written to it and whether its newline was.    *)
(* A piece is a whole record, Cut (the front part of a record whose write  *)
(* was interrupted) or SplitChar (such a part, cut inside a multi-byte     *)
(* character: records are written as UTF-8 with ensure_ascii off).         *)
(***************************************************************************)
EXTENDS Integers, Sequences, FiniteSets

CONSTANTS Cut, SplitChar

\* What the write of record r leaves when it is interrupted.
Torn(r) == {Cut, SplitChar, r}

\* A wrong form: the file is opened in write mode, which truncates it.
Appended_Truncating(file, piece, ended) == <<[pieces |-> <<piece>>, ended |-> ended]>>

\* The file is opened in append mode and written where it ends, which is in the
\* last line if that line has no newline.
Appended(file, piece, ended) ==
  LET n == Len(file)
  IN IF n > 0 /\ ~file[n].ended
     THEN [file EXCEPT ![n] = [pieces |-> Append(@.pieces, piece), ended |-> ended]]
     ELSE Append(file, [pieces |-> <<piece>>, ended |-> ended])

\* A line is valid JSON when it is one record and nothing else.
Parses(line) == Len(line.pieces) = 1 /\ line.pieces[1] \notin {Cut, SplitChar}

Decodes(file) ==
  \A n \in DOMAIN file : \A m \in DOMAIN file[n].pieces : file[n].pieces[m] # SplitChar

\* No record was cut inside a character, and nothing was appended to a torn one.
Intact(file) == Decodes(file) /\ \A n \in DOMAIN file : Len(file[n].pieces) = 1

\* read_all returns: the text decodes and only a final line may be malformed.
Readable(file) == Decodes(file) /\ \A n \in 1 .. Len(file) - 1 : Parses(file[n])

\* What it returns then: a malformed final line is skipped.
ReadAll(file) ==
  LET n == IF file = <<>> \/ Parses(file[Len(file)]) THEN Len(file) ELSE Len(file) - 1
  IN [k \in 1 .. n |-> file[k].pieces[1]]
=============================================================================
