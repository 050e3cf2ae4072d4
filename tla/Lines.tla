------------------------------- MODULE Lines --------------------------------
(***************************************************************************)
(* How linePrinterStream.Write (vm/container.go) cuts what a container     *)
(* writes into lines: the scanner's lines of a text, and the number of     *)
(* bytes the loop takes them to stand for.  A byte is "x", CR or NL.       *)
(***************************************************************************)
EXTENDS Integers, Sequences

CR == "CR"
NL == "NL"
Byte == {"x", CR, NL}

NoText == [lines |-> <<>>, rest |-> <<>>]

(* One more byte of a text that is cut into lines and an unfinished rest. *)
Feed(text, b) ==
  IF b = NL THEN [lines |-> Append(text.lines, text.rest), rest |-> <<>>]
            ELSE [lines |-> text.lines, rest |-> Append(text.rest, b)]

(* The terminated lines of a text, and what follows the last of them. *)
Split(bytes) ==
  LET upTo[n \in 0..Len(bytes)] == IF n = 0 THEN NoText ELSE Feed(upTo[n - 1], bytes[n])
  IN upTo[Len(bytes)]

DropCR(l) == IF l # <<>> /\ l[Len(l)] = CR THEN SubSeq(l, 1, Len(l) - 1) ELSE l

(* bufio.ScanLines at EOF: the last line need not be terminated. *)
Scan(bytes) ==
  LET s == Split(bytes)
      all == IF s.rest = <<>> THEN s.lines ELSE Append(s.lines, s.rest)
  IN [i \in DOMAIN all |-> DropCR(all[i])]

(* A slip: the newline of a line is not counted. *)
ConsumedShort(lines) ==
  LET upTo[n \in 0..Len(lines)] == IF n = 0 THEN 0 ELSE upTo[n - 1] + Len(lines[n])
  IN upTo[Len(lines)]

(* len(line) + 1 for each, "include '\n'". *)
Consumed(lines) ==
  LET upTo[n \in 0..Len(lines)] == IF n = 0 THEN 0 ELSE upTo[n - 1] + Len(lines[n]) + 1
  IN upTo[Len(lines)]
=============================================================================
