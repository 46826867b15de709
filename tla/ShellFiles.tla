------------------------------ MODULE ShellFiles ------------------------------
(***************************************************************************)
(* The text of a shell start-up file and the block that the system proxy   *)
(* keeps in it (system_proxy.go). A file is a sequence of lines; all that  *)
(* is told apart are the two markers, the exports of a port (one line      *)
(* stands for the eight), the guard `case $- in ... return ... esac` (one  *)
(* line stands for it), and lines of the user.                             *)
(***************************************************************************)
EXTENDS Naturals, Sequences, SequencesExt

Start == "# >>> mihomo-tui system proxy >>>"
End == "# <<< mihomo-tui system proxy <<<"
Guard == "case $- in"

(* buildSystemProxyBlock *)
Block(port) == <<Start, port, End>>

(* A block whose exports a shell runs, wherever it is in the file.          *)
HasBlock(text, port) ==
  \E i \in 1..(Len(text) - 2) : SubSeq(text, i, i + 2) = Block(port)

(* One line of the loop of stripSystemProxyBlock.                           *)
StripLine(acc, line) ==
  IF acc.in THEN [acc EXCEPT !.in = line # End]
  ELSE IF line = Start THEN [acc EXCEPT !.in = TRUE]
  ELSE [acc EXCEPT !.out = Append(@, line)]

Scan(text) ==
  LET after[n \in 0..Len(text)] ==  \* the first n lines
        IF n = 0 THEN [out |-> <<>>, in |-> FALSE]
        ELSE StripLine(after[n - 1], text[n])
  IN  after[Len(text)]

(* A start marker without its end: somebody edited the block.               *)
Broken(text) == Scan(text).in

Before(text, line) ==
  SubSeq(text, 1, SelectInSeq(text, LAMBDA l : l = line) - 1)

Strip_CutsTail(text) == IF Contains(text, Start) THEN Before(text, Start) ELSE text

(* stripSystemProxyBlock: a broken text is returned as it is.               *)
Strip(text) == IF Broken(text) THEN text ELSE Scan(text).out

(* What upsertBlockInFile keeps of the old text: in a broken one, what is   *)
(* above the first start marker.                                            *)
Base(text) == IF Broken(text) THEN Before(text, Start) ELSE Strip(text)

(* A non-interactive shell returns at the guard, so the block goes above it.*)
Insert(base, block) ==
  IF Contains(base, Guard)
  THEN LET head == Before(base, Guard)
       IN head \o block \o SubSeq(base, Len(head) + 1, Len(base))
  ELSE base \o block

Upsert_KeepsAnyBlock(text, port) ==
  IF Contains(text, Start) THEN text ELSE Insert(Base(text), Block(port))

(* upsertBlockInFile: nothing is written when the very block is there.      *)
Upsert(text, port) ==
  IF HasBlock(text, port) THEN text ELSE Insert(Base(text), Block(port))

(* The lines that are not part of a block.                                  *)
UserText(text) == Scan(text).out
=============================================================================
