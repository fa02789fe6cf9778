------------------------------- MODULE TxFraming -------------------------------
(***************************************************************************)
(* What transaction signing promises about the framing of the transaction, *)
(* without byte counters: sections ( ... ) and encrypted parts [ ... ] nest *)
(* properly, a section opened with declared length d never holds more than *)
(* d bytes and holds exactly d when it is closed, and nothing is signed    *)
(* while anything is open.                                                 *)
(*                                                                         *)
(* Bytes are counted in the stream the section belongs to: the plain text  *)
(* of the encrypted part it was opened in, or the transaction itself, in   *)
(* which an encrypted part counts with its cipher text.                    *)
(***************************************************************************)
EXTENDS Integers

CONSTANT MaxLevel     \* deepest nesting of sections

VARIABLES tx,         \* framing of the transaction under construction
          signed      \* whether the last thing that happened is a signature

vars == <<tx, signed>>

NoSections(x) == [k \in 1..MaxLevel |-> x]

Fresh == [out |-> 0, plain |-> 0, enc |-> FALSE, level |-> 0,
          start |-> NoSections(0), declared |-> NoSections(0),
          inEnc |-> NoSections(FALSE)]

\* Bytes so far in the stream the innermost open thing is counted in.
Position(t) == IF t.enc THEN t.plain ELSE t.out

NoneOverfull(t) ==
  \A k \in 1..t.level :
    t.inEnc[k] = t.enc => Position(t) - t.start[k] <= t.declared[k]

\* Whatever a command adds: plain text while an encrypted part is open, and
\* transaction bytes; cipher text may surface later than its plain text.
MayGrow == /\ tx'.out >= tx.out
           /\ tx'.plain >= tx.plain
           /\ tx.enc \/ tx'.plain = tx.plain
Grown == [tx EXCEPT !.plain = tx'.plain, !.out = tx'.out]

Add ==
  /\ MayGrow
  /\ tx' = Grown
  /\ NoneOverfull(tx')
  /\ signed' = FALSE

OpenSection ==
  LET k == tx.level + 1
  IN  /\ k <= MaxLevel
      /\ MayGrow
      /\ tx' = [Grown EXCEPT !.level = k, !.start[k] = Position(Grown),
                             !.declared[k] = tx'.declared[k], !.inEnc[k] = tx.enc]
      /\ NoneOverfull(tx')
      /\ signed' = FALSE

CloseSection ==
  LET k == tx.level
  IN  /\ k > 0
      /\ tx.inEnc[k] = tx.enc
      /\ Position(tx) - tx.start[k] = tx.declared[k]
      /\ tx' = [tx EXCEPT !.level = k - 1, !.start[k] = 0,
                          !.declared[k] = 0, !.inEnc[k] = FALSE]
      /\ signed' = FALSE

OpenEncrypted ==
  /\ ~tx.enc
  /\ tx'.out >= tx.out
  /\ tx' = [tx EXCEPT !.enc = TRUE, !.plain = 0, !.out = tx'.out]
  /\ signed' = FALSE

CloseEncrypted ==
  /\ tx.enc
  /\ \A k \in 1..tx.level : ~tx.inEnc[k]
  /\ tx'.out >= tx.out
  /\ tx' = [tx EXCEPT !.enc = FALSE, !.out = tx'.out]
  /\ NoneOverfull(tx')
  /\ signed' = FALSE

Sign ==
  /\ tx.level = 0
  /\ ~tx.enc
  /\ tx' = Fresh
  /\ signed' = TRUE

\* The session is given up, by the user, by an error or by a crash.
Abandon ==
  /\ tx' = Fresh
  /\ signed' = FALSE

Init == tx = Fresh /\ signed = FALSE

Next ==
  \/ Add
  \/ OpenSection
  \/ CloseSection
  \/ OpenEncrypted
  \/ CloseEncrypted
  \/ Sign
  \/ Abandon

Spec == Init /\ [][Next]_vars
=============================================================================
