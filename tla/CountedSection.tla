---------------------------- MODULE CountedSection ----------------------------
(***************************************************************************)
(* signTransactionCountedSection.c: the stack of running counted sections. *)
(* count[i] is the number of bytes section i still expects; entries above  *)
(* the current level keep whatever an earlier section left there.          *)
(***************************************************************************)
EXTENDS Integers

CONSTANT MAX_NESTED      \* MAX_NESTED_COUNTED_SECTIONS: 5 in the code
ASSUME NestedAssumption == MAX_NESTED \in Nat \ {0}

Levels == 1..MAX_NESTED

\* tx_counted_section_t
CountedSections == [currentLevel : 0..MAX_NESTED, count : [Levels -> Nat]]

CsInit == [currentLevel |-> 0, count |-> [i \in Levels |-> 0]]

\* countedSectionBegin: refused at the deepest level.
CanBeginTooDeep(cs) == cs.currentLevel <= MAX_NESTED     \* mutant: off by one
CsCanBegin(cs) == cs.currentLevel < MAX_NESTED
CsBegin(cs, expected) ==
  [currentLevel |-> cs.currentLevel + 1,
   count |-> [cs.count EXCEPT ![cs.currentLevel + 1] = expected]]

\* countedSectionProcess: refused when some running section expects fewer
\* than n bytes; the sections outside the first such one have lost n by then.
CsCanProcess(cs, n) == \A i \in 1..cs.currentLevel : cs.count[i] >= n
CsProcess(cs, n) ==
  [cs EXCEPT !.count = [i \in Levels |->
     IF i <= cs.currentLevel /\ \A j \in 1..i : cs.count[j] >= n
     THEN cs.count[i] - n ELSE cs.count[i]]]

\* countedSectionEnd: only a section whose bytes have all arrived.
CanEndEarly(cs) == cs.currentLevel # 0   \* mutant: bytes may be missing
CsCanEnd(cs) == cs.currentLevel # 0 /\ cs.count[cs.currentLevel] = 0
CsEnd(cs) == [cs EXCEPT !.currentLevel = @ - 1]

\* countedSectionFinalize
CsFinal(cs) == cs.currentLevel = 0
=============================================================================
