------------------------- MODULE SignTxRelease_proofs -------------------------
(***************************************************************************)
(* What leaves the device and when, for every list of allowed chains, and  *)
(* what register checks guarantee.                                         *)
(***************************************************************************)
EXTENDS SignTx_proofs, SequenceTheorems, FiniteSetTheorems

-----------------------------------------------------------------------------
(* The chain of commands.                                                  *)

Steps == UNION {{b[i] : i \in DOMAIN b} : b \in Allowed}

\* A chain hash is a sequence.
LEMMA HashesAreSequences ==
  ASSUME NEW h \in Hashes
  PROVE  \E T : h \in Seq(T)
  <1>1. CASE h \in Prefixes
    <2>1. PICK a \in Allowed : h \in {SubSeq(a, 1, k) : k \in 0..Len(a)}
      BY <1>1 DEF Prefixes
    <2>2. PICK k \in 0..Len(a) : h = SubSeq(a, 1, k)
      BY <2>1
    <2>3. a \in Seq(Steps)
      BY ListAssumption DEF Steps
    <2>4. SubSeq(a, 1, k) \in Seq(Steps)
      BY <2>3, SubSeqProperties
    <2>5. QED  BY <2>2, <2>4
  <1>2. CASE h = <<>>
    BY <1>2, EmptySeq
  <1>3. CASE h = OffList
    <2>1. OffList \in Seq({<<"NOT LISTED", 0, 0>>})
      BY DEF OffList
    <2>2. QED  BY <1>3, <2>1
  <1>4. QED  BY <1>1, <1>2, <1>3 DEF Hashes

\* A listed chain that a received command leads to ends with that command.
LEMMA ChainEnds ==
  ASSUME NEW h \in Hashes, NEW p1 \in Commands, NEW p2, NEW const,
         ChainAfter(h, p1, p2, const) \in Allowed
  PROVE  LET c == ChainAfter(h, p1, p2, const) IN c[Len(c)][1] = p1
  <1> DEFINE x == <<p1, p2, const>>
             chain == Append(h, x)
  <1>1. PICK T : h \in Seq(T)
    BY HashesAreSequences
  <1>2. h \in Seq(T \cup {x})
    BY <1>1
  <1>3. chain[Len(chain)] = x
    BY <1>2
  <1>4. x[1] = p1
    OBVIOUS
  <1>5. ChainAfter(h, p1, p2, const) # OffList
    BY ListAssumption
  <1>6. ChainAfter(h, p1, p2, const) = chain
    BY <1>5 DEF ChainAfter
  <1>7. QED  BY <1>3, <1>4, <1>6

-----------------------------------------------------------------------------
(* Release.                                                                *)

Releasing == {"DH_END", "FINISH"}

\* A context in which the answer to p1 may leave.
Ripe(c, p1) ==
  /\ c.integrity \in Allowed
  /\ c.integrity[Len(c.integrity)][1] = p1
  /\ ~c.dhIsActive
  /\ p1 = "FINISH" => c.cs.currentLevel = 0

\* ReleaseJustified holds from the moment the question is asked, not only when
\* the answer is out; and the screens that only show something belong to
\* commands that release nothing.
ReleaseInv ==
  /\ ui # "none" => reply.status = "pending"
  /\ ui = "dhConfirm" => reply.to = "DH_END"
  /\ ui \in {"finishDetails", "finishConfirm"} => reply.to = "FINISH"
  /\ ui \in {"details", "dhStart"} => reply.to \notin Releasing
  /\ IntegrityCheck /\ reply.status \in {"success", "pending"} /\ reply.to \in Releasing
       => Ripe(ctx, reply.to)

\* A command that releases nothing keeps the invariant, whatever its result.
LEMMA HarmlessKeeps ==
  ASSUME ReleaseInv, NEW p1 \in Commands \ Releasing, NEW r,
         NEW screen \in {"none", "details", "dhStart"}, Execute(p1, r, screen)
  PROVE  ReleaseInv'
  <1>1. reply'.to = p1
    BY DEF Execute
  <1>2. ui' \in {"none", "details", "dhStart"} /\ (ui' # "none" => reply'.status = "pending")
    BY DEF Execute
  <1>3. QED  BY <1>1, <1>2 DEF ReleaseInv, Releasing

\* So do the two that release something, if their handlers leave a ripe context:
\* DH_END asks at once, FINISH after showing the key.
LEMMA AskedKeeps ==
  ASSUME ReleaseInv, NEW r, IntegrityCheck /\ r.status = "ok" => Ripe(r.c, "DH_END")
  PROVE  Execute("DH_END", r, "dhConfirm") => ReleaseInv'
  <1> SUFFICES ASSUME Execute("DH_END", r, "dhConfirm") PROVE ReleaseInv'
    OBVIOUS
  <1>1. CASE r.status = "ok"
    BY <1>1 DEF Execute, ReleaseInv, Releasing, Ripe
  <1>2. CASE r.status # "ok"
    BY <1>2 DEF Execute, ReleaseInv, Releasing
  <1>3. QED  BY <1>1, <1>2

\* The same for FINISH.
LEMMA ShownKeeps ==
  ASSUME ReleaseInv, NEW r, IntegrityCheck /\ r.status = "ok" => Ripe(r.c, "FINISH")
  PROVE  Execute("FINISH", r, "finishDetails") => ReleaseInv'
  <1> SUFFICES ASSUME Execute("FINISH", r, "finishDetails") PROVE ReleaseInv'
    OBVIOUS
  <1>1. CASE r.status = "ok"
    BY <1>1 DEF Execute, ReleaseInv, Releasing, Ripe
  <1>2. CASE r.status # "ok"
    BY <1>2 DEF Execute, ReleaseInv, Releasing
  <1>3. QED  BY <1>1, <1>2

\* Receiving a command that leads to a listed chain.
LEMMA ReceivedRipe ==
  ASSUME TypeOK, NEW p1 \in Commands, NEW p2, NEW const,
         Received(p1, p2, const).integrity \in Allowed
  PROVE  LET c == Received(p1, p2, const) IN c.integrity[Len(c.integrity)][1] = p1
  <1>1. Ctx \in Contexts
    BY StartTypes
  <1>2. Received(p1, p2, const).integrity = ChainAfter(Ctx.integrity, p1, p2, const)
    BY <1>1 DEF Received, Contexts
  <1>3. Ctx.integrity \in Hashes
    BY <1>1 DEF Contexts
  <1>4. QED  BY <1>2, <1>3, ChainEnds

\* What DH_END checks makes the context ripe.
LEMMA EndDhRipe ==
  ASSUME IntegrityCheck, TypeOK, NEW c \in Contexts, NEW h,
         c.integrity \in Allowed => c.integrity[Len(c.integrity)][1] = "DH_END",
         EndDhResult(c, h).status = "ok"
  PROVE  Ripe(EndDhResult(c, h).c, "DH_END")
  <1> DEFINE w == FinalWritten(c.dh)
             d == (c.difference + w) % U16
             counted == [c EXCEPT !.cs = CsProcess(@, d), !.difference = d, !.responseLength = w]
  <1>1. EndDhResult(c, h).c = [counted EXCEPT !.dhIsActive = FALSE] /\ IntegrityOk(c.integrity)
    BY DEF EndDhResult, Ok, Error
  <1>2. c.integrity \in Allowed
    BY <1>1 DEF IntegrityOk
  <1>3. /\ EndDhResult(c, h).c.integrity = c.integrity
        /\ ~EndDhResult(c, h).c.dhIsActive
    BY <1>1 DEF Contexts
  <1>4. QED  BY <1>2, <1>3 DEF Ripe

\* FINISH changes nothing, so what it checks still holds.
LEMMA FinishRipe ==
  ASSUME IntegrityCheck, NEW c, NEW h,
         c.integrity \in Allowed => c.integrity[Len(c.integrity)][1] = "FINISH",
         FinishResult(c, h).status = "ok"
  PROVE  Ripe(FinishResult(c, h).c, "FINISH")
  BY DEF FinishResult, Ok, Error, Ripe, IntegrityOk, CsFinal

\* The commands of the host keep the invariant.
LEMMA CommandReleases ==
  ASSUME TypeOK, ReleaseInv, Command
  PROVE  ReleaseInv'
  <1>1. Hist \in Histories /\ \A p1, p2, const : Received(p1, p2, const) \in Contexts
    BY StartTypes, ReceivedTypes
  <1>2. \A p1 \in {"INIT", "APPEND_CONST_DATA", "SHOW_MESSAGE", "APPEND_DATA",
                  "START_COUNTED_SECTION", "END_COUNTED_SECTION", "STORE_VALUE",
                  "DH_START", "BAD_REQUEST"} : p1 \in Commands \ Releasing
    BY DEF Commands, Releasing
  <1>4. CASE HandleInit
    BY <1>2, <1>4, HarmlessKeeps DEF HandleInit
  <1>5. CASE \E n \in ConstLens : HandleAppendConstData(n)
    <2>1. PICK n \in ConstLens : HandleAppendConstData(n)
      BY <1>5
    <2>2. QED  BY <1>2, <2>1, HarmlessKeeps DEF HandleAppendConstData
  <1>6. CASE HandleShowMessage
    BY <1>2, <1>6, HarmlessKeeps DEF HandleShowMessage
  <1>7. CASE \E v \in Values, check \in Checks, policy \in Policies, blank \in BOOLEAN :
               HandleAppendData(v, check, policy, blank)
    <2>1. PICK v \in Values, check \in Checks, policy \in Policies, blank \in BOOLEAN :
               HandleAppendData(v, check, policy, blank)
      BY <1>7
    <2>2. QED  BY <1>2, <2>1, HarmlessKeeps DEF HandleAppendData
  <1>8. CASE \E s \in Sections : HandleStartCountedSection(s[1], s[2])
    <2>1. PICK s \in Sections : HandleStartCountedSection(s[1], s[2])
      BY <1>8
    <2>2. QED  BY <1>2, <2>1, HarmlessKeeps DEF HandleStartCountedSection
  <1>9. CASE HandleEndCountedSection
    BY <1>2, <1>9, HarmlessKeeps DEF HandleEndCountedSection
  <1>10. CASE \E r \in Registers, v \in Values : HandleStoreValue(r, v)
    <2>1. PICK r \in Registers, v \in Values : HandleStoreValue(r, v)
      BY <1>10
    <2>2. QED  BY <1>2, <2>1, HarmlessKeeps DEF HandleStoreValue
  <1>11. CASE HandleStartDHEncoding
    BY <1>2, <1>11, HarmlessKeeps DEF HandleStartDHEncoding
  <1>12. CASE BadRequest
    BY <1>2, <1>12, HarmlessKeeps DEF BadRequest
  <1>13. CASE HandleEndDHEncoding
    <2> DEFINE c == Received("DH_END", 0, 0)
               r == EndDhResult(c, Hist)
    <2>1. "DH_END" \in Commands
      BY DEF Commands
    <2>2. c.integrity \in Allowed => c.integrity[Len(c.integrity)][1] = "DH_END"
      BY <2>1, ReceivedRipe
    <2>3. IntegrityCheck /\ r.status = "ok" => Ripe(r.c, "DH_END")
      BY <1>1, <2>2, EndDhRipe
    <2>4. QED  BY <1>13, <2>3, AskedKeeps DEF HandleEndDHEncoding
  <1>14. CASE HandleFinish
    <2> DEFINE c == Received("FINISH", 0, 0)
               r == FinishResult(c, Hist)
    <2>1. "FINISH" \in Commands
      BY DEF Commands
    <2>2. c.integrity \in Allowed => c.integrity[Len(c.integrity)][1] = "FINISH"
      BY <2>1, ReceivedRipe
    <2>3. IntegrityCheck /\ r.status = "ok" => Ripe(r.c, "FINISH")
      BY <2>2, FinishRipe
    <2>4. QED  BY <1>14, <2>3, ShownKeeps DEF HandleFinish
  <1>15. QED
    BY <1>4, <1>5, <1>6, <1>7, <1>8, <1>9, <1>10, <1>11, <1>12, <1>13, <1>14 DEF Command

\* The user's steps change the answer, never the context it is about.
LEMMA UserReleases ==
  ASSUME TypeOK, ReleaseInv, User \/ Restart
  PROVE  ReleaseInv'
  <1>1. CASE UserReads
    BY <1>1 DEF UserReads, Respond, ReleaseInv, Releasing, Ripe, TypeOK, Replies
  <1>2. CASE UserConfirms
    BY <1>2 DEF UserConfirms, Respond, EndSession, ReleaseInv, Releasing, Ripe, TypeOK, Replies
  <1>3. CASE UserRejects
    BY <1>3 DEF UserRejects, EndSession, ReleaseInv, Releasing, TypeOK, Replies
  <1>4. CASE Restart
    BY <1>4 DEF Restart, ReleaseInv, Releasing
  <1>5. QED  BY <1>1, <1>2, <1>3, <1>4 DEF User

\* With types, it is inductive.
LEMMA ReleaseInvHolds == Spec => [](TypeOK /\ ReleaseInv)
  <1>1. Init => ReleaseInv
    BY DEF Init, ReleaseInv, Releasing
  <1>2. TypeOK /\ ReleaseInv /\ [Next]_vars => ReleaseInv'
    <2> SUFFICES ASSUME TypeOK, ReleaseInv, [Next]_vars PROVE ReleaseInv'
      OBVIOUS
    <2>1. CASE Next
      BY <2>1, CommandReleases, UserReleases DEF Next
    <2>2. CASE UNCHANGED vars
      BY <2>2 DEF vars, ReleaseInv, Ripe
    <2>3. QED  BY <2>1, <2>2
  <1>3. QED  BY <1>1, <1>2, TypeCorrect, PTL DEF Spec

\* A signature, and the end of an encrypted part, leave the device only for a
\* listed chain ending with the command answered, with nothing left open.
THEOREM Release_Justified == ASSUME IntegrityCheck PROVE Spec => []ReleaseJustified
  <1>1. TypeOK /\ ReleaseInv => ReleaseJustified
    BY IntegrityCheck DEF ReleaseInv, ReleaseJustified, Ripe, Releasing
  <1>2. QED  BY <1>1, ReleaseInvHolds, PTL

\* A command is answered with success at once only if it shows nothing.
LEMMA AnsweredAtOnce ==
  ASSUME NEW p1, NEW r, NEW screen, Execute(p1, r, screen), reply'.status = "success"
  PROVE  reply'.to = p1 /\ screen = "none"
  BY DEF Execute

\* So no command that releases something is answered by its own handler.
LEMMA NotAtOnce ==
  ASSUME Command, reply'.status = "success"
  PROVE  reply'.to \notin Releasing
  <1>1. CASE HandleInit
    BY <1>1, AnsweredAtOnce DEF HandleInit, Releasing
  <1>2. CASE \E n \in ConstLens : HandleAppendConstData(n)
    BY <1>2, AnsweredAtOnce DEF HandleAppendConstData, Releasing
  <1>3. CASE HandleShowMessage
    BY <1>3, AnsweredAtOnce DEF HandleShowMessage, Releasing
  <1>4. CASE \E v \in Values, check \in Checks, policy \in Policies, blank \in BOOLEAN :
               HandleAppendData(v, check, policy, blank)
    BY <1>4, AnsweredAtOnce DEF HandleAppendData, Releasing
  <1>5. CASE \E s \in Sections : HandleStartCountedSection(s[1], s[2])
    BY <1>5, AnsweredAtOnce DEF HandleStartCountedSection, Releasing
  <1>6. CASE HandleEndCountedSection
    BY <1>6, AnsweredAtOnce DEF HandleEndCountedSection, Releasing
  <1>7. CASE \E r \in Registers, v \in Values : HandleStoreValue(r, v)
    BY <1>7, AnsweredAtOnce DEF HandleStoreValue, Releasing
  <1>8. CASE HandleStartDHEncoding
    BY <1>8, AnsweredAtOnce DEF HandleStartDHEncoding, Releasing
  <1>9. CASE HandleEndDHEncoding
    BY <1>9, AnsweredAtOnce DEF HandleEndDHEncoding
  <1>10. CASE HandleFinish
    BY <1>10, AnsweredAtOnce DEF HandleFinish
  <1>11. CASE BadRequest
    BY <1>11, AnsweredAtOnce DEF BadRequest, Releasing
  <1>12. QED
    BY <1>1, <1>2, <1>3, <1>4, <1>5, <1>6, <1>7, <1>8, <1>9, <1>10, <1>11 DEF Command

\* In every build, they leave in the step in which the user confirms the prompt
\* that the command put up.
THEOREM Confirmation_Needed == Spec => ConfirmationNeeded
  <1> DEFINE Leaves == reply'.status = "success" /\ reply'.to \in Releasing /\ reply' # reply
  <1>1. TypeOK /\ ReleaseInv /\ [Next]_vars
          => [Leaves => UserConfirms /\ reply.to = reply'.to]_vars
    <2> SUFFICES ASSUME TypeOK, ReleaseInv, Next, Leaves
                 PROVE  UserConfirms /\ reply.to = reply'.to
      OBVIOUS
    <2>1. CASE Command
      BY <2>1, NotAtOnce
    <2>2. CASE UserReads
      BY <2>2 DEF UserReads, Respond, ReleaseInv, Releasing, TypeOK, Replies
    <2>3. CASE UserConfirms
      BY <2>3 DEF UserConfirms, Respond, EndSession, TypeOK, Replies
    <2>4. CASE UserRejects
      BY <2>4 DEF UserRejects, EndSession, TypeOK, Replies
    <2>5. CASE Restart
      BY <2>5 DEF Restart
    <2>6. QED  BY <2>1, <2>2, <2>3, <2>4, <2>5 DEF Next, User
  <1>2. QED  BY <1>1, ReleaseInvHolds, PTL DEF Spec, ConfirmationNeeded, Releasing

-----------------------------------------------------------------------------
(* Registers.                                                              *)

\* Exactly the stored value has passed the checks against a register.
Tied(c, h) == \A r \in Registers : h.tied[r] = {c.storage[r]}
TieInv == Live => Tied(ctx, hist)

\* Handlers that end well keep registers and checks tied.
KeepsTie(r) == r.status = "ok" => Tied(r.c, r.h)

\* A session starts with empty registers, and receiving a command does not
\* touch them.
LEMMA ReceivedTied ==
  ASSUME TypeOK, TieInv, NEW p1, NEW p2, NEW const
  PROVE  Tied(Received(p1, p2, const), Hist)
  <1>1. Ctx \in Contexts
    BY StartTypes
  <1>2. Tied(Ctx, Hist)
    BY DEF TieInv, Tied, Live, TypeOK, Ctx, Hist, FreshCtx, FreshHist
  <1>3. Received(p1, p2, const).storage = Ctx.storage
    BY <1>1 DEF Received, Contexts
  <1>4. QED  BY <1>2, <1>3 DEF Tied

\* Neither does appending.
LEMMA AppendedTied ==
  ASSUME NEW c \in Contexts, NEW h \in Histories, NEW n, Tied(c, h)
  PROVE  KeepsTie(Appended(c, h, n))
  BY DEF Appended, Ok, Error, Crash, KeepsTie, Tied, Contexts, Histories

\* Nor counting and appending.
LEMMA CountedTied ==
  ASSUME NEW c \in Contexts, NEW h \in Histories, NEW n \in Nat, Tied(c, h)
  PROVE  KeepsTie(CountedAppend(c, h, n))
  <1> DEFINE counted == [c EXCEPT !.cs = CsProcess(@, n)]
  <1>1. counted \in Contexts
    BY SectionTypes DEF Contexts
  <1>2. Tied(counted, h)
    BY DEF Tied, Contexts
  <1>3. KeepsTie(Appended(counted, h, n))
    BY <1>1, <1>2, AppendedTied
  <1>4. QED  BY <1>3 DEF CountedAppend, KeepsTie, Error

\* A value that passes a check is the stored one; a spelling spells only it.
LEMMA TieKeeps ==
  ASSUME NEW c \in Contexts, NEW h \in Histories, NEW v \in Values, NEW check \in Checks,
         Tied(c, h), CheckFails(c, check, v) = "ok"
  PROVE  Tie(h, c, check, v) \in Histories /\ Tied(c, Tie(h, c, check, v))
  <1>1. CASE check = "NO"
    BY <1>1 DEF Tie
  <1>2. CASE check = "R1_DECODE_NAME"
    <2> DEFINE named == {n \in DOMAIN NameOf : NameOf[n] = v}
    <2>1. c.storage[1] \in DOMAIN NameOf /\ NameOf[c.storage[1]] = v
      BY <1>2 DEF CheckFails
    <2>2. named = {c.storage[1]}
      BY <2>1, NamesAssumption
    <2>3. named \subseteq Values
      BY SignAssumption
    <2>4. Tie(h, c, check, v) = [h EXCEPT !.tied[1] = @ \cup named]
      BY <1>2 DEF Tie
    <2> HIDE DEF named
    <2>5. QED  BY <2>2, <2>3, <2>4 DEF Tied, Histories, Registers
  <1>3. CASE check \notin {"NO", "R1_DECODE_NAME"}
    <2> DEFINE q == RegisterOf(check)
    <2>1. q \in Registers
      BY DEF RegisterOf, Registers
    <2>2. c.storage[q] = v
      BY <1>3 DEF CheckFails
    <2>3. Tie(h, c, check, v) = [h EXCEPT !.tied[q] = @ \cup {v}]
      BY <1>3 DEF Tie
    <2> HIDE DEF q
    <2>4. QED  BY <2>1, <2>2, <2>3 DEF Tied, Histories
  <1>4. QED  BY <1>1, <1>2, <1>3

\* APPEND_DATA checks before it appends.
LEMMA AppendDataTied ==
  ASSUME NEW c \in Contexts, NEW h \in Histories, NEW v \in Values, NEW check \in Checks,
         NEW policy, Tied(c, h)
  PROVE  KeepsTie(AppendDataResult(c, h, v, check, policy))
  <1>1. CASE CheckFails(c, check, v) = "ok"
    <2>1. KeepsTie(CountedAppend(c, Tie(h, c, check, v), Size[v]))
      BY <1>1, TieKeeps, CountedTied, Sizes
    <2>2. QED  BY <1>1, <2>1 DEF AppendDataResult, KeepsTie, Crash
  <1>2. CASE CheckFails(c, check, v) # "ok"
    BY <1>2 DEF AppendDataResult, CheckFails, KeepsTie, Crash, Error
  <1>3. QED  BY <1>1, <1>2

\* Opening a section appends its length.
LEMMA StartSectionTied ==
  ASSUME NEW c \in Contexts, NEW h \in Histories, NEW declared \in Nat, NEW n \in Nat, Tied(c, h)
  PROVE  KeepsTie(StartSectionResult(c, h, declared, n))
  <1> DEFINE counted == [c EXCEPT !.cs = CsProcess(@, n)]
             opened == [counted EXCEPT !.cs = CsBegin(@, declared)]
             r == Appended(opened, h, n)
             level == c.cs.currentLevel + 1
             result == [r EXCEPT !.h.start[level] = IF c.dhIsActive THEN r.h.plain ELSE r.h.out,
                                 !.h.declared[level] = declared,
                                 !.h.inDh[level] = c.dhIsActive]
  <1>1. CASE ~CsCanProcess(c.cs, n) \/ ~CsCanBegin(c.cs)
    BY <1>1 DEF StartSectionResult, KeepsTie, Error
  <1>2. CASE CsCanProcess(c.cs, n) /\ CsCanBegin(c.cs)
    <2>1. counted \in Contexts /\ CsCanBegin(counted.cs)
      BY <1>2, SectionTypes DEF Contexts, CsCanBegin
    <2>2. opened \in Contexts
      BY <2>1, SectionTypes DEF Contexts
    <2>3. Tied(opened, h)
      BY DEF Tied, Contexts
    <2>4. r \in Results /\ KeepsTie(r)
      BY <2>2, <2>3, AppendedTypes, AppendedTied
    <2> HIDE DEF r
    <2>5. result.status = r.status /\ result.c = r.c /\ result.h.tied = r.h.tied
      BY <2>4 DEF Results, Histories
    <2>6. StartSectionResult(c, h, declared, n) = result
      BY <1>2 DEF StartSectionResult, r
    <2>7. QED  BY <2>4, <2>5, <2>6 DEF KeepsTie, Tied
  <1>3. QED  BY <1>1, <1>2

\* STORE_VALUE forgets what was checked against the old value.
LEMMA StoreTied ==
  ASSUME NEW c \in Contexts, NEW h \in Histories, NEW r \in Registers, NEW v, Tied(c, h)
  PROVE  KeepsTie(StoreResult(c, h, r, v))
  BY DEF StoreResult, Ok, Error, KeepsTie, Tied, Contexts, Histories

\* The other commands do not touch registers.
LEMMA OthersTied ==
  ASSUME NEW c \in Contexts, NEW h \in Histories, Tied(c, h)
  PROVE  /\ KeepsTie(InitResult(c, h))
         /\ KeepsTie(Ok([c EXCEPT !.responseLength = 0], h))
         /\ KeepsTie(EndSectionResult(c, h))
         /\ KeepsTie(StartDhResult(c, h))
         /\ KeepsTie(EndDhResult(c, h))
         /\ KeepsTie(FinishResult(c, h))
  <1>1. KeepsTie(InitResult(c, h))
    <2>1. [c EXCEPT !.pathSet = TRUE] \in Contexts /\ Tied([c EXCEPT !.pathSet = TRUE], h)
      BY DEF Tied, Contexts
    <2>2. KeepsTie(CountedAppend([c EXCEPT !.pathSet = TRUE], h, CHAIN_ID_LENGTH))
      BY <2>1, CountedTied DEF CHAIN_ID_LENGTH
    <2>3. QED  BY <2>2 DEF InitResult, Error, KeepsTie
  <1>2. KeepsTie(Ok([c EXCEPT !.responseLength = 0], h))
    BY DEF Ok, KeepsTie, Tied, Contexts
  <1>3. KeepsTie(EndSectionResult(c, h))
    BY DEF EndSectionResult, Ok, Error, KeepsTie, Tied, Contexts, Histories
  <1>4. KeepsTie(StartDhResult(c, h))
    BY DEF StartDhResult, Ok, Error, KeepsTie, Tied, Contexts, Histories
  <1>5. KeepsTie(EndDhResult(c, h))
    BY DEF EndDhResult, Ok, Error, KeepsTie, Tied, Contexts, Histories
  <1>6. KeepsTie(FinishResult(c, h))
    BY DEF FinishResult, Ok, Error, KeepsTie
  <1>7. QED  BY <1>1, <1>2, <1>3, <1>4, <1>5, <1>6

\* A handler that keeps the registers tied, executed.
LEMMA ExecuteTied ==
  ASSUME NEW p1, NEW r, NEW screen, KeepsTie(r), Execute(p1, r, screen)
  PROVE  TieInv'
  BY DEF Execute, KeepsTie, TieInv, Tied, Live

\* Every command keeps them tied.
LEMMA CommandTied ==
  ASSUME TypeOK, TieInv, Command
  PROVE  TieInv'
  <1>1. Hist \in Histories /\ \A p1, p2, const : Received(p1, p2, const) \in Contexts
    BY StartTypes, ReceivedTypes
  <1>2. \A p1, p2, const : Tied(Received(p1, p2, const), Hist)
    BY ReceivedTied
  <1>3. CASE HandleInit
    BY <1>1, <1>2, <1>3, OthersTied, ExecuteTied DEF HandleInit
  <1>4. CASE \E n \in ConstLens : HandleAppendConstData(n)
    BY <1>1, <1>2, <1>4, Sizes, CountedTied, ExecuteTied DEF HandleAppendConstData
  <1>5. CASE HandleShowMessage
    BY <1>1, <1>2, <1>5, OthersTied, ExecuteTied DEF HandleShowMessage
  <1>6. CASE \E v \in Values, check \in Checks, policy \in Policies, blank \in BOOLEAN :
               HandleAppendData(v, check, policy, blank)
    BY <1>1, <1>2, <1>6, AppendDataTied, ExecuteTied DEF HandleAppendData
  <1>7. CASE \E s \in Sections : HandleStartCountedSection(s[1], s[2])
    BY <1>1, <1>2, <1>7, Sizes, StartSectionTied, ExecuteTied DEF HandleStartCountedSection
  <1>8. CASE HandleEndCountedSection
    BY <1>1, <1>2, <1>8, OthersTied, ExecuteTied DEF HandleEndCountedSection
  <1>9. CASE \E r \in Registers, v \in Values : HandleStoreValue(r, v)
    BY <1>1, <1>2, <1>9, StoreTied, ExecuteTied DEF HandleStoreValue
  <1>10. CASE HandleStartDHEncoding
    BY <1>1, <1>2, <1>10, OthersTied, ExecuteTied DEF HandleStartDHEncoding
  <1>11. CASE HandleEndDHEncoding
    BY <1>1, <1>2, <1>11, OthersTied, ExecuteTied DEF HandleEndDHEncoding
  <1>12. CASE HandleFinish
    BY <1>1, <1>2, <1>12, OthersTied, ExecuteTied DEF HandleFinish
  <1>13. CASE BadRequest
    BY <1>13, ExecuteTied DEF BadRequest, Error, KeepsTie
  <1>14. QED
    BY <1>3, <1>4, <1>5, <1>6, <1>7, <1>8, <1>9, <1>10, <1>11, <1>12, <1>13 DEF Command

\* Whatever the order of stores and checks, and across sessions: the values
\* accepted against a register since it was stored to are all one value.
THEOREM Registers_Tie == Spec => []RegistersTie
  <1>1. Init => TieInv
    BY DEF Init, TieInv, Live
  <1>2. TypeOK /\ TieInv /\ [Next]_vars => TieInv'
    <2> SUFFICES ASSUME TypeOK, TieInv, [Next]_vars PROVE TieInv'
      OBVIOUS
    <2>1. CASE Command
      BY <2>1, CommandTied
    <2>2. CASE User \/ Restart
      BY <2>2 DEF User, UserReads, UserConfirms, UserRejects, Respond, EndSession, Restart,
                  TieInv, Tied, Live
    <2>3. CASE UNCHANGED vars
      BY <2>3 DEF vars, TieInv, Tied, Live
    <2>4. QED  BY <2>1, <2>2, <2>3 DEF Next
  <1>3. TieInv => RegistersTie
    BY FS_Singleton DEF TieInv, Tied, RegistersTie
  <1>4. QED  BY <1>1, <1>2, <1>3, TypeCorrect, PTL DEF Spec
=============================================================================
