-------------------------- MODULE Dispatcher_proofs --------------------------
(***************************************************************************)
(* The frame keeps its promises whatever the instructions do within it,    *)
(* for every set of instructions.  One inductive invariant, FrameInv, is   *)
(* behind all of them.                                                     *)
(***************************************************************************)
EXTENDS Dispatcher, TLAPS

AtMostOne == {<<>>} \cup {<<f>> : f \in Follows}

\* The conjuncts beyond the properties: an answer under way is the answer to the
\* one command owed; only a call that is open leaves the busy screen behind; a
\* screen that waits for the user belongs to an open call and to no answer.
FrameInv ==
  /\ io_state \in {"EXPECT_IO", "EXPECT_UI", "EXPECT_NONE"}
  /\ currentInstruction \in Instructions \cup {INS_NONE}
  /\ screen \in {Menu, Busy} \cup [kind : Kinds, callback : {"NOT_RUN", "RUN"}]
  /\ sending \in AtMostOne
  /\ owed \in 0..1
  /\ sending # <<>> => owed = 1 /\ screen.callback # "NOT_RUN"
  /\ sending = <<"busy">> => currentInstruction # INS_NONE
  /\ StateTold
  /\ screen.callback = "NOT_RUN" => io_state = "EXPECT_UI" /\ currentInstruction # INS_NONE
  /\ MenuMeansIdle

\* An answer is under way or it is not, and it is one.
LEMMA OneOrNone ==
  ASSUME NEW s \in AtMostOne
  PROVE  /\ s \in Seq(Follows) /\ Len(s) \in 0..1
         /\ s # <<>> => /\ Head(s) \in Follows /\ Tail(s) = <<>> /\ Len(s) = 1
                        /\ s = <<Head(s)>>
         /\ \A f \in Follows : Append(<<>>, f) = <<f>> /\ <<f>> \in AtMostOne /\ <<f>> # <<>>
  <1>1. CASE s = <<>>
    BY <1>1 DEF AtMostOne
  <1>2. ASSUME NEW f \in Follows, s = <<f>>
        PROVE  /\ s \in Seq(Follows) /\ Len(s) = 1 /\ s # <<>>
               /\ Head(s) = f /\ Tail(s) = <<>>
    BY <1>2
  <1>3. \A f \in Follows : Append(<<>>, f) = <<f>> /\ <<f>> \in AtMostOne /\ <<f>> # <<>>
    BY DEF AtMostOne
  <1>4. s = <<>> \/ \E f \in Follows : s = <<f>>
    BY DEF AtMostOne
  <1>5. CASE \E f \in Follows : s = <<f>>
    <2>1. PICK f \in Follows : s = <<f>>
      BY <1>5
    <2>2. QED  BY <1>2, <1>3, <2>1
  <1>6. QED  BY <1>1, <1>3, <1>4, <1>5

\* The screens differ from one another.
LEMMA ScreensDiffer ==
  /\ Menu # Busy /\ Menu.callback = "none" /\ Busy.callback = "none"
  /\ \A k \in Kinds : /\ Asks(k) \in [kind : Kinds, callback : {"NOT_RUN", "RUN"}]
                      /\ Asks(k).callback = "NOT_RUN" /\ Asks(k) # Menu
  /\ \A s \in [kind : Kinds, callback : {"NOT_RUN", "RUN"}] :
       /\ s # Menu
       /\ Acted(s) \in [kind : Kinds, callback : {"NOT_RUN", "RUN"}]
       /\ Acted(s).callback = "RUN" /\ Acted(s) # Menu
  BY DEF Menu, Busy, Asks, Acted, Kinds

\* A restart establishes the invariant.
LEMMA RestartInv == Restart => FrameInv'
  BY ScreensDiffer DEF Restart, FrameInv, StateTold, MenuMeansIdle, AtMostOne, Menu

\* So does a handler that answers a command taken from the transport.
LEMMA HandlerAnswersInv ==
  ASSUME FrameInv, Receives, NEW ins \in Instructions \cup {INS_NONE}, NEW f \in Follows,
         f = "busy" => ins # INS_NONE, HandlerAnswers(ins, f)
  PROVE  FrameInv'
  <1>1. sending = <<>> /\ owed = 0 /\ owed' = 1 /\ screen.callback # "NOT_RUN"
    BY DEF FrameInv, Receives, StateTold, HandlerAnswers
  <1>2. sending' = <<f>> /\ sending' \in AtMostOne /\ sending' # <<>>
    BY <1>1, OneOrNone DEF HandlerAnswers, AtMostOne
  <1>3. sending' = <<"busy">> => f = "busy"
    BY <1>2
  <1>4. QED
    BY <1>1, <1>2, <1>3 DEF FrameInv, HandlerAnswers, StateTold, MenuMeansIdle

\* A handler that puts a screen up.
LEMMA HandlerShowsInv ==
  ASSUME FrameInv, FrameAssumption, Receives, NEW ins \in Instructions, NEW k \in Kinds,
         HandlerShows(ins, k)
  PROVE  FrameInv'
  <1>1. sending = <<>> /\ owed = 0 /\ owed' = 1 /\ sending' = <<>>
    BY DEF FrameInv, Receives, StateTold, HandlerShows
  <1>2. ins # INS_NONE
    BY DEF FrameAssumption
  <1>3. /\ screen' \in [kind : Kinds, callback : {"NOT_RUN", "RUN"}]
        /\ screen'.callback = "NOT_RUN" /\ screen' # Menu
    BY ScreensDiffer DEF HandlerShows
  <1>4. QED
    BY <1>1, <1>2, <1>3 DEF FrameInv, HandlerShows, StateTold, MenuMeansIdle, AtMostOne

\* The screen the user acts on is one that waits, and nothing is being sent.
LEMMA PressedScreen ==
  ASSUME FrameInv, NEW k \in Kinds, Pressed(k)
  PROVE  /\ screen \in [kind : Kinds, callback : {"NOT_RUN", "RUN"}]
         /\ sending = <<>> /\ owed = 1 /\ io_state = "EXPECT_UI"
         /\ currentInstruction # INS_NONE
  <1>1. screen.callback = "NOT_RUN"
    BY DEF Pressed
  <1>2. sending = <<>> /\ io_state = "EXPECT_UI" /\ currentInstruction # INS_NONE
    BY <1>1 DEF FrameInv
  <1>3. owed = 1
    BY <1>2 DEF FrameInv, StateTold
  <1>4. screen # Menu /\ screen # Busy
    BY <1>1, ScreensDiffer
  <1>5. QED  BY <1>2, <1>3, <1>4 DEF FrameInv

\* A callback that answers, or shows the next screen.
LEMMA CallbackInv ==
  ASSUME FrameInv, NEW k \in Kinds, Pressed(k),
         \/ \E f \in Follows : CallbackAnswers(f)
         \/ \E l \in Kinds : CallbackShows(l)
  PROVE  FrameInv'
  <1>0. /\ screen \in [kind : Kinds, callback : {"NOT_RUN", "RUN"}]
        /\ sending = <<>> /\ owed = 1 /\ io_state = "EXPECT_UI"
        /\ currentInstruction # INS_NONE
    BY PressedScreen
  <1>1. ASSUME NEW f \in Follows, CallbackAnswers(f) PROVE FrameInv'
    <2>1. sending' = <<f>> /\ sending' \in AtMostOne /\ sending' # <<>>
      BY <1>0, <1>1, OneOrNone DEF CallbackAnswers, AtMostOne
    <2>2. /\ screen' \in [kind : Kinds, callback : {"NOT_RUN", "RUN"}]
          /\ screen'.callback = "RUN"
      BY <1>0, <1>1, ScreensDiffer DEF CallbackAnswers
    <2>3. QED
      BY <1>0, <1>1, <2>1, <2>2 DEF FrameInv, CallbackAnswers, StateTold, MenuMeansIdle
  <1>2. ASSUME NEW l \in Kinds, CallbackShows(l) PROVE FrameInv'
    <2>1. /\ screen' \in [kind : Kinds, callback : {"NOT_RUN", "RUN"}]
          /\ screen'.callback = "NOT_RUN" /\ screen' # Menu
      BY <1>2, ScreensDiffer DEF CallbackShows
    <2>2. QED
      BY <1>0, <1>2, <2>1 DEF FrameInv, CallbackShows, StateTold, MenuMeansIdle
  <1>3. QED  BY <1>1, <1>2

\* The answer is out and what follows it has run.
LEMMA SentInv == FrameInv /\ FrameAssumption /\ Sent => FrameInv'
  <1> SUFFICES ASSUME FrameInv, FrameAssumption, Sent PROVE FrameInv'
    OBVIOUS
  <1>1. sending \in AtMostOne /\ sending # <<>> /\ owed = 1
    BY DEF FrameInv, Sent
  <1>2. sending' = <<>> /\ owed' = 0 /\ io_state' = "EXPECT_IO" /\ sending' \in AtMostOne
    BY <1>1, OneOrNone DEF Sent, AtMostOne
  <1>3. CASE Head(sending) = "idle"
    <2>1. screen' = Menu /\ currentInstruction' = INS_NONE
      BY <1>3 DEF Sent
    <2>2. QED
      BY <1>2, <2>1, ScreensDiffer DEF FrameInv, StateTold, MenuMeansIdle
  <1>4. CASE Head(sending) # "idle"
    <2>1. Head(sending) = "busy" /\ sending = <<"busy">>
      BY <1>1, <1>4, OneOrNone DEF Follows
    <2>2. currentInstruction # INS_NONE
      BY <2>1 DEF FrameInv
    <2>3. screen' = Busy /\ currentInstruction' = currentInstruction
      BY <1>4 DEF Sent
    <2>4. QED
      BY <1>2, <2>2, <2>3, ScreensDiffer DEF FrameInv, StateTold, MenuMeansIdle
  <1>5. QED  BY <1>3, <1>4

-------------------------------------------------------------------------------
\* FrameInv is inductive: one case for each action of the frame.
LEMMA FrameKept == FrameInv /\ [FrameNext]_frame => FrameInv'
  <1> SUFFICES ASSUME FrameInv, [FrameNext]_frame PROVE FrameInv'
    OBVIOUS
  <1> USE FrameAssumption
  <1>1. ASSUME NEW ins \in Instructions, Handle(ins) PROVE FrameInv'
    <2>1. ins # INS_NONE /\ Receives
      BY <1>1 DEF FrameAssumption, Handle
    <2>2. ASSUME NEW f \in Follows, HandlerAnswers(ins, f) PROVE FrameInv'
      BY <2>1, <2>2, HandlerAnswersInv
    <2>3. ASSUME NEW k \in Kinds, HandlerShows(ins, k) PROVE FrameInv'
      BY <2>1, <2>3, HandlerShowsInv
    <2>4. QED  BY <1>1, <2>2, <2>3 DEF Handle
  <1>2. ASSUME Receives, HandlerThrows(currentInstruction) PROVE FrameInv'
    <2>1. /\ currentInstruction \in Instructions \cup {INS_NONE}
          /\ "idle" \in Follows /\ "idle" # "busy"
      BY DEF FrameInv, Follows
    <2>2. HandlerAnswers(currentInstruction, "idle")
      BY <1>2 DEF HandlerThrows
    <2>3. QED  BY <1>2, <2>1, <2>2, HandlerAnswersInv
  <1>3. ASSUME NEW ins \in Instructions, StillInCall(ins) PROVE FrameInv'
    BY <1>2, <1>3 DEF StillInCall
  <1>4. CASE BadRequest
    BY <1>2, <1>4 DEF BadRequest
  <1>5. CASE Disturb \/ CallbackThrows \/ Reset
    BY <1>5, RestartInv DEF Disturb, CallbackThrows, Reset
  <1>6. CASE Sent
    BY <1>6, SentInv
  <1>7. ASSUME NEW k \in Kinds, Confirm(k) PROVE FrameInv'
    BY <1>7, CallbackInv DEF Confirm
  <1>8. CASE Reject
    BY <1>8, CallbackInv DEF Reject, Kinds, Follows
  <1>9. CASE UNCHANGED frame
    BY <1>9 DEF frame, FrameInv, StateTold, MenuMeansIdle
  <1>10. QED
    BY <1>1, <1>3, <1>4, <1>5, <1>6, <1>7, <1>8, <1>9 DEF FrameNext

LEMMA FrameInvInductive == FrameSpec => []FrameInv
  <1>1. FrameInit => FrameInv
    BY ScreensDiffer
    DEF FrameInit, FrameInv, StateTold, MenuMeansIdle, AtMostOne
  <1>2. QED  BY <1>1, FrameKept, PTL DEF FrameSpec

\* Every command is answered at most once, whatever the instructions do within
\* the frame of main.c and uiHelpers.c.
THEOREM OneAnswer == FrameSpec => []OneAnswerEach
  <1>1. FrameInv => OneAnswerEach
    <2> SUFFICES ASSUME FrameInv PROVE OneAnswerEach
      OBVIOUS
    <2>1. sending \in AtMostOne /\ owed \in 0..1 /\ (sending # <<>> => owed = 1)
      BY DEF FrameInv
    <2>2. Len(sending) \in 0..1 /\ (sending # <<>> => Len(sending) = 1)
      BY <2>1, OneOrNone
    <2>3. sending = <<>> => Len(sending) = 0
      OBVIOUS
    <2>4. QED  BY <2>1, <2>2, <2>3 DEF OneAnswerEach
  <1>2. QED  BY <1>1, FrameInvInductive, PTL

\* io_state is true: no command is left that nothing will answer.
THEOREM StateIsTold == FrameSpec => []StateTold
  <1>1. FrameInv => StateTold
    BY DEF FrameInv
  <1>2. QED  BY <1>1, FrameInvInductive, PTL

\* The assertions of the button handlers hold.
THEOREM ButtonsAreExpected == FrameSpec => []ButtonsExpected
  <1>1. FrameInv => ButtonsExpected
    BY DEF FrameInv, ButtonsExpected
  <1>2. QED  BY <1>1, FrameInvInductive, PTL

\* The menu is on the display exactly when no call is open.
THEOREM MenuIsIdle == FrameSpec => []MenuMeansIdle
  <1>1. FrameInv => MenuMeansIdle
    BY DEF FrameInv
  <1>2. QED  BY <1>1, FrameInvInductive, PTL

\* The instruction of a call does not change in the middle of it.
THEOREM InstructionIsKept == FrameSpec => InstructionKept
  <1> DEFINE Kept == currentInstruction' # currentInstruction =>
                       INS_NONE \in {currentInstruction, currentInstruction'}
  <1>1. [FrameNext]_frame => [Kept]_frame
    <2> SUFFICES ASSUME FrameNext PROVE Kept
      BY DEF frame
    <2>1. ASSUME NEW ins \in Instructions, Handle(ins) PROVE Kept
      BY <2>1 DEF Handle, MayCall, HandlerAnswers, HandlerShows
    <2>2. ASSUME NEW ins \in Instructions, StillInCall(ins) PROVE Kept
      BY <2>2 DEF StillInCall, HandlerThrows, HandlerAnswers
    <2>3. CASE BadRequest
      BY <2>3 DEF BadRequest, HandlerThrows, HandlerAnswers
    <2>4. CASE Disturb \/ CallbackThrows \/ Reset
      BY <2>4 DEF Disturb, CallbackThrows, Reset, Restart
    <2>5. CASE Sent
      BY <2>5 DEF Sent
    <2>6. ASSUME NEW k \in Kinds, Confirm(k) PROVE Kept
      BY <2>6 DEF Confirm, CallbackAnswers, CallbackShows
    <2>7. CASE Reject
      BY <2>7 DEF Reject, CallbackAnswers
    <2>8. QED  BY <2>1, <2>2, <2>3, <2>4, <2>5, <2>6, <2>7 DEF FrameNext
  <1>2. QED  BY <1>1, PTL DEF FrameSpec, InstructionKept
===============================================================================
